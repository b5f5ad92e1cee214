-------------------------- MODULE VerificationCodes --------------------------
(***************************************************************************)
(* The codes that prove an e-mail address or a phone number.  One row per  *)
(* address and purpose holds the code last sent.  A request reads the row, *)
(* decides, and writes the columns it changed: nothing is locked, so what  *)
(* it decides on may be old, and what it writes may hit a newer code.      *)
(*                                                                         *)
(* A code is the number of its sending, 0 the empty hash.  A row's id is   *)
(* the number of its first code, 0 of no row.  Time is in the events that  *)
(* end the cooldown, the life of a code and the window in which sendings   *)
(* are counted.                                                            *)
(***************************************************************************)
EXTENDS Integers, FiniteSets

CONSTANTS
  Slots,        \* [target, purpose] pairs, the rows there may be
  Sessions,     \* requests in progress
  MaxAttempts,  \* CODE_VERIFY_MAX_ATTEMPTS
  MaxSends,     \* CODE_SEND_LIMIT_PER_WINDOW
  MaxCodes      \* bound: codes sent in a behaviour

ASSUME CodesAssumption ==
  /\ MaxAttempts \in Nat \ {0} /\ MaxSends \in Nat \ {0} /\ MaxCodes \in Nat

VARIABLES
  code,      \* [Slots -> row], the rows of verification_codes
  session,   \* [Sessions -> what a request in progress holds]
  sentCodes, \* codes sent so far
  closed     \* history: codes that were accepted, locked, expired or replaced

codeVars == <<code, sentCodes, closed>>

Codes == 1 .. MaxCodes
CodeRows == [id : 0 .. MaxCodes, hash : 0 .. MaxCodes, expired : BOOLEAN, cooling : BOOLEAN,
             window : BOOLEAN, sends : 0 .. MaxSends, attempts : Nat,
             consumed : BOOLEAN]
NoRow == [id |-> 0, hash |-> 0, expired |-> FALSE, cooling |-> FALSE,
          window |-> FALSE, sends |-> 0, attempts |-> 0, consumed |-> FALSE]
Idle == [at |-> "idle"]

CodesTypeOK ==
  /\ code \in [Slots -> CodeRows]
  /\ sentCodes \in 0 .. MaxCodes /\ closed \subseteq Codes

CodesInit ==
  /\ code = [slot \in Slots |-> NoRow]
  /\ session = [s \in Sessions |-> Idle]
  /\ sentCodes = 0 /\ closed = {}

-----------------------------------------------------------------------------
At(s, point) == session[s].at = point
Leave(s) == session' = [session EXCEPT ![s] = Idle]

(* The columns a judgement looks at. *)
Judged(row) == [row EXCEPT !.cooling = FALSE, !.window = FALSE, !.sends = 0]
Sendable(row) == ~row.cooling /\ (row.window => row.sends < MaxSends)
Usable(row) == row.hash # 0 /\ ~row.consumed

(* A request reads the row of its slot; task is what it is for.  One that  *)
(* the row refuses has no effect.  The guess is right or wrong of the code *)
(* it reads; old tells, for the properties, that this code was closed.     *)
LoadToSend(s, slot) ==
  /\ At(s, "idle") /\ Sendable(code[slot])
  /\ session' = [session EXCEPT ![s] = [at |-> "sending", slot |-> slot, copy |-> code[slot]]]
  /\ UNCHANGED codeVars

LoadToJudge(s, slot, right, task) ==
  /\ At(s, "idle") /\ Usable(code[slot])
  /\ session' = [session EXCEPT ![s] =
       [at |-> "judging", slot |-> slot, copy |-> Judged(code[slot]), right |-> right,
        old |-> code[slot].hash \in closed, task |-> task]]
  /\ UNCHANGED codeVars

(* Mutant: the whole row is written, as the request read it. *)
WholeRow(row, copy, changes) ==
  [column \in DOMAIN row |-> IF column \in DOMAIN changes THEN changes[column] ELSE copy[column]]

(* The columns of changes whose value differs from the copy are written to *)
(* the row as it is by then; a time set anew always differs.               *)
Written(row, copy, changes) ==
  [column \in DOMAIN row |->
     IF column \in DOMAIN changes
        /\ (changes[column] # copy[column] \/ column \in {"expired", "cooling"})
       THEN changes[column] ELSE row[column]]

(* _issue_verification_code *)
SendCode(s) ==
  LET slot == session[s].slot
      copy == session[s].copy
      new == sentCodes + 1
      changes == [id |-> IF copy.id = 0 THEN new ELSE copy.id, hash |-> new,
                  expired |-> FALSE, cooling |-> TRUE, window |-> TRUE,
                  sends |-> IF copy.window THEN copy.sends + 1 ELSE 1,
                  attempts |-> 0, consumed |-> FALSE]
  IN  /\ At(s, "sending") /\ new <= MaxCodes
      /\ copy.id = code[slot].id
      /\ code' = [code EXCEPT ![slot] = Written(@, copy, changes)]
      /\ sentCodes' = new
      /\ closed' = closed \cup ({code[slot].hash} \ {0})
      /\ Leave(s)

(* The message cannot be delivered, or the row was inserted or deleted by  *)
(* another request: everything is rolled back.                             *)
SendingFails(s) == At(s, "sending") /\ Leave(s) /\ UNCHANGED codeVars

-----------------------------------------------------------------------------
(* _consume_verification_code.                                             *)

Write(s, changes, closes) ==
  /\ code' = [code EXCEPT ![session[s].slot] = Written(@, session[s].copy, changes)]
  /\ closed' = IF closes THEN closed \cup {session[s].copy.hash} ELSE closed
  /\ UNCHANGED sentCodes

(* The row a write needs was deleted by a merge: the request fails. *)
RowStays(s) == code[session[s].slot].id = session[s].copy.id

CodeExpired(s) ==
  LET copy == session[s].copy IN
  /\ At(s, "judging") /\ copy.expired /\ RowStays(s)
  /\ Write(s, [hash |-> 0], TRUE)
  /\ Leave(s)

(* Mutant: the last attempt is counted, but the code stays. *)
CountOnly(copy) == [attempts |-> copy.attempts + 1]

(* The attempt is counted, and the last one locks the code. *)
Attempt(copy) ==
  IF copy.attempts + 1 < MaxAttempts
    THEN [attempts |-> copy.attempts + 1]
    ELSE [attempts |-> copy.attempts + 1, hash |-> 0, expired |-> TRUE]

WrongCode(s) ==
  LET copy == session[s].copy IN
  /\ At(s, "judging") /\ ~copy.expired /\ RowStays(s)
  /\ ~session[s].right
  /\ Write(s, Attempt(copy), copy.attempts + 1 >= MaxAttempts)
  /\ Leave(s)

(* Mutant: the code is used, but stays. *)
UsedOnly == [attempts |-> 0]
Spent == [consumed |-> TRUE, hash |-> 0, attempts |-> 0]

(* The session goes on with its task. *)
AcceptCode(s) ==
  LET copy == session[s].copy IN
  /\ At(s, "judging") /\ ~copy.expired /\ RowStays(s)
  /\ session[s].right
  /\ Write(s, Spent, TRUE)
  /\ session' = [session EXCEPT ![s] = [at |-> "verified", slot |-> @.slot, task |-> @.task]]

(* The row is gone, or the request is interrupted. *)
JudgingFails(s) == At(s, "judging") /\ Leave(s) /\ UNCHANGED codeVars

-----------------------------------------------------------------------------
(* Time: a minute, five minutes, half an hour after the sending.           *)
CooldownEnds(slot) ==
  /\ code[slot].cooling
  /\ code' = [code EXCEPT ![slot].cooling = FALSE]
  /\ UNCHANGED <<session, sentCodes, closed>>

LifeEnds(slot) ==
  /\ code[slot].hash # 0 /\ ~code[slot].expired /\ ~code[slot].cooling
  /\ code' = [code EXCEPT ![slot].expired = TRUE]
  /\ UNCHANGED <<session, sentCodes, closed>>

WindowEnds(slot) ==
  /\ code[slot].window /\ ~code[slot].cooling
  /\ code' = [code EXCEPT ![slot].window = FALSE]
  /\ UNCHANGED <<session, sentCodes, closed>>

CodeStep(s) ==
  SendCode(s) \/ SendingFails(s) \/ CodeExpired(s) \/ WrongCode(s) \/ AcceptCode(s)
  \/ JudgingFails(s)
Time == \E slot \in Slots : CooldownEnds(slot) \/ LifeEnds(slot) \/ WindowEnds(slot)

codesVars == <<codeVars, session>>

-----------------------------------------------------------------------------
(* _consume_verification_code, _issue_verification_code: once a code was   *)
(* accepted, locked, found expired or replaced, no request that reads the  *)
(* row later accepts it, whatever older requests still write to the row    *)
(* (test_login_user_by_email_code_locks_after_too_many_attempts states it  *)
(* of a locked code).                                                      *)
ClosedCodeRefused ==
  [][\A s \in Sessions :
       (At(s, "judging") /\ session'[s].at = "verified") => ~session[s].old]_codesVars
=============================================================================
