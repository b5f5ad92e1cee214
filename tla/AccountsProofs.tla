---------------------------- MODULE AccountsProofs ----------------------------
(***************************************************************************)
(* Theorems about Accounts, for any accounts, addresses, sessions and      *)
(* bounds.  The inductive invariant has two parts: CodesInv relates what   *)
(* the sessions hold of the codes to the rows and to the closed codes, and *)
(* AccountsInv relates what a merge has read to the rows it will write.    *)
(***************************************************************************)
EXTENDS Accounts, TLAPS

(* What a request that was let in is for. *)
TaskOK(task, slot) ==
  task.kind = "bind" =>
    /\ task.user \in Users /\ task.phone \in Phones \cup {None}
    /\ slot.purpose = "verify_email"

SendingOK(s) ==
  At(s, "sending") =>
    /\ session[s].slot \in Slots /\ session[s].copy \in CodeRows
    /\ session[s].copy.hash <= sentCodes
    /\ session[s].copy.window => session[s].copy.sends < MaxSends

(* The code a request judges was open when it was read, and was never sent *)
(* to another address.                                                     *)
JudgingOK(s) ==
  At(s, "judging") =>
    /\ session[s].slot \in Slots /\ session[s].copy \in CodeRows
    /\ session[s].copy.hash \in 1 .. sentCodes
    /\ session[s].old = FALSE
    /\ \A other \in Slots \ {session[s].slot} : code[other].hash # session[s].copy.hash
    /\ TaskOK(session[s].task, session[s].slot)

VerifiedOK(s) ==
  /\ session[s] = Idle \/ session[s].at \in {"sending", "judging", "verified", "merging"}
  /\ (At(s, "verified") \/ At(s, "merging")) =>
       /\ session[s].slot \in Slots
       /\ TaskOK(session[s].task, session[s].slot)

SessionsOK == \A s \in Sessions : SendingOK(s) /\ JudgingOK(s) /\ VerifiedOK(s)

(* The code of a row was sent and is not closed, and is of that row only.  *)
OpenCodes ==
  /\ closed \subseteq 1 .. sentCodes
  /\ \A slot \in Slots : code[slot].hash <= sentCodes /\ code[slot].hash \notin closed
  /\ \A slot, other \in Slots :
       (slot # other /\ code[slot].hash # 0) => code[slot].hash # code[other].hash

CodesInv ==
  /\ CodesTypeOK
  /\ session = [s \in Sessions |-> session[s]]
  /\ SessionsOK /\ OpenCodes

-----------------------------------------------------------------------------
(* Codes.                                                                  *)

(* What is written keeps the columns' types when the changes have them.    *)
LEMMA WrittenType ==
  ASSUME NEW row \in CodeRows, NEW copy, NEW changes,
         \A column \in DOMAIN changes :
           /\ column = "id" => changes[column] \in 0 .. MaxCodes
           /\ column = "hash" => changes[column] \in 0 .. MaxCodes
           /\ column \in {"expired", "cooling", "window", "consumed"}
                => changes[column] \in BOOLEAN
           /\ column = "sends" => changes[column] \in 0 .. MaxSends
           /\ column = "attempts" => changes[column] \in Nat
  PROVE  /\ Written(row, copy, changes) \in CodeRows
         /\ Written(row, copy, changes).hash =
              IF "hash" \in DOMAIN changes /\ changes.hash # copy.hash
                THEN changes.hash ELSE row.hash
  BY DEF Written, CodeRows

(* Nobody's codes change, and the sessions stay sound. *)
LEMMA LoadToSendKeeps ==
  ASSUME CodesAssumption, CodesInv, NEW s \in Sessions, NEW slot \in Slots, LoadToSend(s, slot)
  PROVE  CodesInv'
  <1>1. session'[s] = [at |-> "sending", slot |-> slot, copy |-> code[slot]]
    BY DEF LoadToSend, CodesInv
  <1>2. \A t \in Sessions \ {s} : session'[t] = session[t]
    BY DEF LoadToSend, CodesInv
  <1>3. session' = [t \in Sessions |-> session'[t]]
    BY DEF LoadToSend, CodesInv
  <1>4. \A t \in Sessions : SendingOK(t)' /\ JudgingOK(t)' /\ VerifiedOK(t)'
    BY <1>1, <1>2 DEF CodesInv, CodesTypeOK, SessionsOK, SendingOK, JudgingOK, VerifiedOK, TaskOK,
       At, OpenCodes, LoadToSend, Sendable, codeVars
  <1> QED BY <1>3, <1>4 DEF CodesInv, CodesTypeOK, SessionsOK, OpenCodes, LoadToSend, codeVars

LEMMA LoadToJudgeKeeps ==
  ASSUME CodesAssumption, CodesInv, NEW s \in Sessions, NEW slot \in Slots,
         NEW right \in BOOLEAN, NEW task, TaskOK(task, slot), LoadToJudge(s, slot, right, task)
  PROVE  CodesInv'
  <1>1. session'[s] = [at |-> "judging", slot |-> slot, copy |-> Judged(code[slot]),
                       right |-> right, old |-> code[slot].hash \in closed, task |-> task]
    BY DEF LoadToJudge, CodesInv
  <1>2. \A t \in Sessions \ {s} : session'[t] = session[t]
    BY DEF LoadToJudge, CodesInv
  <1>3. session' = [t \in Sessions |-> session'[t]]
    BY DEF LoadToJudge, CodesInv
  <1>4. /\ Judged(code[slot]) \in CodeRows
        /\ Judged(code[slot]).hash = code[slot].hash
        /\ code[slot].hash \in 1 .. sentCodes
    <2>1. code[slot] \in CodeRows /\ code[slot].hash # 0 /\ code[slot].hash <= sentCodes
      BY DEF CodesInv, CodesTypeOK, LoadToJudge, Usable, OpenCodes
    <2>2. 0 \in 0 .. MaxSends
      BY DEF CodesAssumption
    <2>3. Judged(code[slot]) \in CodeRows /\ Judged(code[slot]).hash = code[slot].hash
      BY <2>1, <2>2 DEF Judged, CodeRows
    <2> QED BY <2>1, <2>3 DEF CodesInv, CodesTypeOK, CodeRows
  <1>5. (code[slot].hash \in closed) = FALSE
    BY DEF CodesInv, OpenCodes
  <1>6. SendingOK(s)' /\ JudgingOK(s)' /\ VerifiedOK(s)'
    <2>1. \A other \in Slots \ {slot} : code[other].hash # code[slot].hash
      BY <1>4 DEF CodesInv, OpenCodes
    <2>2. sentCodes' = sentCodes /\ code' = code
      BY DEF LoadToJudge, codeVars
    <2> DEFINE old == code[slot].hash \in closed
    <2>7. session'[s] = [at |-> "judging", slot |-> slot, copy |-> Judged(code[slot]),
                         right |-> right, old |-> old, task |-> task]
      BY <1>1
    <2>8. old = FALSE
      BY <1>5
    <2> HIDE DEF old
    <2>3. /\ session'[s].at = "judging" /\ session'[s].slot = slot
          /\ session'[s].copy = Judged(code[slot]) /\ session'[s].old = FALSE
          /\ session'[s].task = task
      BY <2>7, <2>8
    <2>4. SendingOK(s)' /\ VerifiedOK(s)'
      BY <2>3 DEF SendingOK, VerifiedOK, At
    <2>5. TaskOK(task, slot)'
      BY DEF TaskOK
    <2>6. JudgingOK(s)'
      BY <1>4, <2>1, <2>2, <2>3, <2>5 DEF JudgingOK
    <2> QED BY <2>4, <2>6
  <1>7. \A t \in Sessions \ {s} : SendingOK(t)' /\ JudgingOK(t)' /\ VerifiedOK(t)'
    BY <1>2 DEF CodesInv, SessionsOK, SendingOK, JudgingOK, VerifiedOK, At, LoadToJudge, codeVars
  <1> QED BY <1>3, <1>6, <1>7 DEF CodesInv, CodesTypeOK, SessionsOK, OpenCodes, LoadToJudge, codeVars

(* A session that leaves, or changes what only AccountsInv is about. *)
LEMMA QuietKeeps ==
  ASSUME CodesInv, UNCHANGED codeVars,
         session' = [t \in Sessions |-> session'[t]],
         NEW s \in Sessions,
         \A t \in Sessions \ {s} : session'[t] = session[t],
         \/ session'[s] = Idle
         \/ session'[s].at = "merging" /\ At(s, "verified")
            /\ session'[s].slot = session[s].slot /\ session'[s].task = session[s].task
  PROVE  CodesInv'
  <1>1. \A t \in Sessions : SendingOK(t)' /\ JudgingOK(t)' /\ VerifiedOK(t)'
    BY DEF CodesInv, CodesTypeOK, SessionsOK, SendingOK, JudgingOK, VerifiedOK, TaskOK, At,
       Idle, codeVars
  <1> QED BY <1>1 DEF CodesInv, CodesTypeOK, SessionsOK, OpenCodes, codeVars

LEMMA SendCodeKeeps ==
  ASSUME CodesAssumption, CodesInv, NEW s \in Sessions, SendCode(s)
  PROVE  CodesInv'
  <1> DEFINE slot == session[s].slot
             copy == session[s].copy
             new == sentCodes + 1
             changes == [id |-> IF copy.id = 0 THEN new ELSE copy.id, hash |-> new,
                         expired |-> FALSE, cooling |-> TRUE, window |-> TRUE,
                         sends |-> IF copy.window THEN copy.sends + 1 ELSE 1,
                         attempts |-> 0, consumed |-> FALSE]
  <1>1. /\ At(s, "sending") /\ new \in 1 .. MaxCodes /\ sentCodes' = new
        /\ slot \in Slots /\ copy \in CodeRows /\ copy.hash <= sentCodes
        /\ copy.window => copy.sends < MaxSends
    BY DEF SendCode, CodesInv, CodesTypeOK, SessionsOK, SendingOK, CodesAssumption
  <1>2. code' = [code EXCEPT ![slot] = Written(@, copy, changes)]
    BY DEF SendCode
  <1>3. closed' = closed \cup ({code[slot].hash} \ {0})
    BY DEF SendCode
  <1>4. /\ Written(code[slot], copy, changes) \in CodeRows
        /\ Written(code[slot], copy, changes).hash = new
    <2>1. /\ code[slot] \in CodeRows /\ copy.id \in 0 .. MaxCodes /\ copy.sends \in 0 .. MaxSends
          /\ copy.hash # new
      BY <1>1 DEF CodesInv, CodesTypeOK, CodeRows
    <2>2. /\ DOMAIN changes = {"id", "hash", "expired", "cooling", "window", "sends", "attempts",
                              "consumed"}
          /\ changes.id \in 0 .. MaxCodes /\ changes.hash = new
          /\ changes.expired \in BOOLEAN /\ changes.cooling \in BOOLEAN
          /\ changes.window \in BOOLEAN /\ changes.consumed \in BOOLEAN
          /\ changes.sends \in 0 .. MaxSends /\ changes.attempts \in Nat
      <3>1. (IF copy.window THEN copy.sends + 1 ELSE 1) \in 0 .. MaxSends
        BY <1>1, <2>1 DEF CodesAssumption
      <3> QED BY <1>1, <2>1, <3>1
    <2> HIDE DEF changes
    <2> QED BY <1>1, <2>1, <2>2, WrittenType
  <1>5. /\ session' = [t \in Sessions |-> session'[t]]
        /\ session'[s] = Idle
        /\ \A t \in Sessions \ {s} : session'[t] = session[t]
    BY DEF SendCode, Leave, CodesInv
  <1>6. code'[slot].hash = new /\ \A other \in Slots \ {slot} : code'[other] = code[other]
    BY <1>1, <1>2, <1>4 DEF CodesInv, CodesTypeOK
  <1>7. CodesTypeOK'
    <2> HIDE DEF changes, copy
    <2>1. code' \in [Slots -> CodeRows]
      BY <1>1, <1>2, <1>4 DEF CodesInv, CodesTypeOK
    <2>2. code[slot].hash \in 0 .. MaxCodes
      BY <1>1 DEF CodesInv, CodesTypeOK, CodeRows
    <2>3. closed' \subseteq Codes
      BY <1>3, <2>2 DEF CodesInv, CodesTypeOK, Codes
    <2>4. sentCodes' \in 0 .. MaxCodes
      BY <1>1 DEF CodesAssumption
    <2> QED BY <2>1, <2>3, <2>4 DEF CodesTypeOK
  <1>8. SessionsOK'
    <2>1. SendingOK(s)' /\ JudgingOK(s)' /\ VerifiedOK(s)'
      BY <1>5 DEF SendingOK, JudgingOK, VerifiedOK, At, Idle
    <2> SUFFICES ASSUME NEW t \in Sessions \ {s}
                 PROVE  SendingOK(t)' /\ JudgingOK(t)' /\ VerifiedOK(t)'
      BY <2>1 DEF SessionsOK
    <2>2. session'[t] = session[t] /\ SendingOK(t) /\ JudgingOK(t) /\ VerifiedOK(t)
      BY <1>5 DEF CodesInv, SessionsOK
    <2>3. SendingOK(t)' /\ VerifiedOK(t)'
      BY <1>1, <2>2 DEF SendingOK, VerifiedOK, At, CodesInv, CodesTypeOK, CodeRows
    <2>4. JudgingOK(t)'
      <3> SUFFICES ASSUME At(t, "judging") PROVE JudgingOK(t)'
        BY <2>2 DEF JudgingOK, At
      <3>1. session[t].copy.hash \in 1 .. sentCodes /\ session[t].copy.hash # new
        BY <2>2 DEF JudgingOK, CodesInv, CodesTypeOK
      <3> QED BY <1>1, <1>6, <2>2, <3>1 DEF JudgingOK, At, CodesInv, CodesTypeOK
    <2> QED BY <2>3, <2>4
  <1>9. OpenCodes'
    BY <1>1, <1>3, <1>6 DEF CodesInv, CodesTypeOK, OpenCodes, CodeRows
  <1> QED BY <1>5, <1>7, <1>8, <1>9 DEF CodesInv

(* A request writes its judgement over a row that may hold a newer code: a *)
(* hash it writes is empty, and then the code it judged is closed.         *)
LEMMA JudgementKeeps ==
  ASSUME CodesAssumption, CodesInv, NEW s \in Sessions, At(s, "judging"),
         NEW changes, NEW closes \in BOOLEAN, Write(s, changes, closes),
         DOMAIN changes \subseteq {"hash", "attempts", "expired", "consumed"},
         "hash" \in DOMAIN changes => changes.hash = 0,
         "attempts" \in DOMAIN changes => changes.attempts \in Nat,
         "expired" \in DOMAIN changes => changes.expired \in BOOLEAN,
         "consumed" \in DOMAIN changes => changes.consumed \in BOOLEAN,
         closes => "hash" \in DOMAIN changes,
         session' = [t \in Sessions |-> session'[t]],
         \A t \in Sessions \ {s} : session'[t] = session[t],
         \/ session'[s] = Idle
         \/ session'[s].at = "verified" /\ session'[s].slot = session[s].slot
            /\ session'[s].task = session[s].task
  PROVE  CodesInv'
  <1> DEFINE slot == session[s].slot
             copy == session[s].copy
  <1>1. /\ slot \in Slots /\ copy \in CodeRows /\ copy.hash \in 1 .. sentCodes
        /\ \A other \in Slots \ {slot} : code[other].hash # copy.hash
        /\ TaskOK(session[s].task, slot)
    BY DEF CodesInv, SessionsOK, JudgingOK
  <1>2. /\ code' = [code EXCEPT ![slot] = Written(@, copy, changes)]
        /\ closed' = IF closes THEN closed \cup {copy.hash} ELSE closed
        /\ sentCodes' = sentCodes
    BY DEF Write
  <1>3. code \in [Slots -> CodeRows] /\ sentCodes \in 0 .. MaxCodes /\ closed \subseteq 1 .. sentCodes
    BY DEF CodesInv, CodesTypeOK, OpenCodes
  <1>4. /\ Written(code[slot], copy, changes) \in CodeRows
        /\ Written(code[slot], copy, changes).hash =
             IF "hash" \in DOMAIN changes THEN 0 ELSE code[slot].hash
    <2>1. copy.hash # 0 /\ code[slot] \in CodeRows /\ 0 \in 0 .. MaxCodes
      BY <1>1, <1>3
    <2> QED BY <2>1, WrittenType
  <1>5. /\ code' \in [Slots -> CodeRows]
        /\ code'[slot].hash = IF "hash" \in DOMAIN changes THEN 0 ELSE code[slot].hash
        /\ \A other \in Slots \ {slot} : code'[other] = code[other]
    BY <1>1, <1>2, <1>3, <1>4
  <1>6. closed' \subseteq 1 .. sentCodes
    BY <1>1, <1>2, <1>3
  <1>7. CodesTypeOK'
    BY <1>2, <1>3, <1>5, <1>6 DEF CodesTypeOK, Codes
  <1>8. SessionsOK'
    <2>1. SendingOK(s)' /\ JudgingOK(s)' /\ VerifiedOK(s)'
      BY <1>1 DEF SendingOK, JudgingOK, VerifiedOK, At, Idle, TaskOK
    <2> SUFFICES ASSUME NEW t \in Sessions \ {s}
                 PROVE  SendingOK(t)' /\ JudgingOK(t)' /\ VerifiedOK(t)'
      BY <2>1 DEF SessionsOK
    <2>2. session'[t] = session[t] /\ SendingOK(t) /\ JudgingOK(t) /\ VerifiedOK(t)
      BY DEF CodesInv, SessionsOK
    <2>3. SendingOK(t)' /\ VerifiedOK(t)'
      BY <1>2, <2>2 DEF SendingOK, VerifiedOK, At
    <2>4. JudgingOK(t)'
      BY <1>1, <1>2, <1>5, <2>2 DEF JudgingOK, At
    <2> QED BY <2>3, <2>4
  <1>9. OpenCodes'
    <2>1. \A a \in Slots : code'[a].hash \in {0, code[a].hash}
      BY <1>1, <1>5
    <2>2. \A a \in Slots : code[a].hash <= sentCodes /\ code[a].hash \notin closed
      BY DEF CodesInv, OpenCodes
    <2>3. \A a \in Slots : code'[a].hash <= sentCodes' /\ code'[a].hash \notin closed'
      BY <1>1, <1>2, <1>3, <1>5, <2>1, <2>2
    <2>4. \A a, b \in Slots :
            (a # b /\ code'[a].hash # 0) => code'[a].hash # code'[b].hash
      BY <2>1 DEF CodesInv, OpenCodes
    <2> QED BY <1>2, <1>6, <2>3, <2>4 DEF OpenCodes
  <1> QED BY <1>7, <1>8, <1>9 DEF CodesInv

LEMMA CodeStepKeeps ==
  ASSUME CodesAssumption, CodesInv, NEW s \in Sessions, CodeStep(s)
  PROVE  CodesInv'
  <1> DEFINE copy == session[s].copy
  <1>1. CASE SendCode(s)
    BY <1>1, SendCodeKeeps
  <1>2. CASE SendingFails(s) \/ JudgingFails(s)
    <2>1. /\ UNCHANGED codeVars /\ session' = [t \in Sessions |-> session'[t]]
          /\ session'[s] = Idle /\ \A t \in Sessions \ {s} : session'[t] = session[t]
      BY <1>2 DEF SendingFails, JudgingFails, Leave, CodesInv
    <2> QED BY <2>1, QuietKeeps
  <1>3. At(s, "judging") => copy.attempts \in Nat
    BY DEF CodesInv, SessionsOK, JudgingOK, CodeRows
  <1>4. CASE CodeExpired(s)
    <2>1. /\ At(s, "judging") /\ Write(s, [hash |-> 0], TRUE)
          /\ session' = [t \in Sessions |-> session'[t]]
          /\ session'[s] = Idle /\ \A t \in Sessions \ {s} : session'[t] = session[t]
      BY <1>4 DEF CodeExpired, Leave, CodesInv
    <2> DEFINE changes == [hash |-> 0]
    <2>2. DOMAIN changes = {"hash"} /\ changes.hash = 0
      OBVIOUS
    <2> HIDE DEF changes
    <2>3. Write(s, changes, TRUE)
      BY <2>1 DEF changes
    <2> QED BY <2>1, <2>2, <2>3, JudgementKeeps
  <1>5. CASE WrongCode(s)
    <2> DEFINE changes == Attempt(copy)
               closes == copy.attempts + 1 >= MaxAttempts
    <2>1. /\ At(s, "judging") /\ Write(s, changes, closes)
          /\ session' = [t \in Sessions |-> session'[t]]
          /\ session'[s] = Idle /\ \A t \in Sessions \ {s} : session'[t] = session[t]
      BY <1>5 DEF WrongCode, Leave, CodesInv
    <2>2. CASE closes
      <3>1. changes = [attempts |-> copy.attempts + 1, hash |-> 0, expired |-> TRUE]
        BY <1>3, <2>1, <2>2 DEF Attempt, CodesAssumption
      <3>2. /\ DOMAIN changes = {"attempts", "hash", "expired"} /\ changes.hash = 0
            /\ changes.attempts \in Nat /\ changes.expired \in BOOLEAN
        BY <1>3, <2>1, <3>1
      <3> HIDE DEF changes
      <3>3. Write(s, changes, TRUE)
        BY <2>1, <2>2 DEF Write
      <3> QED BY <2>1, <3>2, <3>3, JudgementKeeps
    <2>3. CASE ~closes
      <3>1. changes = [attempts |-> copy.attempts + 1]
        BY <1>3, <2>1, <2>3 DEF Attempt, CodesAssumption
      <3>2. DOMAIN changes = {"attempts"} /\ changes.attempts \in Nat
        BY <1>3, <2>1, <3>1
      <3> HIDE DEF changes
      <3>3. Write(s, changes, FALSE)
        BY <2>1, <2>3 DEF Write
      <3> QED BY <2>1, <3>2, <3>3, JudgementKeeps
    <2> QED BY <2>2, <2>3
  <1>6. CASE AcceptCode(s)
    <2>1. /\ At(s, "judging") /\ Write(s, Spent, TRUE)
          /\ session' = [t \in Sessions |-> session'[t]]
          /\ session'[s] = [at |-> "verified", slot |-> session[s].slot, task |-> session[s].task]
          /\ \A t \in Sessions \ {s} : session'[t] = session[t]
      BY <1>6 DEF AcceptCode, CodesInv
    <2>2. /\ DOMAIN Spent = {"consumed", "hash", "attempts"} /\ Spent.hash = 0
          /\ Spent.attempts \in Nat /\ Spent.consumed \in BOOLEAN
      BY DEF Spent
    <2>3. /\ session'[s].at = "verified" /\ session'[s].slot = session[s].slot
          /\ session'[s].task = session[s].task
      BY <2>1
    <2> HIDE DEF copy
    <2> QED BY <2>1, <2>2, <2>3, JudgementKeeps
  <1> QED BY <1>1, <1>2, <1>4, <1>5, <1>6 DEF CodeStep

(* The clock changes no hash. *)
LEMMA TimeKeeps ==
  ASSUME CodesInv, Time
  PROVE  CodesInv'
  <1>1. PICK slot \in Slots : CooldownEnds(slot) \/ LifeEnds(slot) \/ WindowEnds(slot)
    BY DEF Time
  <1>2. /\ code' \in [Slots -> CodeRows]
        /\ \A other \in Slots : code'[other].hash = code[other].hash
        /\ UNCHANGED <<session, sentCodes, closed>>
    <2>1. code \in [Slots -> CodeRows]
      BY DEF CodesInv, CodesTypeOK
    <2>2. CASE CooldownEnds(slot)
      BY <2>1, <2>2 DEF CooldownEnds, CodeRows
    <2>3. CASE LifeEnds(slot)
      BY <2>1, <2>3 DEF LifeEnds, CodeRows
    <2>4. CASE WindowEnds(slot)
      BY <2>1, <2>4 DEF WindowEnds, CodeRows
    <2> QED BY <1>1, <2>2, <2>3, <2>4
  <1>3. SessionsOK'
    BY <1>2 DEF CodesInv, SessionsOK, SendingOK, JudgingOK, VerifiedOK, At
  <1> QED BY <1>2, <1>3 DEF CodesInv, CodesTypeOK, OpenCodes

-----------------------------------------------------------------------------
(* Accounts.                                                               *)

Books == [rows : Nat, posted : Int, open : Nat]
Purses == [balance : Int, reserved : Int]

(* The rows of the source only grow while it is merged, and as long as no  *)
(* row came, the merge has read them all.                                  *)
MergingOK(s) ==
  At(s, "merging") =>
    LET merge == session[s]
        source == merge.task.user
    IN  /\ merge.task.kind = "bind" /\ source \in Users
        /\ merge.target \in Users \ {source}
        /\ merge.targetPhone \in Phones \cup {None}
        /\ (merge.targetPhone # None /\ merge.task.phone # None)
              => merge.targetPhone = merge.task.phone
        /\ merge.moved \in Books /\ merge.sourceWallet \in Purses /\ merge.targetWallet \in Purses
        /\ user[source].exists
        /\ book[source].rows >= merge.moved.rows /\ book[source].open >= merge.moved.open
        /\ merge.moved.rows = 0 => merge.moved = NoRows
        /\ book[source].rows = merge.moved.rows => book[source] = merge.moved
        /\ \/ "money" \in overwritten
           \/ /\ merge.sourceWallet.balance = merge.moved.posted
              /\ merge.sourceWallet.reserved = merge.moved.open

OneMergeEach ==
  \A s, t \in Sessions :
    (s # t /\ At(s, "merging") /\ At(t, "merging")) => Task(s).user # Task(t).user

AccountsType ==
  /\ user \in [Users -> UserRows]
  /\ wallet \in [Users -> Purses]
  /\ book \in [Users -> Books]
  /\ adjusted \subseteq Users /\ disabling \in [Users -> Users \cup {None}]
  /\ overwritten \subseteq {"money", "phone"} /\ events \in 0 .. MaxEvents

AccountsInv ==
  /\ AccountsType
  /\ WalletMatchesLedger
  /\ \A admin \in Users : disabling[admin] # admin
  /\ \A u \in Users : book[u].rows = 0 => book[u] = NoRows
  /\ \A s \in Sessions : MergingOK(s)
  /\ OneMergeEach

(* Sessions come and go; no merge begins. *)
LEMMA SessionsKeepAccounts ==
  ASSUME AccountsInv, UNCHANGED accountVars,
         \A t \in Sessions : session'[t].at = "merging" => session'[t] = session[t]
  PROVE  AccountsInv'
  <1>1. AccountsType' /\ WalletMatchesLedger'
    BY DEF AccountsInv, AccountsType, WalletMatchesLedger, WalletsAddUp, accountVars
  <1>2. \A t \in Sessions : MergingOK(t)'
    BY DEF AccountsInv, MergingOK, At, accountVars
  <1>3. OneMergeEach'
    BY DEF AccountsInv, OneMergeEach, At, Task
  <1> QED BY <1>1, <1>2, <1>3 DEF AccountsInv, accountVars

(* Users change, but no account goes; the wallets stay. *)
LEMMA UsersKeepAccounts ==
  ASSUME AccountsInv, UNCHANGED <<wallet, book, adjusted>>,
         \A t \in Sessions : session'[t].at = "merging" => session'[t] = session[t],
         user' \in [Users -> UserRows],
         \A u \in Users : user[u].exists => user'[u].exists,
         disabling' \in [Users -> Users \cup {None}],
         \A admin \in Users : disabling'[admin] # admin,
         overwritten' \subseteq {"money", "phone"}, events' \in 0 .. MaxEvents,
         overwritten \subseteq overwritten'
  PROVE  AccountsInv'
  <1>1. AccountsType' /\ WalletMatchesLedger'
    BY DEF AccountsInv, AccountsType, WalletMatchesLedger, WalletsAddUp
  <1>2. ASSUME NEW t \in Sessions PROVE MergingOK(t)'
    <2> SUFFICES ASSUME session'[t].at = "merging" PROVE MergingOK(t)'
      BY DEF MergingOK, At
    <2>1. session'[t] = session[t] /\ MergingOK(t) /\ At(t, "merging")
      BY DEF AccountsInv, At
    <2> QED BY <2>1 DEF MergingOK, At
  <1>3. OneMergeEach'
    BY DEF AccountsInv, OneMergeEach, At, Task
  <1> QED BY <1>1, <1>2, <1>3 DEF AccountsInv

(* A posting adds a row and changes wallet and book alike; a reservation   *)
(* ends only where no merge holds it.                                      *)
LEMMA PostingKeeps ==
  ASSUME AccountsInv, NEW u \in Users, NEW purse \in Purses, NEW entry \in Books,
         UNCHANGED <<session, user, disabling, overwritten>>,
         wallet' = [wallet EXCEPT ![u] = purse],
         book' = [book EXCEPT ![u] = entry],
         adjusted' \subseteq Users, events' \in 0 .. MaxEvents,
         entry.rows = book[u].rows + 1,
         entry.open >= book[u].open \/ ~Locked(u),
         purse.balance - entry.posted = wallet[u].balance - book[u].posted,
         purse.reserved - entry.open = wallet[u].reserved - book[u].open
  PROVE  AccountsInv'
  <1>1. /\ AccountsType
        /\ wallet'[u] = purse /\ book'[u] = entry
        /\ \A v \in Users \ {u} : wallet'[v] = wallet[v] /\ book'[v] = book[v]
    BY DEF AccountsInv, AccountsType
  <1>2. AccountsType'
    BY <1>1 DEF AccountsInv, AccountsType
  <1>3. WalletMatchesLedger'
    <2>1. CASE "money" \in overwritten
      BY <2>1 DEF WalletMatchesLedger
    <2>2. CASE WalletsAddUp
      <3>1. \A v \in Users \ {u} : /\ wallet'[v].balance = book'[v].posted
                                  /\ wallet'[v].reserved = book'[v].open
        BY <1>1, <2>2 DEF WalletsAddUp
      <3>2. /\ purse.balance \in Int /\ purse.reserved \in Int
            /\ entry.posted \in Int /\ entry.open \in Int
            /\ wallet[u].balance = book[u].posted /\ wallet[u].balance \in Int
            /\ wallet[u].reserved = book[u].open /\ wallet[u].reserved \in Int
        BY <1>1, <2>2 DEF WalletsAddUp, AccountsType, Books, Purses
      <3>3. purse.balance = entry.posted /\ purse.reserved = entry.open
        BY <3>2
      <3>4. WalletsAddUp'
        BY <1>1, <3>1, <3>3 DEF WalletsAddUp
      <3> QED BY <3>4 DEF WalletMatchesLedger
    <2> QED BY <2>1, <2>2 DEF AccountsInv, WalletMatchesLedger
  <1>4. \A v \in Users : book'[v].rows = 0 => book'[v] = NoRows
    BY <1>1 DEF AccountsInv, AccountsType, Books
  <1>5. ASSUME NEW t \in Sessions PROVE MergingOK(t)'
    <2> SUFFICES ASSUME At(t, "merging") PROVE MergingOK(t)'
      BY DEF MergingOK, At
    <2> DEFINE source == session[t].task.user
    <2>1. MergingOK(t)
      BY DEF AccountsInv
    <2>2. CASE source # u
      BY <1>1, <2>1, <2>2 DEF MergingOK, At
    <2>3. CASE source = u
      <3>1. Locked(u)
        BY <2>3 DEF Locked, Task
      <3>2. entry.rows >= session[t].moved.rows + 1 /\ entry.open >= session[t].moved.open
        BY <1>1, <2>1, <2>3, <3>1 DEF MergingOK, AccountsType, Books
      <3> QED BY <1>1, <2>1, <2>3, <3>2 DEF MergingOK, At, Books
    <2> QED BY <2>2, <2>3
  <1>6. OneMergeEach'
    BY DEF AccountsInv, OneMergeEach, At, Task
  <1> QED BY <1>2, <1>3, <1>4, <1>5, <1>6 DEF AccountsInv

(* Columns of their types make a row of its type. *)
LEMMA BooksType ==
  ASSUME NEW row \in Books, NEW rows \in Nat, NEW posted \in Int, NEW open \in Nat
  PROVE  /\ [row EXCEPT !.rows = rows, !.posted = posted] \in Books
         /\ [row EXCEPT !.rows = rows, !.open = open] \in Books
         /\ [row EXCEPT !.rows = rows, !.posted = posted, !.open = open] \in Books
  BY DEF Books

LEMMA PursesType ==
  ASSUME NEW row \in Purses, NEW balance \in Int, NEW reserved \in Int
  PROVE  [row EXCEPT !.reserved = reserved, !.balance = balance] \in Purses
  BY DEF Purses

LEMMA AdjustKeeps ==
  ASSUME AccountsInv, NEW admin \in Users, NEW u \in Users, Adjust(admin, u)
  PROVE  AccountsInv'
  <1> DEFINE purse == [wallet[u] EXCEPT !.balance = @ + 1]
             entry == [book[u] EXCEPT !.rows = @ + 1, !.posted = @ + 1]
  <1>1. wallet[u] \in Purses /\ book[u] \in Books /\ adjusted \subseteq Users /\ events \in 0 .. MaxEvents
    BY DEF AccountsInv, AccountsType
  <1>2. /\ purse \in Purses /\ entry \in Books /\ entry.rows = book[u].rows + 1
        /\ entry.open >= book[u].open
        /\ purse.balance - entry.posted = wallet[u].balance - book[u].posted
        /\ purse.reserved - entry.open = wallet[u].reserved - book[u].open
    <2>1. purse.balance = wallet[u].balance + 1 /\ purse.reserved = wallet[u].reserved /\ purse \in Purses
      BY <1>1 DEF Purses
    <2>2. entry.rows = book[u].rows + 1 /\ entry.posted = book[u].posted + 1 /\ entry.open = book[u].open
      BY <1>1 DEF Books
    <2>3. /\ wallet[u].balance \in Int /\ wallet[u].reserved \in Int
          /\ book[u].rows \in Nat /\ book[u].posted \in Int /\ book[u].open \in Nat
      BY <1>1 DEF Purses, Books
    <2>4. entry \in Books
      <3>1. book[u].rows + 1 \in Nat /\ book[u].posted + 1 \in Int /\ book[u].open + 1 \in Nat
        BY <2>3
      <3> QED BY ONLY <1>1, <3>1, BooksType, ZenonT(30)
    <2> HIDE DEF purse, entry
    <2> QED BY <2>1, <2>2, <2>3, <2>4
  <1>3. /\ wallet' = [wallet EXCEPT ![u] = purse] /\ book' = [book EXCEPT ![u] = entry]
        /\ adjusted' \subseteq Users
        /\ UNCHANGED <<session, user, disabling, overwritten>>
    BY <1>1 DEF Adjust, codesVars
  <1>4. events' \in 0 .. MaxEvents
    BY <1>1, AccountsAssumption DEF Adjust, Event
  <1> HIDE DEF purse, entry
  <1> QED BY <1>2, <1>3, <1>4, PostingKeeps

LEMMA ReserveKeeps ==
  ASSUME AccountsInv, NEW u \in Users, Reserve(u)
  PROVE  AccountsInv'
  <1> DEFINE purse == [wallet[u] EXCEPT !.reserved = @ + 1]
             entry == [book[u] EXCEPT !.rows = @ + 1, !.open = @ + 1]
  <1>1. wallet[u] \in Purses /\ book[u] \in Books /\ adjusted \subseteq Users /\ events \in 0 .. MaxEvents
    BY DEF AccountsInv, AccountsType
  <1>2. /\ purse \in Purses /\ entry \in Books /\ entry.rows = book[u].rows + 1
        /\ entry.open >= book[u].open
        /\ purse.balance - entry.posted = wallet[u].balance - book[u].posted
        /\ purse.reserved - entry.open = wallet[u].reserved - book[u].open
    <2>1. purse.balance = wallet[u].balance /\ purse.reserved = wallet[u].reserved + 1 /\ purse \in Purses
      BY <1>1 DEF Purses
    <2>2. entry.rows = book[u].rows + 1 /\ entry.posted = book[u].posted /\ entry.open = book[u].open + 1
      BY <1>1 DEF Books
    <2>3. /\ wallet[u].balance \in Int /\ wallet[u].reserved \in Int
          /\ book[u].rows \in Nat /\ book[u].posted \in Int /\ book[u].open \in Nat
      BY <1>1 DEF Purses, Books
    <2>4. entry \in Books
      <3>1. book[u].rows + 1 \in Nat /\ book[u].posted + 1 \in Int /\ book[u].open + 1 \in Nat
        BY <2>3
      <3> QED BY ONLY <1>1, <3>1, BooksType, ZenonT(30)
    <2> HIDE DEF purse, entry
    <2> QED BY <2>1, <2>2, <2>3, <2>4
  <1>3. /\ wallet' = [wallet EXCEPT ![u] = purse] /\ book' = [book EXCEPT ![u] = entry]
        /\ adjusted' \subseteq Users
        /\ UNCHANGED <<session, user, disabling, overwritten>>
    BY <1>1 DEF Reserve, codesVars
  <1>4. events' \in 0 .. MaxEvents
    BY <1>1, AccountsAssumption DEF Reserve, Event
  <1> HIDE DEF purse, entry
  <1> QED BY <1>2, <1>3, <1>4, PostingKeeps

LEMMA SettleKeeps ==
  ASSUME AccountsInv, NEW u \in Users, Settle(u)
  PROVE  AccountsInv'
  <1> DEFINE purse == [wallet[u] EXCEPT !.reserved = @ - 1, !.balance = @ - 1]
             entry == [book[u] EXCEPT !.rows = @ + 1, !.posted = @ - 1, !.open = @ - 1]
  <1>1. wallet[u] \in Purses /\ book[u] \in Books /\ adjusted \subseteq Users /\ events \in 0 .. MaxEvents
    BY DEF AccountsInv, AccountsType
  <1>2. book[u].open > 0 /\ ~Locked(u)
    BY DEF Settle
  <1>3. /\ purse \in Purses /\ entry \in Books /\ entry.rows = book[u].rows + 1
        /\ purse.balance - entry.posted = wallet[u].balance - book[u].posted
        /\ purse.reserved - entry.open = wallet[u].reserved - book[u].open
    <2>1. purse.balance = wallet[u].balance - 1 /\ purse.reserved = wallet[u].reserved - 1
      BY <1>1 DEF Purses
    <2>2. entry.rows = book[u].rows + 1 /\ entry.posted = book[u].posted - 1 /\ entry.open = book[u].open - 1
      BY <1>1 DEF Books
    <2>3. /\ wallet[u].balance \in Int /\ wallet[u].reserved \in Int
          /\ book[u].rows \in Nat /\ book[u].posted \in Int /\ book[u].open \in Nat
      BY <1>1 DEF Purses, Books
    <2>4. entry \in Books
      <3>1. book[u].rows + 1 \in Nat /\ book[u].posted - 1 \in Int /\ book[u].open - 1 \in Nat
        BY <1>2, <2>3
      <3> QED BY ONLY <1>1, <3>1, BooksType, ZenonT(30)
    <2>5. purse \in Purses
      <3>1. wallet[u].balance - 1 \in Int /\ wallet[u].reserved - 1 \in Int
        BY <2>3
      <3> QED BY ONLY <1>1, <3>1, PursesType, ZenonT(30)
    <2> HIDE DEF purse, entry
    <2> QED BY <1>2, <2>1, <2>2, <2>3, <2>4, <2>5
  <1>4. /\ wallet' = [wallet EXCEPT ![u] = purse] /\ book' = [book EXCEPT ![u] = entry]
        /\ adjusted' \subseteq Users
        /\ UNCHANGED <<session, user, disabling, overwritten>>
    BY <1>1 DEF Settle, codesVars
  <1>5. events' \in 0 .. MaxEvents
    BY <1>1, AccountsAssumption DEF Settle, Event
  <1> HIDE DEF purse, entry
  <1> QED BY <1>2, <1>3, <1>4, <1>5, PostingKeeps

(* An account that did not exist is nobody's source. *)
LEMMA NewUserKeeps ==
  ASSUME AccountsInv, NEW u \in Users, NEW phone \in Phones, NEW email \in Emails \cup {None},
         NewUser(u, phone, email), events' \in 0 .. MaxEvents,
         \A t \in Sessions : session'[t].at = "merging" => session'[t] = session[t]
  PROVE  AccountsInv'
  <1> DEFINE row == [exists |-> TRUE, phone |-> phone, email |-> email, verified |-> FALSE,
                     role |-> "user", active |-> TRUE]
  <1>1. /\ AccountsType /\ ~user[u].exists
        /\ user' = [user EXCEPT ![u] = row] /\ row \in UserRows
        /\ wallet'[u] = Empty /\ book'[u] = NoRows
        /\ wallet' \in [Users -> Purses] /\ book' \in [Users -> Books]
        /\ \A v \in Users \ {u} : wallet'[v] = wallet[v] /\ book'[v] = book[v] /\ user'[v] = user[v]
        /\ UNCHANGED <<adjusted, disabling, overwritten>>
    BY DEF NewUser, NoAccount, AccountsInv, AccountsType, UserRows, Empty, NoRows, Purses, Books
  <1>2. AccountsType'
    BY <1>1 DEF AccountsType
  <1>3. WalletMatchesLedger'
    BY <1>1 DEF AccountsInv, WalletMatchesLedger, WalletsAddUp, Empty, NoRows
  <1>4. ASSUME NEW t \in Sessions PROVE MergingOK(t)'
    <2> SUFFICES ASSUME session'[t].at = "merging" PROVE MergingOK(t)'
      BY DEF MergingOK, At
    <2>1. session'[t] = session[t] /\ MergingOK(t) /\ At(t, "merging")
      BY DEF AccountsInv, At
    <2>2. session[t].task.user \in Users \ {u}
      BY <1>1, <2>1 DEF MergingOK
    <2> QED BY <1>1, <2>1, <2>2 DEF MergingOK, At
  <1>5. OneMergeEach'
    BY DEF AccountsInv, OneMergeEach, At, Task
  <1> QED BY <1>1, <1>2, <1>3, <1>4, <1>5 DEF AccountsInv

LEMMA BindEmailKeeps ==
  ASSUME CodesInv, AccountsInv, NEW s \in Sessions, BindEmail(s)
  PROVE  AccountsInv'
  <1> DEFINE u == Task(s).user
             email == session[s].slot.target
  <1>1. u \in Users /\ email \in Emails
    BY AccountsAssumption DEF BindEmail, CodesInv, SessionsOK, VerifiedOK, TaskOK, At, Task
  <1>2. /\ \/ user' = [user EXCEPT ![u].email = email, ![u].verified = TRUE]
           \/ user' = [user EXCEPT ![u].email = user[u].email, ![u].verified = TRUE]
        /\ user \in [Users -> UserRows]
        /\ UNCHANGED <<wallet, book, adjusted, disabling, events, overwritten>>
    BY DEF BindEmail, AccountsInv, AccountsType, walletVars
  <1>3. /\ user' \in [Users -> UserRows]
        /\ \A v \in Users : user'[v].exists = user[v].exists
    BY <1>1, <1>2 DEF UserRows
  <1>4. \A t \in Sessions : session'[t].at = "merging" => session'[t] = session[t]
    BY DEF BindEmail, Leave, Idle, CodesInv
  <1> QED BY <1>2, <1>3, <1>4, UsersKeepAccounts DEF AccountsInv, AccountsType

-----------------------------------------------------------------------------
(* Administrators.                                                         *)

LEMMA EnableKeeps ==
  ASSUME AccountsInv, NEW admin \in Users, NEW u \in Users, Enable(admin, u)
  PROVE  AccountsInv'
  <1>1. /\ user' = [user EXCEPT ![u].active = TRUE]
        /\ user \in [Users -> UserRows]
        /\ UNCHANGED <<session, wallet, book, adjusted, disabling, overwritten>>
    BY DEF Enable, AccountsInv, AccountsType, walletVars, codesVars
  <1>2. /\ user' \in [Users -> UserRows]
        /\ \A v \in Users : user'[v].exists = user[v].exists
    BY <1>1 DEF UserRows
  <1>3. events' \in 0 .. MaxEvents
    BY AccountsAssumption DEF Enable, Event, AccountsInv, AccountsType
  <1> QED BY <1>1, <1>2, <1>3, UsersKeepAccounts DEF AccountsInv, AccountsType

(* Nobody disables himself. *)
LEMMA BeginDisableKeeps ==
  ASSUME AccountsInv, NEW admin \in Users, NEW u \in Users, BeginDisable(admin, u)
  PROVE  AccountsInv'
  <1>1. /\ disabling' = [disabling EXCEPT ![admin] = u] /\ u # admin
        /\ UNCHANGED <<session, user, wallet, book, adjusted, overwritten>>
    BY DEF BeginDisable, MayDisable, walletVars, codesVars
  <1>2. /\ disabling' \in [Users -> Users \cup {None}]
        /\ \A v \in Users : disabling'[v] # v
    BY <1>1 DEF AccountsInv, AccountsType
  <1>3. events' \in 0 .. MaxEvents
    BY AccountsAssumption DEF BeginDisable, Event, AccountsInv, AccountsType
  <1> QED BY <1>1, <1>2, <1>3, UsersKeepAccounts DEF AccountsInv, AccountsType

LEMMA CommitDisableKeeps ==
  ASSUME AccountsInv, NEW admin \in Users, CommitDisable(admin)
  PROVE  AccountsInv'
  <1> DEFINE u == disabling[admin]
  <1>1. /\ u \in Users /\ u # admin
        /\ user' = [user EXCEPT ![u].active = FALSE]
        /\ user \in [Users -> UserRows]
        /\ disabling' = [disabling EXCEPT ![admin] = None]
        /\ UNCHANGED <<session, wallet, book, adjusted, events, overwritten>>
    BY DEF CommitDisable, AccountsInv, AccountsType, walletVars, codesVars
  <1>2. /\ user' \in [Users -> UserRows]
        /\ \A v \in Users \ {u} : user'[v] = user[v]
        /\ user'[u].exists = user[u].exists
    BY <1>1, ZenonT(30) DEF UserRows
  <1>3. /\ disabling' \in [Users -> Users \cup {None}]
        /\ \A v \in Users : disabling'[v] # v
    BY <1>1, AccountsAssumption DEF AccountsInv, AccountsType
  <1> QED BY <1>1, <1>2, <1>3, UsersKeepAccounts DEF AccountsInv, AccountsType

-----------------------------------------------------------------------------
(* The merge.                                                              *)

LEMMA BeginMergeKeeps ==
  ASSUME CodesInv, AccountsInv, NEW s \in Sessions, BeginMerge(s)
  PROVE  CodesInv' /\ AccountsInv'
  <1> DEFINE source == Task(s).user
  <1>1. PICK target \in Users \ {source} :
          /\ (user[target].phone # None /\ Task(s).phone # None) => user[target].phone = Task(s).phone
          /\ session' = [session EXCEPT ![s] =
               [at |-> "merging", slot |-> @.slot, task |-> @.task, target |-> target,
                moved |-> book[source], sourceWallet |-> wallet[source],
                targetWallet |-> wallet[target], targetPhone |-> user[target].phone]]
    BY DEF BeginMerge, WithEmail
  <1> DEFINE merge == [at |-> "merging", slot |-> session[s].slot, task |-> session[s].task,
                       target |-> target, moved |-> book[source],
                       sourceWallet |-> wallet[source], targetWallet |-> wallet[target],
                       targetPhone |-> user[target].phone]
  <1>2. /\ session'[s] = merge
        /\ session' = [t \in Sessions |-> session'[t]]
        /\ \A t \in Sessions \ {s} : session'[t] = session[t]
    BY <1>1 DEF CodesInv
  <1>3. /\ At(s, "verified") /\ Task(s).kind = "bind" /\ user[source].exists
        /\ \A other \in Sessions : At(other, "merging") => Task(other).user # source
        /\ UNCHANGED <<codeVars, accountVars>>
    BY DEF BeginMerge
  <1>4. source \in Users /\ Task(s).phone \in Phones \cup {None}
    BY <1>3 DEF CodesInv, SessionsOK, VerifiedOK, TaskOK, Task
  <1>5. CodesInv'
    <2>1. /\ session'[s].at = "merging" /\ session'[s].slot = session[s].slot
          /\ session'[s].task = session[s].task
      BY <1>2
    <2> QED BY <1>2, <1>3, <2>1, QuietKeeps
  <1>6. AccountsType' /\ WalletMatchesLedger'
    BY <1>3 DEF AccountsInv, AccountsType, WalletMatchesLedger, WalletsAddUp, accountVars
  <1>7. MergingOK(s)'
    <2>1. /\ book[source] \in Books /\ wallet[source] \in Purses /\ wallet[target] \in Purses
          /\ user[target].phone \in Phones \cup {None}
          /\ book[source].rows = 0 => book[source] = NoRows
          /\ \/ "money" \in overwritten
             \/ /\ wallet[source].balance = book[source].posted
                /\ wallet[source].reserved = book[source].open
      BY <1>1, <1>4 DEF AccountsInv, AccountsType, UserRows, WalletMatchesLedger, WalletsAddUp
    <2>2. /\ book' = book /\ user' = user /\ overwritten' = overwritten
      BY <1>3 DEF accountVars
    <2>3. /\ session'[s].task = Task(s) /\ session'[s].target = target
          /\ session'[s].moved = book[source] /\ session'[s].sourceWallet = wallet[source]
          /\ session'[s].targetWallet = wallet[target]
          /\ session'[s].targetPhone = user[target].phone
      BY <1>2 DEF Task
    <2> HIDE DEF merge
    <2> QED BY <1>1, <1>3, <1>4, <2>1, <2>2, <2>3 DEF MergingOK, Books
  <1>8. \A t \in Sessions \ {s} : MergingOK(t)'
    BY <1>2, <1>3 DEF AccountsInv, MergingOK, At, accountVars
  <1>9. OneMergeEach'
    BY <1>2, <1>3 DEF AccountsInv, OneMergeEach, At, Task
  <1> QED BY <1>3, <1>5, <1>6, <1>7, <1>8, <1>9 DEF AccountsInv, accountVars

(* What a merge leaves: codes are deleted with their hashes closed, ...    *)
LEMMA CommitMergeKeepsCodes ==
  ASSUME CodesAssumption, CodesInv, NEW s \in Sessions, CommitMerge(s)
  PROVE  CodesInv'
  <1>1. PICK gone \in SUBSET Slots :
          /\ code' = [slot \in Slots |-> IF slot \in gone THEN NoRow ELSE code[slot]]
          /\ closed' = closed \cup ({code[slot].hash : slot \in gone} \ {0})
    BY DEF CommitMerge
  <1>2. /\ sentCodes' = sentCodes /\ session' = [t \in Sessions |-> session'[t]]
        /\ session'[s] = Idle /\ \A t \in Sessions \ {s} : session'[t] = session[t]
    BY DEF CommitMerge, Leave, CodesInv
  <1>3. /\ NoRow \in CodeRows /\ NoRow.hash = 0 /\ code \in [Slots -> CodeRows]
        /\ sentCodes \in 0 .. MaxCodes
    BY DEF NoRow, CodeRows, CodesAssumption, CodesInv, CodesTypeOK
  <1>4. /\ code' \in [Slots -> CodeRows]
        /\ \A slot \in gone : code'[slot].hash = 0
        /\ \A slot \in Slots \ gone : code'[slot] = code[slot]
    BY <1>1, <1>3
  <1>5. \A slot \in Slots : code[slot].hash \in 0 .. sentCodes
    BY <1>3 DEF CodesInv, OpenCodes, CodeRows
  <1>6. closed' \subseteq 1 .. sentCodes
    BY <1>1, <1>3, <1>5 DEF CodesInv, OpenCodes
  <1>7. CodesTypeOK'
    BY <1>2, <1>3, <1>4, <1>6 DEF CodesTypeOK, Codes
  <1>8. SessionsOK'
    <2>1. SendingOK(s)' /\ JudgingOK(s)' /\ VerifiedOK(s)'
      BY <1>2 DEF SendingOK, JudgingOK, VerifiedOK, At, Idle
    <2> SUFFICES ASSUME NEW t \in Sessions \ {s}
                 PROVE  SendingOK(t)' /\ JudgingOK(t)' /\ VerifiedOK(t)'
      BY <2>1 DEF SessionsOK
    <2>2. session'[t] = session[t] /\ SendingOK(t) /\ JudgingOK(t) /\ VerifiedOK(t)
      BY <1>2 DEF CodesInv, SessionsOK
    <2>3. SendingOK(t)' /\ VerifiedOK(t)'
      BY <1>2, <2>2 DEF SendingOK, VerifiedOK, At
    <2>4. JudgingOK(t)'
      BY <1>2, <1>4, <2>2 DEF JudgingOK, At
    <2> QED BY <2>3, <2>4
  <1>9. OpenCodes'
    <2>1. \A slot \in Slots : code'[slot].hash <= sentCodes' /\ code'[slot].hash \notin closed'
      <3> SUFFICES ASSUME NEW slot \in Slots
                   PROVE  code'[slot].hash <= sentCodes' /\ code'[slot].hash \notin closed'
        OBVIOUS
      <3>1. CASE slot \in gone
        BY <1>2, <1>3, <1>4, <1>6, <3>1
      <3>2. CASE slot \notin gone
        <4>1. code[slot].hash <= sentCodes /\ code[slot].hash \notin closed
          BY DEF CodesInv, OpenCodes
        <4>2. \A other \in gone : code[other].hash # 0 => code[other].hash # code[slot].hash
          BY <3>2 DEF CodesInv, OpenCodes
        <4> QED BY <1>1, <1>2, <1>4, <3>2, <4>1, <4>2
      <3> QED BY <3>1, <3>2
    <2>2. \A slot, other \in Slots :
            (slot # other /\ code'[slot].hash # 0) => code'[slot].hash # code'[other].hash
      BY <1>4 DEF CodesInv, OpenCodes
    <2> QED BY <1>2, <1>6, <2>1, <2>2 DEF OpenCodes
  <1> QED BY <1>2, <1>7, <1>8, <1>9 DEF CodesInv

(* ... the rows and the sums go over to the target, unless they were read  *)
(* before a posting to it, and another merge of the target sees new rows.  *)
LEMMA CommitMergeKeepsAccounts ==
  ASSUME CodesInv, AccountsInv, NEW s \in Sessions, CommitMerge(s)
  PROVE  AccountsInv'
  <1> DEFINE source == Task(s).user
             target == session[s].target
             moved == session[s].moved
             phone == PhoneKept(s, user[target].phone)
             entry == [rows |-> book[target].rows + moved.rows,
                       posted |-> book[target].posted + moved.posted,
                       open |-> book[target].open + moved.open]
  <1>1. /\ At(s, "merging") /\ NoRowLeft(s) /\ MergingOK(s)
        /\ source \in Users /\ target \in Users /\ target # source
        /\ moved \in Books /\ book[source] = moved
        /\ moved.rows = 0 => moved = NoRows
        /\ user[target].exists /\ AccountsType
    BY DEF CommitMerge, AccountsInv, MergingOK, NoRowLeft, Task
  <1>2. /\ user' = [user EXCEPT ![source] = Gone, ![target].phone = phone,
                              ![target].verified = TRUE]
        /\ wallet' = [wallet EXCEPT ![source] = Empty, ![target] = Merged(s)]
        /\ overwritten' = overwritten \cup Unseen(s)
        /\ UNCHANGED <<adjusted, disabling, events>>
    BY DEF CommitMerge
  <1>3. /\ session'[s] = Idle /\ \A t \in Sessions \ {s} : session'[t] = session[t]
    BY DEF CommitMerge, Leave, CodesInv
  <1>4. /\ book'[source] = NoRows /\ book'[target] = entry /\ entry \in Books
        /\ \A u \in Users \ {source, target} : book'[u] = book[u]
        /\ book' \in [Users -> Books]
    <2>1. /\ book' = [book EXCEPT ![source] = [rows |-> book[source].rows - moved.rows,
                                              posted |-> book[source].posted - moved.posted,
                                              open |-> book[source].open - moved.open],
                                  ![target] = entry]
      BY <1>1 DEF CommitMerge, AccountsType
    <2>2. [rows |-> book[source].rows - moved.rows, posted |-> book[source].posted - moved.posted,
           open |-> book[source].open - moved.open] = NoRows
      BY <1>1 DEF NoRows, Books
    <2>3. book' = [book EXCEPT ![source] = NoRows, ![target] = entry]
      BY <2>1, <2>2
    <2>4. entry \in Books /\ NoRows \in Books
      BY <1>1 DEF AccountsType, Books, NoRows
    <2> HIDE DEF entry
    <2> QED BY <1>1, <2>3, <2>4 DEF AccountsType
  <1>5. /\ Merged(s) \in Purses
        /\ wallet'[source] = Empty /\ wallet'[target] = Merged(s)
        /\ \A u \in Users \ {source, target} : wallet'[u] = wallet[u]
        /\ wallet' \in [Users -> Purses]
    <2>1. /\ session[s].sourceWallet \in Purses /\ session[s].targetWallet \in Purses
          /\ wallet[target] \in Purses
      BY <1>1 DEF MergingOK, AccountsType
    <2>2. Merged(s) \in Purses
      BY <2>1 DEF Merged, Purses
    <2>3. Empty \in Purses
      BY DEF Empty, Purses
    <2> QED BY <1>1, <1>2, <2>2, <2>3 DEF AccountsType
  <1>6. /\ user' \in [Users -> UserRows]
        /\ \A u \in Users \ {source, target} : user'[u] = user[u]
        /\ user'[target].exists = user[target].exists
    <2>1. phone \in Phones \cup {None}
      BY <1>1 DEF PhoneKept, MergingOK, AccountsType, UserRows, CodesInv, SessionsOK, VerifiedOK,
         TaskOK, Task
    <2>2. Gone \in UserRows
      BY DEF Gone, NoAccount, UserRows
    <2> HIDE DEF phone
    <2> DEFINE row == [user[target] EXCEPT !.phone = phone, !.verified = TRUE]
    <2>3. user[target] \in UserRows
      BY <1>1 DEF AccountsType
    <2>4. row.exists = user[target].exists
      BY <2>3 DEF UserRows
    <2>5. row \in UserRows
      BY <2>1, <2>3 DEF UserRows
    <2>6. user' = [user EXCEPT ![source] = Gone, ![target] = row]
      BY <1>1, <1>2 DEF AccountsType
    <2> HIDE DEF row
    <2> QED BY <1>1, <2>2, <2>4, <2>5, <2>6 DEF AccountsType
  <1>7. AccountsType'
    <2>1. Unseen(s) \subseteq {"money", "phone"}
      BY DEF Unseen
    <2> QED BY <1>1, <1>2, <1>4, <1>5, <1>6, <2>1 DEF AccountsType
  <1>8. WalletMatchesLedger'
    <2>1. CASE "money" \in overwritten'
      BY <2>1 DEF WalletMatchesLedger
    <2>2. CASE "money" \notin overwritten'
      <3>1. wallet[target] = session[s].targetWallet /\ "money" \notin overwritten
        BY <1>2, <2>2 DEF Unseen
      <3>2. WalletsAddUp
        BY <3>1 DEF AccountsInv, WalletMatchesLedger
      <3>3. /\ session[s].sourceWallet.balance = moved.posted
            /\ session[s].sourceWallet.reserved = moved.open
            /\ wallet[target].balance = book[target].posted
            /\ wallet[target].reserved = book[target].open
            /\ moved.posted \in Int /\ moved.open \in Int
            /\ book[target].posted \in Int /\ book[target].open \in Int
        BY <1>1, <3>1, <3>2 DEF MergingOK, WalletsAddUp, AccountsType, Books
      <3>4. Merged(s).balance = entry.posted /\ Merged(s).reserved = entry.open
        BY <3>1, <3>3 DEF Merged
      <3>5. Empty.balance = NoRows.posted /\ Empty.reserved = NoRows.open
        BY DEF Empty, NoRows
      <3> QED BY <1>1, <1>4, <1>5, <3>2, <3>4, <3>5 DEF WalletMatchesLedger, WalletsAddUp
    <2> QED BY <2>1, <2>2
  <1>9. \A u \in Users : book'[u].rows = 0 => book'[u] = NoRows
    <2>1. entry.rows = 0 => entry = NoRows
      <3> SUFFICES ASSUME entry.rows = 0 PROVE entry = NoRows
        OBVIOUS
      <3>1. moved.rows = 0 /\ book[target].rows = 0
        BY <1>1 DEF AccountsType, Books
      <3>2. moved = NoRows /\ book[target] = NoRows
        BY <1>1, <3>1 DEF AccountsInv
      <3> QED BY <3>2 DEF NoRows
    <2> HIDE DEF entry
    <2> QED BY <1>4, <2>1 DEF AccountsInv
  <1>10. ASSUME NEW t \in Sessions PROVE MergingOK(t)'
    <2> SUFFICES ASSUME session'[t].at = "merging" PROVE MergingOK(t)'
      BY DEF MergingOK, At
    <2> DEFINE other == Task(t).user
               had == session[t].moved
    <2>1. t # s /\ session'[t] = session[t] /\ At(t, "merging")
      BY <1>3 DEF Idle, At
    <2>2. MergingOK(t) /\ other \in Users \ {source} /\ user[other].exists
      BY <1>1, <2>1 DEF AccountsInv, MergingOK, OneMergeEach, Task
    <2>3. /\ had \in Books /\ book[other].rows >= had.rows /\ book[other].open >= had.open
          /\ book[other].rows = had.rows => book[other] = had
      BY <2>1, <2>2 DEF MergingOK, Task
    <2>4. /\ book'[other].rows >= had.rows /\ book'[other].open >= had.open
          /\ book'[other].rows = had.rows => book'[other] = had
      <3>1. CASE other # target
        BY <1>4, <2>2, <2>3, <3>1
      <3>2. CASE other = target
        <4>1. entry.rows >= book[target].rows /\ entry.open >= book[target].open
          BY <1>1 DEF AccountsType, Books
        <4>2. entry.rows = had.rows => (moved.rows = 0 /\ book[target].rows = had.rows)
          BY <1>1, <2>3, <3>2 DEF AccountsType, Books
        <4>3. moved.rows = 0 => entry = book[target]
          BY <1>1 DEF NoRows, AccountsType, Books
        <4> HIDE DEF entry
        <4>4. /\ entry.rows \in Nat /\ entry.open \in Nat
              /\ book[target].rows \in Nat /\ book[target].open \in Nat
              /\ had.rows \in Nat /\ had.open \in Nat
          BY <1>1, <1>4, <2>3 DEF AccountsType, Books
        <4> QED BY <1>4, <2>3, <3>2, <4>1, <4>2, <4>3, <4>4
      <3> QED BY <3>1, <3>2
    <2>5. user'[other].exists
      BY <1>6, <2>2
    <2>6. overwritten \subseteq overwritten'
      BY <1>2
    <2> QED BY <2>1, <2>2, <2>4, <2>5, <2>6 DEF MergingOK, At, Task
  <1>11. OneMergeEach'
    BY <1>3 DEF AccountsInv, OneMergeEach, At, Task, Idle
  <1> QED BY <1>2, <1>7, <1>8, <1>9, <1>10, <1>11 DEF AccountsInv

-----------------------------------------------------------------------------
(* The invariant.                                                          *)

LEMMA Initially ==
  ASSUME Init
  PROVE  CodesInv /\ AccountsInv
  <1>1. CodesInv
    <2>1. NoRow \in CodeRows /\ NoRow.hash = 0
      BY CodesAssumption DEF NoRow, CodeRows
    <2>2. CodesTypeOK /\ OpenCodes
      BY <2>1, CodesAssumption DEF Init, CodesInit, CodesTypeOK, OpenCodes
    <2>3. \A s \in Sessions : session[s] = Idle
      BY DEF Init, CodesInit
    <2>4. SessionsOK
      BY <2>3 DEF SessionsOK, SendingOK, JudgingOK, VerifiedOK, At, Idle
    <2> QED BY <2>2, <2>4 DEF CodesInv, Init, CodesInit
  <1>2. AccountsType
    <2>1. /\ Empty \in Purses /\ [Empty EXCEPT !.balance = 1] \in Purses
          /\ NoRows \in Books /\ [rows |-> 1, posted |-> 1, open |-> 0] \in Books
      BY DEF Empty, Purses, NoRows, Books
    <2> QED BY <2>1, AccountsAssumption DEF Init, AccountsType
  <1>3. WalletsAddUp
    BY DEF Init, WalletsAddUp, Empty, NoRows
  <1>4. \A u \in Users : disabling[u] # u /\ (book[u].rows = 0 => book[u] = NoRows)
    BY AccountsAssumption DEF Init, NoRows
  <1>5. \A s \in Sessions : ~At(s, "merging")
    BY DEF Init, CodesInit, At, Idle
  <1> QED BY <1>1, <1>2, <1>3, <1>4, <1>5 DEF AccountsInv, WalletMatchesLedger, MergingOK, OneMergeEach

LEMMA LoadingKeeps ==
  ASSUME CodesInv, AccountsInv, NEW s \in Sessions, NEW slot \in Slots, NEW u \in Users,
         NEW right \in BOOLEAN,
         \/ AskLoginCode(s, slot) \/ AskBindCode(s, u, slot)
         \/ TryLogin(s, slot, right) \/ TryBind(s, u, slot, right)
  PROVE  CodesInv' /\ AccountsInv'
  <1>1. CASE AskLoginCode(s, slot) \/ AskBindCode(s, u, slot)
    <2>1. LoadToSend(s, slot) /\ UNCHANGED accountVars
      BY <1>1 DEF AskLoginCode, AskBindCode
    <2>2. \A t \in Sessions : session'[t].at = "merging" => session'[t] = session[t]
      BY <2>1 DEF LoadToSend, CodesInv
    <2> QED BY <2>1, <2>2, LoadToSendKeeps, SessionsKeepAccounts, CodesAssumption
  <1>2. ASSUME NEW task, LoadToJudge(s, slot, right, task), TaskOK(task, slot),
               UNCHANGED accountVars
        PROVE  CodesInv' /\ AccountsInv'
    <2>1. \A t \in Sessions : session'[t].at = "merging" => session'[t] = session[t]
      BY <1>2 DEF LoadToJudge, CodesInv
    <2> QED BY <1>2, <2>1, LoadToJudgeKeeps, SessionsKeepAccounts, CodesAssumption
  <1>3. CASE TryLogin(s, slot, right)
    <2>1. TaskOK([kind |-> "login"], slot)
      BY DEF TaskOK
    <2> QED BY <1>2, <1>3, <2>1 DEF TryLogin
  <1>4. CASE TryBind(s, u, slot, right)
    <2>1. user[u].phone \in Phones \cup {None}
      BY DEF AccountsInv, AccountsType, UserRows
    <2>2. TaskOK([kind |-> "bind", user |-> u, phone |-> user[u].phone, email |-> user[u].email], slot)
      BY <1>4, <2>1 DEF TaskOK, TryBind
    <2> QED BY <1>2, <1>4, <2>2 DEF TryBind
  <1> QED BY <1>1, <1>3, <1>4

LEMMA TaskKeeps ==
  ASSUME CodesInv, AccountsInv, NEW s \in Sessions, FinishLogin(s) \/ TaskFails(s) \/ BindEmail(s)
  PROVE  CodesInv' /\ AccountsInv'
  <1>1. /\ UNCHANGED codeVars /\ session'[s] = Idle
        /\ session' = [t \in Sessions |-> session'[t]]
        /\ \A t \in Sessions \ {s} : session'[t] = session[t]
    BY DEF FinishLogin, TaskFails, BindEmail, Leave, CodesInv
  <1>2. CodesInv'
    BY <1>1, QuietKeeps
  <1>3. \A t \in Sessions : session'[t].at = "merging" => session'[t] = session[t]
    BY <1>1 DEF Idle
  <1>4. CASE UNCHANGED accountVars
    BY <1>2, <1>3, <1>4, SessionsKeepAccounts
  <1>5. CASE BindEmail(s)
    BY <1>2, <1>5, BindEmailKeeps
  <1>6. CASE FinishLogin(s) /\ ~UNCHANGED accountVars
    <2> DEFINE target == session[s].slot.target
    <2>1. PICK u \in Users : target \in Phones /\ NewUser(u, target, None) /\ UNCHANGED events
      BY <1>6 DEF FinishLogin
    <2>2. events' \in 0 .. MaxEvents
      BY <2>1 DEF AccountsInv, AccountsType
    <2> HIDE DEF target
    <2> QED BY <1>2, <1>3, <2>1, <2>2, NewUserKeeps
  <1> QED BY <1>4, <1>5, <1>6 DEF TaskFails

LEMMA StepKeeps ==
  ASSUME CodesInv, AccountsInv, [Next]_vars
  PROVE  CodesInv' /\ AccountsInv'
  <1>1. ASSUME UNCHANGED codesVars PROVE CodesInv'
    BY <1>1 DEF CodesInv, CodesTypeOK, SessionsOK, SendingOK, JudgingOK, VerifiedOK, OpenCodes, At,
       codesVars, codeVars
  <1>2. CASE UNCHANGED vars
    <2>1. UNCHANGED codesVars /\ UNCHANGED accountVars /\ session' = session
      BY <1>2 DEF vars, codesVars
    <2> QED BY <1>1, <2>1, SessionsKeepAccounts
  <1>3. CASE Time /\ UNCHANGED accountVars
    <2>1. session' = session
      BY <1>3 DEF Time, CooldownEnds, LifeEnds, WindowEnds
    <2> QED BY <1>3, <2>1, TimeKeeps, SessionsKeepAccounts
  <1>4. ASSUME NEW s \in Sessions, CodeStep(s), UNCHANGED accountVars
        PROVE  CodesInv' /\ AccountsInv'
    <2>1. \A t \in Sessions : session'[t].at = "merging" => session'[t] = session[t]
      <3>1. CASE Leave(s)
        BY <3>1 DEF Leave, Idle, CodesInv
      <3>2. CASE AcceptCode(s)
        <4>1. /\ session'[s] = [at |-> "verified", slot |-> session[s].slot, task |-> session[s].task]
              /\ \A t \in Sessions \ {s} : session'[t] = session[t]
          BY <3>2 DEF AcceptCode, CodesInv
        <4> QED BY <4>1
      <3> QED BY <1>4, <3>1, <3>2 DEF CodeStep, SendCode, SendingFails, CodeExpired, WrongCode,
            JudgingFails
    <2> QED BY <1>4, <2>1, CodeStepKeeps, SessionsKeepAccounts, CodesAssumption
  <1>5. ASSUME NEW s \in Sessions,
               FinishLogin(s) \/ BindEmail(s) \/ BeginMerge(s) \/ CommitMerge(s) \/ TaskFails(s)
        PROVE  CodesInv' /\ AccountsInv'
    BY <1>5, TaskKeeps, BeginMergeKeeps, CommitMergeKeepsCodes, CommitMergeKeepsAccounts,
       CodesAssumption
  <1>6. ASSUME NEW s \in Sessions, NEW slot \in Slots, AskLoginCode(s, slot)
        PROVE  CodesInv' /\ AccountsInv'
    <2>1. PICK u \in Users : TRUE
      BY AccountsAssumption
    <2> QED BY <1>6, <2>1, LoadingKeeps
  <1>7. ASSUME NEW s \in Sessions, NEW slot \in Slots, NEW right \in BOOLEAN,
               TryLogin(s, slot, right)
        PROVE  CodesInv' /\ AccountsInv'
    <2>1. PICK u \in Users : TRUE
      BY AccountsAssumption
    <2> QED BY <1>7, <2>1, LoadingKeeps
  <1>8. ASSUME NEW s \in Sessions, NEW slot \in Slots, NEW u \in Users, AskBindCode(s, u, slot)
        PROVE  CodesInv' /\ AccountsInv'
    BY <1>8, LoadingKeeps
  <1>9. ASSUME NEW s \in Sessions, NEW slot \in Slots, NEW u \in Users, NEW right \in BOOLEAN,
               TryBind(s, u, slot, right)
        PROVE  CodesInv' /\ AccountsInv'
    BY <1>9, LoadingKeeps
  <1>10. ASSUME NEW u \in Users, NEW phone \in Phones, NEW email \in Emails, Register(u, phone, email)
         PROVE  CodesInv' /\ AccountsInv'
    <2>1. /\ NewUser(u, phone, email) /\ UNCHANGED codesVars /\ events' \in 0 .. MaxEvents
          /\ session' = session
      BY <1>10, AccountsAssumption DEF Register, Event, AccountsInv, AccountsType, codesVars
    <2> QED BY <1>1, <2>1, NewUserKeeps
  <1>11. ASSUME NEW u \in Users, NEW admin \in Users,
                \/ CommitDisable(u) \/ Reserve(u) \/ Settle(u)
                \/ Enable(admin, u) \/ BeginDisable(admin, u) \/ Adjust(admin, u)
         PROVE  CodesInv' /\ AccountsInv'
    <2>1. UNCHANGED codesVars
      BY <1>11 DEF CommitDisable, Reserve, Settle, Enable, BeginDisable, Adjust
    <2> QED BY <1>1, <1>11, <2>1, CommitDisableKeeps, ReserveKeeps, SettleKeeps, EnableKeeps,
          BeginDisableKeeps, AdjustKeeps
  <1> QED BY <1>2, <1>3, <1>4, <1>5, <1>6, <1>7, <1>8, <1>9, <1>10, <1>11 DEF Next

LEMMA Invariance == Spec => [](CodesInv /\ AccountsInv)
  <1>1. Init => CodesInv /\ AccountsInv
    BY Initially
  <1>2. CodesInv /\ AccountsInv /\ [Next]_vars => CodesInv' /\ AccountsInv'
    BY StepKeeps
  <1> QED BY <1>1, <1>2, PTL DEF Spec

-----------------------------------------------------------------------------
(* Theorems.                                                               *)

(* Every step of codes, merges and administration writes values of the     *)
(* columns' types: no row of a user loses more rows or reservations than   *)
(* it has.                                                                 *)
THEOREM TypeCorrect == Spec => []TypeOK
  <1>1. CodesInv /\ AccountsInv => TypeOK
    BY DEF CodesInv, SessionsOK, VerifiedOK, AccountsInv, AccountsType, TypeOK, Books, Purses
  <1> QED BY <1>1, Invariance, PTL

(* _merge_user_into_target: wallets hold what their ledgers and            *)
(* reservations add up to, unless a merge wrote over a posting to its      *)
(* target.                                                                 *)
THEOREM WalletMatchesLedgerHolds == Spec => []WalletMatchesLedger
  <1>1. AccountsInv => WalletMatchesLedger
    BY DEF AccountsInv
  <1> QED BY <1>1, Invariance, PTL

(* _consume_verification_code: a request never accepts a code that was     *)
(* closed before it read the row.                                          *)
THEOREM ClosedCodeRefusedHolds == Spec => ClosedCodeRefused
  <1> DEFINE Step == \A s \in Sessions :
               (At(s, "judging") /\ session'[s].at = "verified") => ~session[s].old
  <1>1. CodesInv => Step
    BY DEF CodesInv, SessionsOK, JudgingOK
  <1>2. CodesInv => [Step]_codesVars
    BY <1>1
  <1> QED BY <1>2, Invariance, PTL DEF ClosedCodeRefused

(* _merge_user_into_target: the account of a phone that goes leaves the    *)
(* phone to the target, whichever of the two had it.                       *)
LEMMA CommitMergeKeepsPhones ==
  ASSUME CodesInv, AccountsInv, NEW s \in Sessions, CommitMerge(s), NEW p \in Phones,
         Opens(p), "phone" \notin overwritten'
  PROVE  Opens(p)'
  <1> DEFINE source == Task(s).user
             target == session[s].target
  <1>1. /\ source \in Users /\ target \in Users /\ target # source /\ user[target].exists
        /\ user \in [Users -> UserRows] /\ p # None
        /\ session[s].targetPhone # None /\ Task(s).phone # None
             => session[s].targetPhone = Task(s).phone
    BY AccountsAssumption DEF CommitMerge, AccountsInv, AccountsType, MergingOK, Task
  <1>2. user[target].phone = session[s].targetPhone /\ user[source].phone = Task(s).phone
    BY DEF CommitMerge, Unseen
  <1>3. user' = [user EXCEPT ![source] = Gone,
                            ![target].phone = PhoneKept(s, user[target].phone),
                            ![target].verified = TRUE]
    BY DEF CommitMerge
  <1>4. /\ user'[target].exists /\ user'[target].phone = PhoneKept(s, user[target].phone)
        /\ \A v \in Users \ {source, target} : user'[v] = user[v]
    BY <1>1, <1>3 DEF UserRows
  <1>5. PICK v \in Users : user[v].exists /\ user[v].phone = p
    BY DEF Opens, WithPhone
  <1>6. CASE v \notin {source, target}
    BY <1>4, <1>5, <1>6 DEF Opens, WithPhone
  <1>7. CASE v \in {source, target}
    <2>1. PhoneKept(s, user[target].phone) = p
      BY <1>1, <1>2, <1>5, <1>7 DEF PhoneKept
    <2> QED BY <1>1, <1>4, <2>1 DEF Opens, WithPhone
  <1> QED BY <1>6, <1>7

(* _merge_user_into_target: a phone that opens an account goes on opening  *)
(* one, unless merges that share an account cross.                         *)
THEOREM PhoneStaysHolds == Spec => PhoneStays
  <1> DEFINE Step == \A p \in Phones : Opens(p) => Opens(p)' \/ "phone" \in overwritten'
  <1>1. ASSUME CodesInv, AccountsInv, [Next]_vars PROVE [Step]_vars
    <2> SUFFICES ASSUME Next, NEW p \in Phones, Opens(p), "phone" \notin overwritten'
                 PROVE  Opens(p)'
      BY <1>1
    <2> USE <1>1
    <2>1. PICK v \in Users : user[v].exists /\ user[v].phone = p
      BY DEF Opens, WithPhone
    <2>2. user \in [Users -> UserRows]
      BY DEF AccountsInv, AccountsType
    <2>3. CASE user'[v].exists /\ user'[v].phone = p
      BY <2>3 DEF Opens, WithPhone
    <2>4. CASE UNCHANGED user
      BY <2>1, <2>4 DEF Opens, WithPhone
    <2>5. ASSUME NEW u \in Users, NEW phone, NEW email, NewUser(u, phone, email)
          PROVE  Opens(p)'
      <3>1. u # v
        BY <2>1, <2>5 DEF NewUser, NoAccount
      <3> QED BY <2>1, <2>2, <2>3, <2>5, <3>1 DEF NewUser
    <2>6. ASSUME NEW s \in Sessions, BindEmail(s) PROVE Opens(p)'
      BY <2>1, <2>2, <2>3, <2>6 DEF BindEmail, UserRows
    <2>7. ASSUME NEW admin \in Users, NEW u \in Users,
                 Enable(admin, u) \/ CommitDisable(u)
          PROVE  Opens(p)'
      BY <2>1, <2>2, <2>3, <2>7 DEF Enable, CommitDisable, UserRows
    <2>8. ASSUME NEW s \in Sessions, CommitMerge(s) PROVE Opens(p)'
      BY <2>8, CommitMergeKeepsPhones
    <2>9. ASSUME NEW s \in Sessions, FinishLogin(s) PROVE Opens(p)'
      BY <2>4, <2>5, <2>9 DEF FinishLogin, accountVars
    <2> QED BY <2>4, <2>5, <2>6, <2>7, <2>8, <2>9, ZenonT(30) DEF Next, Register, Reserve, Settle, BeginDisable,
          Adjust, BeginMerge, TaskFails, AskLoginCode, AskBindCode, TryLogin, TryBind, accountVars
  <1> QED BY <1>1, Invariance, PTL DEF Spec, PhoneStays
=============================================================================
