--------------------------- MODULE Services_proofs ---------------------------
(***************************************************************************)
(* Proofs about services of the program that share no state: each part of  *)
(* this module is about one of them.                                       *)
(***************************************************************************)
EXTENDS TestCaseStore, RealTimeMonitor, Metrics, MetricsHistory, InteractiveExecution,
        Alerting, ResultAnalysis, DataLemmas, FiniteSetTheorems

-----------------------------------------------------------------------------
(***************************************************************************)
(* TestCaseStore: what was acknowledged is on disk                         *)
(***************************************************************************)
Logs == Seq(Nat) \ {<<>>}
Files == [kind : {"gone", "empty", "garbled"}] \cup [kind : {"text"}, log : Logs]
Moments == {"case", "metadata"}
SaveCalls == [op : {"save"}, id : Ids, at : Moments, log : Logs]
DeleteCalls == [op : {"delete"}, id : Ids, at : Moments]
Pending == [dir : {"cases", "metadata"}, id : Ids, log : Logs]

StoreTypes ==
    /\ cases \in [Ids -> Files] /\ metadata \in [Ids -> Files]
    /\ writes \in SUBSET Pending
    /\ calls \in [Callers -> {Idle} \cup SaveCalls \cup DeleteCalls]
    /\ acknowledged \in [Ids -> Seq(Nat)]
    /\ disturbed \in SUBSET Ids
    /\ edits \in 0..MaxEdits /\ faults \in 0..MaxFaults

\* A text is only ever on its way to a file that is there.
Addressed ==
    \A w \in writes : IF w.dir = "cases" THEN cases[w.id] # Gone ELSE metadata[w.id] # Gone

\* The file holds the log, or is empty while the log is the one text on its way to it.
KeepsLog(file, pending, id, log) ==
    IF log = <<>> THEN file = Gone /\ pending = {}
    ELSE \/ file = Text(log) /\ pending = {}
         \/ file = Empty /\ pending = {[dir |-> "cases", id |-> id, log |-> log]}
Keeps(id, log) == KeepsLog(cases[id], WritesTo("cases", id), id, log)
Paired(id) == metadata[id] = Gone <=> cases[id] = Gone

\* What the call of c, the only one on its test case, finds and leaves there.  A create or
\* update starts when nothing is on its way to the file; a delete may overtake a text.
CallSound(c) ==
    LET id == calls[c].id
        op == calls[c].op
    IN  /\ calls[c].at = "case" =>
              /\ Keeps(id, acknowledged[id]) /\ Paired(id)
              /\ op = "save" => WritesTo("cases", id) = {}
              /\ op = "delete" => cases[id] # Gone
        /\ calls[c].at = "metadata" =>
              /\ op = "save" => Keeps(id, calls[c].log)
              /\ op = "delete" => cases[id] = Gone /\ WritesTo("cases", id) = {}

Undisturbed(id) ==
    /\ \A c, d \in Callers : c \in CallsOn(id) /\ d \in CallsOn(id) => c = d
    /\ \A c \in CallsOn(id) : CallSound(c)
    /\ CallsOn(id) = {} => Keeps(id, acknowledged[id]) /\ Paired(id)

\* The inductive invariant.
StoreInv == StoreTypes /\ Addressed /\ \A id \in Ids \ disturbed : Undisturbed(id)

\* What a file may be, told apart.
LEMMA FilesOfText ==
  /\ Gone \in Files /\ Empty \in Files /\ Garbled \in Files
  /\ Gone # Empty /\ Gone # Garbled /\ Empty # Garbled
  /\ \A log \in Logs : Text(log) \in Files /\ Text(log) # Gone /\ Text(log) # Empty
  /\ \A f \in Files : f.kind = "text" => f.log \in Logs /\ f = Text(f.log)
  /\ \A f \in Files : f.kind = "gone" => f = Gone
<1>1. /\ Gone \in Files /\ Empty \in Files /\ Garbled \in Files
      /\ Gone # Empty /\ Gone # Garbled /\ Empty # Garbled
  BY DEF Files, Gone, Empty, Garbled
<1>2. \A log \in Logs : Text(log) \in Files /\ Text(log) # Gone /\ Text(log) # Empty
  BY DEF Files, Gone, Empty, Text
<1>3. ASSUME NEW f \in Files, f.kind = "text" PROVE f.log \in Logs /\ f = Text(f.log)
  BY <1>3 DEF Files, Text
<1>4. ASSUME NEW f \in Files, f.kind = "gone" PROVE f = Gone
  BY <1>4 DEF Files, Gone
<1>5. QED
  BY <1>1, <1>2, <1>3, <1>4

\* A call is at rest, or saves or deletes some test case.
LEMMA CallCases ==
  ASSUME StoreTypes, NEW c \in Callers
  PROVE  /\ calls[c] = Idle \/ calls[c] \in SaveCalls \/ calls[c] \in DeleteCalls
         /\ calls[c] \in SaveCalls => calls[c].op = "save" /\ calls[c] # Idle
         /\ calls[c] \in DeleteCalls => calls[c].op = "delete" /\ calls[c] # Idle
         /\ calls[c].op = "save" => calls[c] \in SaveCalls
         /\ calls[c].op = "delete" => calls[c] \in DeleteCalls
         /\ calls[c] # Idle => calls[c].id \in Ids /\ calls[c].at \in Moments
BY DEF StoreTypes, SaveCalls, DeleteCalls, Idle

\* Nothing is on disk or under way at first.
LEMMA StoreInitInv == StoreInit => StoreInv
<1> SUFFICES ASSUME StoreInit PROVE StoreInv
  OBVIOUS
<1>1. StoreTypes
  <2>1. <<>> \in Seq(Nat)
    OBVIOUS
  <2>2. QED
    BY <2>1, FilesOfText, StoreAssumption DEF StoreInit, StoreTypes
<1>2. \A id \in Ids : CallsOn(id) = {}
  BY DEF StoreInit, CallsOn
<1>3. \A id \in Ids : Keeps(id, acknowledged[id]) /\ Paired(id)
  BY DEF StoreInit, Keeps, KeepsLog, Paired, WritesTo
<1>4. QED
  BY <1>1, <1>2, <1>3 DEF StoreInit, StoreInv, Addressed, Undisturbed, CallsOn

\* A step that does not concern a test case leaves it as it was.
LEMMA Unconcerned ==
  ASSUME NEW id \in Ids, Undisturbed(id),
         cases'[id] = cases[id], metadata'[id] = metadata[id],
         acknowledged'[id] = acknowledged[id],
         WritesTo("cases", id)' = WritesTo("cases", id),
         CallsOn(id)' = CallsOn(id),
         \A c \in CallsOn(id) : calls'[c] = calls[c]
  PROVE  Undisturbed(id)'
<1>1. \A c \in CallsOn(id) : calls[c].id = id
  BY DEF CallsOn
<1>2. ASSUME NEW c \in CallsOn(id) PROVE CallSound(c)'
  <2>1. CallSound(c) /\ calls[c].id = id /\ calls'[c] = calls[c]
    BY <1>1, <1>2 DEF Undisturbed
  <2>2. QED
    BY <2>1 DEF CallSound, Keeps, Paired
<1>3. CallsOn(id) = {} => (Keeps(id, acknowledged[id]) /\ Paired(id))'
  BY DEF Undisturbed, Keeps, Paired
<1>4. QED
  BY <1>2, <1>3 DEF Undisturbed

\* A call begins: nothing moves on disk, and the test case is disturbed if another call is
\* on it.
LEMMA BeginsSound ==
  ASSUME StoreInv, NEW c \in Callers, NEW id \in Ids, NEW call,
         calls[c] = Idle, call \in SaveCalls \cup DeleteCalls, call.id = id, call.at = "case",
         calls' = [calls EXCEPT ![c] = call],
         disturbed' = IF CallsOn(id) = {} THEN disturbed ELSE disturbed \cup {id},
         UNCHANGED <<cases, metadata, writes, acknowledged>>,
         call.op = "save" /\ Undisturbed(id) /\ CallsOn(id) = {} => WritesTo("cases", id) = {},
         call.op = "delete" => cases[id] # Gone
  PROVE  \A i \in Ids \ disturbed' : Undisturbed(i)'
<1>1. calls \in [Callers -> {Idle} \cup SaveCalls \cup DeleteCalls]
  BY DEF StoreInv, StoreTypes
<1>2. call # Idle /\ call.op \in {"save", "delete"}
  BY DEF Idle, SaveCalls, DeleteCalls
<1>3. \A d \in Callers : calls'[d] = IF d = c THEN call ELSE calls[d]
  BY <1>1
<1>4. SUFFICES ASSUME NEW i \in Ids, i \notin disturbed' PROVE Undisturbed(i)'
  OBVIOUS
<1>5. i \notin disturbed /\ Undisturbed(i)
  BY <1>4 DEF StoreInv
<1>6. WritesTo("cases", i)' = WritesTo("cases", i)
  BY DEF WritesTo
<1>7. CASE i # id
  <2>1. CallsOn(i)' = CallsOn(i) /\ c \notin CallsOn(i)
    BY <1>2, <1>3, <1>7 DEF CallsOn
  <2>2. \A d \in CallsOn(i) : calls'[d] = calls[d]
    BY <1>3, <2>1 DEF CallsOn
  <2>3. QED
    BY <1>5, <1>6, <2>1, <2>2, Unconcerned
<1>8. CASE i = id
  <2>1. CallsOn(id) = {}
    BY <1>4, <1>8
  <2>2. CallsOn(id)' = {c}
    BY <1>2, <1>3, <2>1 DEF CallsOn
  <2>3. Keeps(id, acknowledged[id]) /\ Paired(id)
    BY <1>5, <1>8, <2>1 DEF Undisturbed
  <2>4. (Keeps(id, acknowledged[id]) /\ Paired(id))'
    BY <1>6, <1>8, <2>3 DEF Keeps, Paired
  <2>5. calls'[c] = call
    BY <1>3
  <2>6. CASE call.op = "save"
    <3>1. WritesTo("cases", id)' = {}
      BY <1>5, <1>6, <1>8, <2>1, <2>6
    <3>2. CallSound(c)'
      BY <2>4, <2>5, <2>6, <3>1 DEF CallSound
    <3>3. QED
      BY <1>8, <2>2, <3>2 DEF Undisturbed
  <2>7. CASE call.op = "delete"
    <3>1. (cases[id] # Gone)'
      BY <2>7
    <3>2. CallSound(c)'
      BY <2>4, <2>5, <2>7, <3>1 DEF CallSound
    <3>3. QED
      BY <1>8, <2>2, <3>2 DEF Undisturbed
  <2>8. QED
    BY <1>2, <2>6, <2>7
<1>9. QED
  BY <1>7, <1>8

\* What create and update find: no text is under way to a file that is not there or is read.
LEMMA NothingUnderWay ==
  ASSUME NEW id \in Ids, Undisturbed(id), CallsOn(id) = {},
         cases[id] = Gone \/ cases[id].kind = "text"
  PROVE  WritesTo("cases", id) = {}
<1>1. Empty.kind = "empty" /\ Empty # Gone
  BY DEF Empty, Gone
<1>2. QED
  BY <1>1 DEF Undisturbed, Keeps, KeepsLog

\* The three calls begin soundly.
LEMMA BeginSteps ==
  ASSUME StoreInv, NEW c \in Callers, NEW id \in Ids,
         create_test_case(c, id) \/ update_test_case(c, id) \/ delete_test_case(c, id)
  PROVE  StoreInv'
<1>1. StoreTypes /\ Addressed
  BY DEF StoreInv
<1>2. CASE create_test_case(c, id) \/ update_test_case(c, id)
  <2>1. PICK log \in Logs : /\ Edit(c, id, log)
                            /\ cases[id] = Gone \/ cases[id].kind = "text"
    <3>1. edits + 1 \in Nat
      BY <1>1, StoreAssumption DEF StoreTypes
    <3>2. <<edits + 1>> \in Logs
      BY <3>1 DEF Logs
    <3>3. ASSUME cases[id].kind = "text" PROVE Append(cases[id].log, edits + 1) \in Logs
      <4>1. cases[id].log \in Seq(Nat)
        BY <1>1, <3>3, FilesOfText DEF StoreTypes, Logs
      <4>2. QED
        BY <3>1, <4>1, AppendProperties DEF Logs
    <3>4. QED
      BY <1>2, <3>2, <3>3 DEF create_test_case, update_test_case
  <2> DEFINE call == [op |-> "save", id |-> id, at |-> "case", log |-> log]
  <2>2. /\ call \in SaveCalls /\ call.id = id /\ call.at = "case" /\ call.op = "save"
    BY DEF SaveCalls, Moments
  <2>3. /\ calls[c] = Idle /\ calls' = [calls EXCEPT ![c] = call]
        /\ disturbed' = IF CallsOn(id) = {} THEN disturbed ELSE disturbed \cup {id}
        /\ UNCHANGED <<cases, metadata, writes, acknowledged, faults>>
        /\ edits < MaxEdits /\ edits' = edits + 1
    BY <2>1 DEF Edit, Start
  <2>4. Undisturbed(id) /\ CallsOn(id) = {} => WritesTo("cases", id) = {}
    BY <2>1, NothingUnderWay
  <2> HIDE DEF call
  <2>5. \A i \in Ids \ disturbed' : Undisturbed(i)'
    BY <2>2, <2>3, <2>4, BeginsSound
  <2>6. StoreTypes'
    <3>1. edits' \in 0..MaxEdits
      BY <1>1, <2>3, StoreAssumption DEF StoreTypes
    <3>2. QED
      BY <1>1, <2>2, <2>3, <3>1 DEF StoreTypes
  <2>7. Addressed'
    BY <1>1, <2>3 DEF Addressed
  <2>8. QED
    BY <2>5, <2>6, <2>7 DEF StoreInv
<1>3. CASE delete_test_case(c, id)
  <2> DEFINE call == [op |-> "delete", id |-> id, at |-> "case"]
  <2>2. /\ call \in DeleteCalls /\ call.id = id /\ call.at = "case" /\ call.op = "delete"
    BY DEF DeleteCalls, Moments
  <2>3. /\ calls[c] = Idle /\ calls' = [calls EXCEPT ![c] = call]
        /\ disturbed' = IF CallsOn(id) = {} THEN disturbed ELSE disturbed \cup {id}
        /\ UNCHANGED <<cases, metadata, writes, acknowledged, edits, faults>>
        /\ cases[id] # Gone
    BY <1>3 DEF delete_test_case, Start
  <2> HIDE DEF call
  <2>5. \A i \in Ids \ disturbed' : Undisturbed(i)'
    BY <2>2, <2>3, BeginsSound
  <2>6. StoreTypes'
    BY <1>1, <2>2, <2>3 DEF StoreTypes
  <2>7. Addressed'
    BY <1>1, <2>3 DEF Addressed
  <2>8. QED
    BY <2>5, <2>6, <2>7 DEF StoreInv
<1>4. QED
  BY <1>2, <1>3

\* The two halves of a save.
LEMMA SaveSteps ==
  ASSUME StoreInv, NEW c \in Callers, save_test_case(c) \/ save_metadata(c)
  PROVE  StoreInv'
<1>1. StoreTypes /\ Addressed
  BY DEF StoreInv
<1>2. /\ calls[c] \in SaveCalls /\ calls[c].op = "save" /\ calls[c] # Idle
  BY <1>1, CallCases DEF save_test_case, save_metadata
<1>whose. PICK id \in Ids, log \in Logs : calls[c].id = id /\ calls[c].log = log
  BY <1>2 DEF SaveCalls
<1>3. c \in CallsOn(id)
  BY <1>2, <1>whose DEF CallsOn
<1>4. log \in Seq(Nat) /\ log # <<>>
  BY DEF Logs
<1>5. disturbed' = disturbed /\ edits' = edits /\ faults' = faults
  BY DEF save_test_case, save_metadata
<1>6. CASE save_test_case(c)
  <2> DEFINE text == [dir |-> "cases", id |-> id, log |-> log]
             next == [calls[c] EXCEPT !.at = "metadata"]
  <2>1. /\ calls[c].at = "case"
        /\ cases' = [cases EXCEPT ![id] = Empty] /\ writes' = writes \cup {text}
        /\ calls' = [calls EXCEPT ![c] = next]
        /\ UNCHANGED <<metadata, acknowledged>>
    BY <1>6, <1>whose DEF save_test_case
  <2>2. text \in Pending /\ text.dir = "cases" /\ text.id = id /\ text.log = log
    BY <1>2 DEF Pending
  <2>3. next \in SaveCalls /\ next.op = "save" /\ next.id = id /\ next.log = log
        /\ next.at = "metadata" /\ next # Idle
    BY <1>2, <1>whose DEF SaveCalls, Moments, Idle
  <2>4. \A d \in Callers : calls'[d] = IF d = c THEN next ELSE calls[d]
    BY <1>1, <2>1 DEF StoreTypes
  <2>5. \A i \in Ids : cases'[i] = IF i = id THEN Empty ELSE cases[i]
    BY <1>1, <2>1 DEF StoreTypes
  <2> HIDE DEF text, next
  <2>6. StoreTypes'
    BY <1>1, <1>5, <2>1, <2>2, <2>3, FilesOfText DEF StoreTypes
  <2>7. Addressed'
    BY <1>1, <1>2, <2>1, <2>2, <2>5, FilesOfText DEF Addressed, StoreTypes
  <2>8. \A i \in Ids : CallsOn(i)' = CallsOn(i)
    BY <1>2, <1>whose, <2>3, <2>4 DEF CallsOn
  <2>9. ASSUME NEW i \in Ids, i \notin disturbed PROVE Undisturbed(i)'
    <3>1. Undisturbed(i)
      BY <2>9 DEF StoreInv
    <3>2. CASE i # id
      <4>1. WritesTo("cases", i)' = WritesTo("cases", i)
        BY <2>1, <2>2, <3>2 DEF WritesTo
      <4>2. \A d \in CallsOn(i) : calls'[d] = calls[d]
        BY <1>whose, <2>4, <3>2 DEF CallsOn
      <4>3. cases'[i] = cases[i] /\ metadata'[i] = metadata[i]
            /\ acknowledged'[i] = acknowledged[i]
        BY <2>1, <2>5, <3>2
      <4>4. QED
        BY <2>8, <3>1, <4>1, <4>2, <4>3, Unconcerned
    <3>3. CASE i = id
      <4>1. CallSound(c) /\ \A d \in CallsOn(id) : d = c
        BY <1>3, <3>1, <3>3 DEF Undisturbed, CallsOn
      <4>2. WritesTo("cases", id) = {}
        BY <1>2, <1>whose, <2>1, <4>1 DEF CallSound
      <4>3. WritesTo("cases", id)' = {text}
        BY <2>1, <2>2, <4>2 DEF WritesTo
      <4>4. cases'[id] = Empty
        BY <1>2, <2>5
      <4>5. KeepsLog(cases'[id], WritesTo("cases", id)', id, log)
        BY <1>4, <4>3, <4>4 DEF KeepsLog, text
      <4>6. calls'[c] = next
        BY <2>4
      <4>7. CallSound(c)'
        BY <2>3, <4>5, <4>6 DEF CallSound, Keeps
      <4>8. \A d \in CallsOn(id)' : d = c
        BY <1>2, <2>8, <4>1
      <4>9. (CallsOn(i) # {})'
        BY <1>2, <1>3, <2>8, <3>3
      <4>10. QED
        BY <3>3, <4>7, <4>8, <4>9 DEF Undisturbed
    <3>4. QED
      BY <3>2, <3>3
  <2>10. QED
    BY <1>5, <2>6, <2>7, <2>9 DEF StoreInv
<1>7. CASE save_metadata(c)
  <2> DEFINE text == [dir |-> "metadata", id |-> id, log |-> log]
  <2>1. /\ calls[c].at = "metadata"
        /\ metadata' = [metadata EXCEPT ![id] = Empty] /\ writes' = writes \cup {text}
        /\ calls' = [calls EXCEPT ![c] = Idle]
        /\ acknowledged' = [acknowledged EXCEPT ![id] = log]
        /\ cases' = cases
    BY <1>7, <1>whose DEF save_metadata
  <2>2. text \in Pending /\ text.dir = "metadata" /\ text.id = id
    BY <1>2 DEF Pending
  <2>3. \A d \in Callers : calls'[d] = IF d = c THEN Idle ELSE calls[d]
    BY <1>1, <2>1 DEF StoreTypes
  <2>4. \A i \in Ids : /\ metadata'[i] = IF i = id THEN Empty ELSE metadata[i]
                       /\ acknowledged'[i] = IF i = id THEN log ELSE acknowledged[i]
    BY <1>1, <2>1 DEF StoreTypes
  <2> HIDE DEF text
  <2>5. StoreTypes'
    BY <1>1, <1>2, <1>4, <1>5, <2>1, <2>2, FilesOfText DEF StoreTypes
  <2>6. Addressed'
    BY <1>1, <1>2, <2>1, <2>2, <2>4, FilesOfText DEF Addressed, StoreTypes
  <2>7. \A i \in Ids : CallsOn(i)' = CallsOn(i) \ {c}
    BY <2>3 DEF CallsOn
  <2>8. \A i \in Ids : WritesTo("cases", i)' = WritesTo("cases", i)
    BY <2>1, <2>2 DEF WritesTo
  <2>9. ASSUME NEW i \in Ids, i \notin disturbed PROVE Undisturbed(i)'
    <3>1. Undisturbed(i)
      BY <2>9 DEF StoreInv
    <3>2. CASE i # id
      <4>1. CallsOn(i)' = CallsOn(i)
        BY <1>whose, <2>7, <3>2 DEF CallsOn
      <4>2. \A d \in CallsOn(i) : calls'[d] = calls[d]
        BY <1>whose, <2>3, <3>2 DEF CallsOn
      <4>3. cases'[i] = cases[i] /\ metadata'[i] = metadata[i]
            /\ acknowledged'[i] = acknowledged[i]
        BY <2>1, <2>4, <3>2
      <4>4. QED
        BY <2>8, <3>1, <4>1, <4>2, <4>3, Unconcerned
    <3>3. CASE i = id
      <4>1. CallSound(c) /\ \A d \in CallsOn(id) : d = c
        BY <1>3, <3>1, <3>3 DEF Undisturbed, CallsOn
      <4>2. CallsOn(id)' = {}
        BY <1>2, <2>7, <4>1
      <4>3. Keeps(id, log)
        BY <1>2, <1>whose, <2>1, <4>1 DEF CallSound
      <4>4. cases[id] # Gone
        BY <1>4, <1>2, <4>3, FilesOfText DEF Keeps, KeepsLog
      <4>5. acknowledged'[id] = log /\ metadata'[id] # Gone
        BY <1>2, <2>4, FilesOfText
      <4>6. cases'[id] = cases[id] /\ WritesTo("cases", id)' = WritesTo("cases", id)
        BY <1>2, <2>1, <2>8
      <4>7. (Keeps(i, acknowledged[i]) /\ Paired(i))'
        BY <3>3, <4>3, <4>4, <4>5, <4>6 DEF Keeps, Paired
      <4>8. QED
        BY <3>3, <4>2, <4>7 DEF Undisturbed
    <3>4. QED
      BY <3>2, <3>3
  <2>10. QED
    BY <1>5, <2>5, <2>6, <2>9 DEF StoreInv
<1>8. QED
  BY <1>6, <1>7

\* The two halves of a deletion.
LEMMA DeleteSteps ==
  ASSUME StoreInv, NEW c \in Callers, remove_case(c) \/ remove_metadata(c)
  PROVE  StoreInv'
<1>1. StoreTypes /\ Addressed
  BY DEF StoreInv
<1>2. /\ calls[c] \in DeleteCalls /\ calls[c].op = "delete" /\ calls[c] # Idle
  BY <1>1, CallCases DEF remove_case, remove_metadata
<1>whose. PICK id \in Ids : calls[c].id = id
  BY <1>2 DEF DeleteCalls
<1>3. c \in CallsOn(id)
  BY <1>2, <1>whose DEF CallsOn
<1>5. disturbed' = disturbed /\ edits' = edits /\ faults' = faults
  BY DEF remove_case, remove_metadata
<1>6. CASE remove_case(c)
  <2>0. PICK next : next = IF cases[id] = Gone THEN Idle ELSE [calls[c] EXCEPT !.at = "metadata"]
    OBVIOUS
  <2>1. /\ calls[c].at = "case"
        /\ cases' = [cases EXCEPT ![id] = Gone]
        /\ writes' = writes \ WritesTo("cases", id)
        /\ calls' = [calls EXCEPT ![c] = next]
        /\ UNCHANGED <<metadata, acknowledged>>
    BY <1>6, <1>whose, <2>0 DEF remove_case
  <2>2. /\ next \in {Idle} \cup DeleteCalls
        /\ cases[id] # Gone => next # Idle /\ next.op = "delete" /\ next.id = id
                               /\ next.at = "metadata"
    BY <1>2, <1>whose, <2>0 DEF DeleteCalls, Moments, Idle
  <2>3. \A d \in Callers : calls'[d] = IF d = c THEN next ELSE calls[d]
    BY <1>1, <2>1 DEF StoreTypes
  <2>4. \A i \in Ids : cases'[i] = IF i = id THEN Gone ELSE cases[i]
    BY <1>1, <2>1 DEF StoreTypes
  <2>5. StoreTypes'
    BY <1>1, <1>5, <2>1, <2>2, FilesOfText DEF StoreTypes
  <2>6. Addressed'
    BY <1>1, <2>1, <2>4 DEF Addressed, StoreTypes, WritesTo, Pending
  <2>7. ASSUME NEW i \in Ids, i \notin disturbed PROVE Undisturbed(i)'
    <3>1. Undisturbed(i)
      BY <2>7 DEF StoreInv
    <3>2. CASE i # id
      <4>1. WritesTo("cases", i)' = WritesTo("cases", i)
        BY <2>1, <3>2 DEF WritesTo
      <4>2. CallsOn(i)' = CallsOn(i) /\ \A d \in CallsOn(i) : calls'[d] = calls[d]
        <5>1. next = Idle \/ next.id = id
          BY <2>0, <2>2
        <5>2. QED
          BY <1>whose, <2>3, <3>2, <5>1 DEF CallsOn
      <4>3. cases'[i] = cases[i] /\ metadata'[i] = metadata[i]
            /\ acknowledged'[i] = acknowledged[i]
        BY <2>1, <2>4, <3>2
      <4>4. QED
        BY <3>1, <4>1, <4>2, <4>3, Unconcerned
    <3>3. CASE i = id
      <4>1. CallSound(c) /\ \A d \in CallsOn(id) : d = c
        BY <1>3, <3>1, <3>3 DEF Undisturbed, CallsOn
      <4>2. cases[id] # Gone
        BY <1>2, <1>whose, <2>1, <4>1 DEF CallSound
      <4>3. CallsOn(id)' = {c}
        BY <1>3, <2>2, <2>3, <4>1, <4>2 DEF CallsOn
      <4>4. cases'[id] = Gone /\ WritesTo("cases", id)' = {}
        BY <2>1, <2>4 DEF WritesTo
      <4>5. calls'[c] = next
        BY <2>3
      <4>6. CallSound(c)'
        BY <2>2, <4>2, <4>4, <4>5 DEF CallSound
      <4>7. QED
        BY <3>3, <4>3, <4>6 DEF Undisturbed
    <3>4. QED
      BY <3>2, <3>3
  <2>8. QED
    BY <1>5, <2>5, <2>6, <2>7 DEF StoreInv
<1>7. CASE remove_metadata(c)
  <2>1. /\ calls[c].at = "metadata"
        /\ metadata' = [metadata EXCEPT ![id] = Gone]
        /\ writes' = writes \ WritesTo("metadata", id)
        /\ calls' = [calls EXCEPT ![c] = Idle]
        /\ acknowledged' = [acknowledged EXCEPT ![id] = <<>>]
        /\ cases' = cases
    BY <1>7, <1>whose DEF remove_metadata
  <2>3. \A d \in Callers : calls'[d] = IF d = c THEN Idle ELSE calls[d]
    BY <1>1, <2>1 DEF StoreTypes
  <2>4. \A i \in Ids : /\ metadata'[i] = IF i = id THEN Gone ELSE metadata[i]
                       /\ acknowledged'[i] = IF i = id THEN <<>> ELSE acknowledged[i]
    BY <1>1, <2>1 DEF StoreTypes
  <2>5. StoreTypes'
    <3>1. <<>> \in Seq(Nat)
      OBVIOUS
    <3>2. QED
      BY <1>1, <1>5, <2>1, <3>1, FilesOfText DEF StoreTypes
  <2>6. Addressed'
    BY <1>1, <2>1, <2>4 DEF Addressed, StoreTypes, WritesTo, Pending
  <2>7. \A i \in Ids : CallsOn(i)' = CallsOn(i) \ {c}
    BY <2>3 DEF CallsOn
  <2>8. \A i \in Ids : WritesTo("cases", i)' = WritesTo("cases", i)
    BY <2>1 DEF WritesTo
  <2>9. ASSUME NEW i \in Ids, i \notin disturbed PROVE Undisturbed(i)'
    <3>1. Undisturbed(i)
      BY <2>9 DEF StoreInv
    <3>2. CASE i # id
      <4>1. CallsOn(i)' = CallsOn(i)
        BY <1>whose, <2>7, <3>2 DEF CallsOn
      <4>2. \A d \in CallsOn(i) : calls'[d] = calls[d]
        BY <1>whose, <2>3, <3>2 DEF CallsOn
      <4>3. cases'[i] = cases[i] /\ metadata'[i] = metadata[i]
            /\ acknowledged'[i] = acknowledged[i]
        BY <2>1, <2>4, <3>2
      <4>4. QED
        BY <2>8, <3>1, <4>1, <4>2, <4>3, Unconcerned
    <3>3. CASE i = id
      <4>1. CallSound(c) /\ \A d \in CallsOn(id) : d = c
        BY <1>3, <3>1, <3>3 DEF Undisturbed, CallsOn
      <4>2. CallsOn(id)' = {}
        BY <2>7, <4>1
      <4>3. cases[id] = Gone /\ WritesTo("cases", id) = {}
        BY <1>2, <1>whose, <2>1, <4>1 DEF CallSound
      <4>4. cases'[id] = Gone /\ WritesTo("cases", id)' = {}
            /\ acknowledged'[id] = <<>> /\ metadata'[id] = Gone
        BY <2>1, <2>4, <2>8, <4>3
      <4>5. (Keeps(i, acknowledged[i]) /\ Paired(i))'
        BY <3>3, <4>4 DEF Keeps, KeepsLog, Paired
      <4>6. QED
        BY <3>3, <4>2, <4>5 DEF Undisturbed
    <3>4. QED
      BY <3>2, <3>3
  <2>10. QED
    BY <1>5, <2>5, <2>6, <2>9 DEF StoreInv
<1>8. QED
  BY <1>6, <1>7

\* A text lands in its file.
LEMMA LandStep ==
  ASSUME StoreInv, NEW w \in writes, land(w)
  PROVE  StoreInv'
<1>1. StoreTypes /\ Addressed
  BY DEF StoreInv
<1>2. w \in Pending
  BY <1>1 DEF StoreTypes
<1>whose. PICK id \in Ids, log \in Logs : w.id = id /\ w.log = log
  BY <1>2 DEF Pending
<1>3. /\ writes' = writes \ {w}
      /\ UNCHANGED <<calls, acknowledged, disturbed, edits, faults>>
  BY DEF land
<1>4. \A i \in Ids : CallsOn(i)' = CallsOn(i)
  BY <1>3 DEF CallsOn
<1>5. \A file \in Files : \A f \in Overwrite(file, log) : f \in Files /\ f # Gone
  BY FilesOfText DEF Overwrite
<1>6. CASE w.dir = "cases"
  <2>1. PICK f \in Overwrite(cases[id], log) : cases' = [cases EXCEPT ![id] = f]
    BY <1>6, <1>whose DEF land
  <2>2. metadata' = metadata
    BY <1>6 DEF land
  <2>3. f \in Files /\ f # Gone
    BY <1>1, <1>5, <2>1 DEF StoreTypes
  <2>4. \A i \in Ids : cases'[i] = IF i = id THEN f ELSE cases[i]
    BY <1>1, <2>1 DEF StoreTypes
  <2>5. StoreTypes' /\ Addressed'
    <3>1. StoreTypes'
      BY <1>1, <1>3, <2>1, <2>2, <2>3 DEF StoreTypes
    <3>2. Addressed'
      BY <1>1, <1>3, <2>2, <2>3, <2>4 DEF Addressed, StoreTypes, Pending
    <3>3. QED
      BY <3>1, <3>2
  <2>6. ASSUME NEW i \in Ids, i \notin disturbed PROVE Undisturbed(i)'
    <3>1. Undisturbed(i)
      BY <2>6 DEF StoreInv
    <3>2. CASE i # id
      <4>1. WritesTo("cases", i)' = WritesTo("cases", i)
        BY <1>3, <1>whose, <3>2 DEF WritesTo
      <4>2. cases'[i] = cases[i]
        BY <2>4, <3>2
      <4>3. QED
        BY <1>3, <1>4, <2>2, <3>1, <4>1, <4>2, Unconcerned
    <3>3. CASE i = id
      <4>1. w \in WritesTo("cases", id)
        BY <1>6, <1>whose DEF WritesTo
      <4>2. cases[id] # Gone /\ f # Gone
        BY <1>1, <1>6, <1>whose, <2>3 DEF Addressed
      <4>3. ASSUME NEW l, Keeps(id, l) PROVE (Keeps(id, l))' 
        <5>1. /\ l # <<>> /\ cases[id] = Empty
              /\ WritesTo("cases", id) = {[dir |-> "cases", id |-> id, log |-> l]}
          BY <4>1, <4>3 DEF Keeps, KeepsLog
        <5>2. w = [dir |-> "cases", id |-> id, log |-> l]
          BY <4>1, <5>1
        <5>3. l = log
          BY <1>whose, <5>2
        <5>4. f = Text(l)
          BY <2>1, <5>1, <5>3 DEF Overwrite
        <5>5. WritesTo("cases", id)' = {}
          BY <1>3, <5>1, <5>2 DEF WritesTo
        <5>6. cases'[id] = Text(l)
          BY <2>4, <5>4
        <5>7. QED
          BY <5>1, <5>5, <5>6 DEF Keeps, KeepsLog
      <4>4. Paired(id) => Paired(id)'
        BY <2>2, <2>4, <4>2 DEF Paired
      <4>5. ASSUME NEW d \in CallsOn(id) PROVE CallSound(d)'
        <5>1. CallSound(d) /\ calls[d].id = id /\ calls' = calls
          BY <1>3, <3>1, <3>3, <4>5 DEF Undisturbed, CallsOn
        <5>2. acknowledged'[id] = acknowledged[id]
          BY <1>3
        <5>3. CASE calls[d].at = "case"
          <6>1. Keeps(id, acknowledged[id]) /\ Paired(id) /\ calls[d].op # "save"
            BY <4>1, <5>1, <5>3 DEF CallSound
          <6>2. PICK l : l = acknowledged[id]
            OBVIOUS
          <6>3. (Keeps(id, l))' /\ l = acknowledged'[id]
            BY <4>3, <5>2, <6>1, <6>2
          <6>4. (Keeps(id, acknowledged[id]))'
            BY <6>3 DEF Keeps
          <6>5. cases'[id] # Gone
            BY <2>3, <2>4
          <6>6. QED
            BY <4>4, <5>1, <5>3, <6>1, <6>4, <6>5 DEF CallSound
        <5>4. CASE calls[d].at = "metadata"
          <6>1. calls[d].op # "delete"
            BY <4>1, <5>1, <5>4 DEF CallSound
          <6>2. PICK l : l = calls[d].log
            OBVIOUS
          <6>3. calls[d].op = "save" => (Keeps(id, l))'
            BY <4>3, <5>1, <5>4, <6>2 DEF CallSound
          <6>4. QED
            BY <5>1, <5>4, <6>1, <6>2, <6>3 DEF CallSound, Keeps
        <5>5. calls[d].at \in Moments
          BY <1>1, <4>5, CallCases DEF CallsOn
        <5>6. QED
          BY <5>3, <5>4, <5>5 DEF Moments
      <4>6. ASSUME CallsOn(id) = {} PROVE (Keeps(id, acknowledged[id]) /\ Paired(id))'
        <5>1. Keeps(id, acknowledged[id]) /\ Paired(id)
          BY <3>1, <3>3, <4>6 DEF Undisturbed
        <5>2. PICK l : l = acknowledged[id]
          OBVIOUS
        <5>3. (Keeps(id, l))' /\ l = acknowledged'[id]
          BY <1>3, <4>3, <5>1, <5>2
        <5>4. (Keeps(id, acknowledged[id]))'
          BY <5>3 DEF Keeps
        <5>5. QED
          BY <4>4, <5>1, <5>4
      <4>7. QED
        BY <1>4, <3>1, <3>3, <4>5, <4>6 DEF Undisturbed
    <3>4. QED
      BY <3>2, <3>3
  <2>7. QED
    BY <1>3, <2>5, <2>6 DEF StoreInv
<1>7. CASE w.dir # "cases"
  <2>1. PICK f \in Overwrite(metadata[id], log) : metadata' = [metadata EXCEPT ![id] = f]
    BY <1>7, <1>whose DEF land
  <2>2. cases' = cases
    BY <1>7 DEF land
  <2>3. f \in Files /\ f # Gone
    BY <1>1, <1>5, <2>1 DEF StoreTypes
  <2>4. \A i \in Ids : metadata'[i] = IF i = id THEN f ELSE metadata[i]
    BY <1>1, <2>1 DEF StoreTypes
  <2>5. StoreTypes' /\ Addressed'
    <3>1. StoreTypes'
      BY <1>1, <1>3, <2>1, <2>2, <2>3 DEF StoreTypes
    <3>2. Addressed'
      BY <1>1, <1>3, <2>2, <2>3, <2>4 DEF Addressed, StoreTypes, Pending
    <3>3. QED
      BY <3>1, <3>2
  <2>6. metadata[id] # Gone
    BY <1>1, <1>7, <1>whose DEF Addressed
  <2>7. ASSUME NEW i \in Ids, i \notin disturbed PROVE Undisturbed(i)'
    <3>1. Undisturbed(i)
      BY <2>7 DEF StoreInv
    <3>2. WritesTo("cases", i)' = WritesTo("cases", i)
      BY <1>3, <1>7 DEF WritesTo
    <3>3. Paired(i)' <=> Paired(i)
      BY <2>2, <2>3, <2>4, <2>6 DEF Paired
    <3>4. \A l : (Keeps(i, l))' <=> Keeps(i, l)
      BY <2>2, <3>2 DEF Keeps
    <3>5. ASSUME NEW d \in CallsOn(i) PROVE CallSound(d)'
      <4>1. CallSound(d) /\ calls[d].id = i
        BY <3>1, <3>5 DEF Undisturbed, CallsOn
      <4>2. QED
        BY <1>3, <2>2, <3>2, <3>3, <4>1 DEF CallSound, Keeps
    <3>6. CallsOn(i) = {} => (Keeps(i, acknowledged[i]) /\ Paired(i))'
      BY <1>3, <2>2, <3>1, <3>2, <3>3 DEF Undisturbed, Keeps
    <3>7. QED
      BY <1>4, <3>1, <3>5, <3>6 DEF Undisturbed
  <2>8. QED
    BY <1>3, <2>5, <2>7 DEF StoreInv
<1>8. QED
  BY <1>6, <1>7

\* A fault disturbs the test cases it meets, and no other notices it.
LEMMA FaultSteps ==
  ASSUME StoreInv,
         \/ \E w \in writes : write_fails(w)
         \/ \E c \in Callers : call_fails(c)
         \/ crash
  PROVE  StoreInv'
<1>1. StoreTypes /\ Addressed
  BY DEF StoreInv
<1>2. /\ faults' \in 0..MaxFaults
      /\ UNCHANGED <<cases, metadata, acknowledged, edits>>
  BY <1>1, StoreAssumption DEF write_fails, call_fails, crash, Fault, StoreTypes
<1>3. writes' \subseteq writes
  BY DEF write_fails, call_fails, crash
<1>4. calls' \in [Callers -> {Idle} \cup SaveCalls \cup DeleteCalls]
      /\ \A c \in Callers : calls'[c] = calls[c] \/ calls'[c] = Idle
  BY <1>1 DEF write_fails, call_fails, crash, StoreTypes
<1>5. disturbed' \in SUBSET Ids /\ disturbed \subseteq disturbed'
  <2>1. CASE \E w \in writes : write_fails(w)
    BY <1>1, <2>1 DEF write_fails, Fault, StoreTypes, Pending
  <2>2. CASE \E c \in Callers : call_fails(c)
    BY <1>1, <2>2, CallCases DEF call_fails, Fault, StoreTypes
  <2>3. CASE crash
    BY <1>1, <2>3 DEF crash, Fault, StoreTypes
  <2>4. QED
    BY <2>1, <2>2, <2>3
<1>6. StoreTypes' /\ Addressed'
  <2>1. StoreTypes'
    BY <1>1, <1>2, <1>3, <1>4, <1>5 DEF StoreTypes
  <2>2. Addressed'
    BY <1>1, <1>2, <1>3 DEF Addressed
  <2>3. QED
    BY <2>1, <2>2
\* What is left undisturbed keeps its texts, and its call unless that fails at once.
<1>7. ASSUME NEW i \in Ids, i \notin disturbed'
      PROVE  /\ WritesTo("cases", i)' = WritesTo("cases", i)
             /\ \A c \in CallsOn(i) : calls'[c] # calls[c] => calls[c].at = "case"
  <2>1. CASE \E w \in writes : write_fails(w)
    BY <1>7, <2>1 DEF write_fails, Fault, WritesTo
  <2>2. CASE \E c \in Callers : call_fails(c)
    BY <1>1, <1>7, <2>2 DEF call_fails, Fault, WritesTo, StoreTypes, CallsOn
  <2>3. CASE crash
    BY <1>7, <2>3 DEF crash, Fault, WritesTo, CallsOn
  <2>4. QED
    BY <2>1, <2>2, <2>3
<1>8. ASSUME NEW i \in Ids, i \notin disturbed' PROVE Undisturbed(i)'
  <2>1. Undisturbed(i)
    BY <1>5, <1>8 DEF StoreInv
  <2>2. WritesTo("cases", i)' = WritesTo("cases", i)
    BY <1>7, <1>8
  <2>3. CASE \A c \in CallsOn(i) : calls'[c] = calls[c]
    <3>1. CallsOn(i)' = CallsOn(i)
      BY <1>4, <2>3 DEF CallsOn
    <3>2. QED
      BY <1>2, <2>1, <2>2, <2>3, <3>1, Unconcerned
  <2>4. CASE \E c \in CallsOn(i) : calls'[c] # calls[c]
    <3>1. PICK c \in CallsOn(i) : calls'[c] # calls[c] /\ calls[c].at = "case"
      BY <1>7, <1>8, <2>4
    <3>2. c \in Callers /\ calls[c].id = i /\ calls'[c] = Idle
      BY <1>4, <3>1 DEF CallsOn
    <3>3. CallsOn(i)' = {}
      BY <1>4, <2>1, <3>1, <3>2 DEF Undisturbed, CallsOn
    <3>4. Keeps(i, acknowledged[i]) /\ Paired(i)
      BY <2>1, <3>1, <3>2 DEF Undisturbed, CallSound
    <3>5. (Keeps(i, acknowledged[i]) /\ Paired(i))'
      BY <1>2, <2>2, <3>4 DEF Keeps, Paired
    <3>6. QED
      BY <3>3, <3>5 DEF Undisturbed
  <2>5. QED
    BY <2>3, <2>4
<1>9. QED
  BY <1>6, <1>8 DEF StoreInv

\* Every step keeps the invariant.
LEMMA StoreNextInv == StoreInv /\ [StoreNext]_storeVars => StoreInv'
<1> SUFFICES ASSUME StoreInv, [StoreNext]_storeVars PROVE StoreInv'
  OBVIOUS
<1>1. CASE StoreNext
  BY <1>1, BeginSteps, SaveSteps, DeleteSteps, LandStep, FaultSteps DEF StoreNext
<1>2. CASE UNCHANGED storeVars
  <2>1. StoreTypes' /\ Addressed'
    BY <1>2 DEF StoreInv, StoreTypes, Addressed, storeVars
  <2>2. ASSUME NEW i \in Ids, i \notin disturbed PROVE Undisturbed(i)'
    <3>1. Undisturbed(i)
      BY <2>2 DEF StoreInv
    <3>2. CallsOn(i)' = CallsOn(i) /\ WritesTo("cases", i)' = WritesTo("cases", i)
      BY <1>2 DEF CallsOn, WritesTo, storeVars
    <3>3. QED
      BY <1>2, <3>1, <3>2, Unconcerned DEF storeVars
  <2>3. disturbed' = disturbed
    BY <1>2 DEF storeVars
  <2>4. QED
    BY <2>1, <2>2, <2>3 DEF StoreInv
<1>3. QED
  BY <1>1, <1>2

\* The test cases of FileSystemStorage keep the invariant, whatever overlaps or fails.
THEOREM StoreInvariant == StoreSpec => []StoreInv
<1>1. QED
  BY StoreInitInv, StoreNextInv, PTL DEF StoreSpec

\* A test case whose calls came one after the other and met no fault is on disk as the last
\* call that returned Ok left it, once its texts have landed.
THEOREM WhatIsAcknowledgedIsKept == StoreSpec => []StoreSettles
<1>1. ASSUME StoreInv PROVE StoreSettles
  <2>1. SUFFICES ASSUME NEW id \in Ids, id \notin disturbed, CallsOn(id) = {},
                        \A w \in writes : w.id # id
                 PROVE  /\ cases[id] = IF acknowledged[id] = <<>> THEN Gone
                                       ELSE Text(acknowledged[id])
                        /\ metadata[id] = Gone <=> cases[id] = Gone
    BY DEF StoreSettles
  <2>2. Keeps(id, acknowledged[id]) /\ Paired(id)
    BY <1>1, <2>1 DEF StoreInv, Undisturbed
  <2>3. WritesTo("cases", id) = {}
    BY <2>1 DEF WritesTo
  <2>4. QED
    BY <2>2, <2>3 DEF Keeps, KeepsLog, Paired
<1>2. QED
  BY <1>1, StoreInvariant, PTL

\* The type invariant: a text is only ever on its way to a file that is there.
THEOREM StoreTypeCorrect == StoreSpec => []StoreTypeOK
<1>1. ASSUME StoreInv PROVE StoreTypeOK
  <2>1. StoreTypes /\ Addressed
    BY <1>1 DEF StoreInv
  <2>2. \A f \in Files : f.kind \in {"gone", "empty", "garbled", "text"}
    BY DEF Files
  <2>3. \A c \in Callers : calls[c].op \in {"idle", "save", "delete"}
    BY <2>1, CallCases DEF Idle
  <2>4. QED
    BY <2>1, <2>2, <2>3 DEF StoreTypeOK, StoreTypes, Addressed
<1>2. QED
  BY <1>1, StoreInvariant, PTL

-----------------------------------------------------------------------------
(***************************************************************************)
(* RealTimeMonitor: its parts agree though no lock spans them              *)
(***************************************************************************)
Progress == [completed : Nat, failed : Nat, status : ExecutionStatus]
ChangeCalls == [op : Changing, x : Executions, step : {"token", "channel", "tracker", "stream"}]
OtherCalls == [op : {"update_progress", "report_test_completion", "shutdown_all"},
               x : Executions \cup {"all"},
               step : {"stream", "channel", "panicked", "done", "cancelling"}]
MonitorCalls == ChangeCalls \cup OtherCalls

MonitorTypes ==
    /\ executions \in [Executions -> Progress \cup {Untracked}]
    /\ metrics \in [active : Nat, samples : 0..100]
    /\ tokens \in [Executions -> {"none", "live", "cancelled"}]
    /\ channels \subseteq Executions /\ overlapped \subseteq Executions
    /\ at \in [Clients -> MonitorCalls \cup {Away}]

\* c is inside an operation that starts, completes or cancels x.
Changes(c, x) == at[c].op \in Changing /\ at[c].x = x
Matched(x) == tokens[x] # "none" <=> executions[x] # Untracked

\* How far apart the parts are at each step of such an operation.
StepAgrees(c, x) ==
    /\ Inside(c, "start_monitoring", "token") =>
          executions[x] # Untracked /\ executions[x].status # "Cancelled"
    /\ Inside(c, "start_monitoring", "channel") =>
          executions[x] # Untracked /\ executions[x].status # "Cancelled" /\ tokens[x] = "live"
    /\ Inside(c, "complete_monitoring", "token") => executions[x] = Untracked
    /\ Inside(c, "complete_monitoring", "stream") =>
          executions[x] = Untracked /\ tokens[x] = "none"
    /\ Inside(c, "cancel_execution", "tracker") => Matched(x) /\ tokens[x] # "live"
    /\ Inside(c, "cancel_execution", "stream") => Matched(x)

Agrees(x) ==
    /\ \A c, d \in Clients : Changes(c, x) /\ Changes(d, x) => c = d
    /\ executions[x].status = "Cancelled" => tokens[x] # "live"
    /\ (\A c \in Clients : ~Changes(c, x)) => Matched(x)
    /\ \A c \in Clients : Changes(c, x) => StepAgrees(c, x)

Counted == IsFiniteSet(Tracked) /\ CountsAgree

\* The inductive invariant.
MonitorInv == MonitorTypes /\ Counted /\ \A x \in Executions \ overlapped : Agrees(x)

\* An operation that begins: where its client is, and that it is alone with its execution or
\* the execution is marked.
LEMMA CallBegins ==
  ASSUME MonitorTypes, NEW c \in Clients, NEW op, NEW x, NEW step,
         [op |-> op, x |-> x, step |-> step] \in MonitorCalls,
         Call(c, op, x, step)
  PROVE  /\ at' \in [Clients -> MonitorCalls \cup {Away}]
         /\ overlapped' \subseteq Executions /\ overlapped \subseteq overlapped'
         /\ \A d \in Clients \ {c} : at'[d] = at[d]
         /\ at'[c].op = op /\ at'[c].x = x /\ at'[c].step = step
         /\ \A y : ~Changes(c, y)
         /\ op \in Changing /\ x \notin overlapped' => \A d \in Clients : ~Changes(d, x)
<1> DEFINE call == [op |-> op, x |-> x, step |-> step]
<1>1. at \in [Clients -> MonitorCalls \cup {Away}] /\ overlapped \subseteq Executions
  BY DEF MonitorTypes
<1>2. at[c] = Away /\ at' = [at EXCEPT ![c] = call]
  BY DEF Call
<1>3. call.op = op /\ call.x = x /\ call.step = step
  OBVIOUS
<1> HIDE DEF call
<1>4. at' \in [Clients -> MonitorCalls \cup {Away}]
  BY <1>1, <1>2 DEF call
<1>5. \A d \in Clients : at'[d] = IF d = c THEN call ELSE at[d]
  BY <1>1, <1>2
<1>6. overlapped' \subseteq Executions /\ overlapped \subseteq overlapped'
  <2>1. op \in Changing => x \in Executions
    BY <1>3 DEF MonitorCalls, ChangeCalls, OtherCalls, Changing, call
  <2>2. QED
    BY <1>1, <2>1 DEF Call
<1>7. \A y : ~Changes(c, y)
  BY <1>2 DEF Changes, Away, Changing
<1>8. ASSUME op \in Changing, x \notin overlapped' PROVE \A d \in Clients : ~Changes(d, x)
  BY <1>8 DEF Call, Changes
<1>9. QED
  BY <1>3, <1>4, <1>5, <1>6, <1>7, <1>8

\* An operation that goes on or returns.
LEMMA CallGoesOn ==
  ASSUME MonitorTypes, NEW c \in Clients, at[c] # Away,
         \/ \E step \in {"channel", "stream"} : Moves(c, step)
         \/ Returns(c)
  PROVE  /\ at' \in [Clients -> MonitorCalls \cup {Away}]
         /\ \A d \in Clients \ {c} : at'[d] = at[d]
         /\ \A y : Changes(c, y)' => Changes(c, y)
         /\ \A step \in {"channel", "stream"} :
               Moves(c, step) => /\ at'[c].op = at[c].op /\ at'[c].x = at[c].x
                                 /\ at'[c].step = step
         /\ Returns(c) => at'[c] = Away /\ \A y : ~Changes(c, y)'
<1>1. at \in [Clients -> MonitorCalls \cup {Away}] /\ at[c] \in MonitorCalls
  BY DEF MonitorTypes
<1>2. \A d \in Clients \ {c} : at'[d] = at[d]
  BY <1>1 DEF Moves, Returns
<1>3. ASSUME NEW step \in {"channel", "stream"}, Moves(c, step)
      PROVE  /\ at'[c] \in MonitorCalls /\ at'[c].op = at[c].op /\ at'[c].x = at[c].x
             /\ at'[c].step = step
             /\ at' \in [Clients -> MonitorCalls \cup {Away}]
  <2>1. at' = [at EXCEPT ![c] = [at[c] EXCEPT !.step = step]]
    BY <1>3 DEF Moves
  <2>2. PICK next : next = [at[c] EXCEPT !.step = step]
    OBVIOUS
  <2>3. next \in MonitorCalls /\ next.op = at[c].op /\ next.x = at[c].x /\ next.step = step
    BY <1>1, <2>2 DEF MonitorCalls, ChangeCalls, OtherCalls
  <2>4. QED
    BY <1>1, <2>1, <2>2, <2>3
<1>4. ASSUME Returns(c)
      PROVE  at'[c] = Away /\ at' \in [Clients -> MonitorCalls \cup {Away}]
             /\ \A y : ~Changes(c, y)'
  <2>1. at'[c] = Away /\ at' \in [Clients -> MonitorCalls \cup {Away}]
    BY <1>1, <1>4 DEF Returns
  <2>2. QED
    BY <2>1 DEF Changes, Away, Changing
<1>5. QED
  BY <1>2, <1>3, <1>4 DEF Changes

\* What does not touch the parts an execution is in keeps them in agreement: another status
\* than Cancelled changes nothing.
LEMMA Untouched ==
  ASSUME NEW x \in Executions, Agrees(x),
         executions'[x] # Untracked <=> executions[x] # Untracked,
         executions'[x].status = "Cancelled" => executions[x].status = "Cancelled",
         tokens'[x] = tokens[x],
         \A c \in Clients : Changes(c, x)' <=> Changes(c, x),
         \A c \in Clients : Changes(c, x) => at'[c] = at[c]
  PROVE  Agrees(x)'
<1>1. Matched(x)' <=> Matched(x)
  BY DEF Matched
<1>2. ASSUME NEW c \in Clients, Changes(c, x) PROVE StepAgrees(c, x)'
  <2>1. StepAgrees(c, x) /\ at'[c] = at[c]
    BY <1>2 DEF Agrees
  <2>2. QED
    BY <1>1, <2>1 DEF StepAgrees, Inside
<1>3. QED
  BY <1>1, <1>2 DEF Agrees

\* An operation that begins puts its client in charge of the execution.
LEMMA ChangeBegins ==
  ASSUME NEW c \in Clients, NEW x \in Executions,
         \A d \in Clients : ~Changes(d, x),
         \A d \in Clients \ {c} : at'[d] = at[d],
         executions'[x].status = "Cancelled" => tokens'[x] # "live",
         at'[c].op \in Changing, at'[c].x = x, StepAgrees(c, x)'
  PROVE  Agrees(x)'
<1>1. Changes(c, x)' /\ \A d \in Clients : Changes(d, x)' => d = c
  BY DEF Changes
<1>2. QED
  BY <1>1 DEF Agrees

\* The client in charge goes on.
LEMMA ChangeGoesOn ==
  ASSUME NEW c \in Clients, NEW x \in Executions, Agrees(x), Changes(c, x),
         \A d \in Clients \ {c} : at'[d] = at[d],
         executions'[x].status = "Cancelled" => tokens'[x] # "live",
         \/ Changes(c, x)' /\ StepAgrees(c, x)'
         \/ ~Changes(c, x)' /\ Matched(x)'
  PROVE  Agrees(x)'
<1>1. \A d \in Clients : Changes(d, x)' => d = c
  BY DEF Agrees, Changes
<1>2. QED
  BY <1>1 DEF Agrees

\* The other executions do not notice.
LEMMA OthersAgree ==
  ASSUME NEW c \in Clients, NEW x \in Executions, Agrees(x),
         ~Changes(c, x), ~Changes(c, x)',
         \A d \in Clients \ {c} : at'[d] = at[d],
         executions'[x] # Untracked <=> executions[x] # Untracked,
         executions'[x].status = "Cancelled" => executions[x].status = "Cancelled",
         tokens'[x] = tokens[x]
  PROVE  Agrees(x)'
<1>1. \A d \in Clients : /\ Changes(d, x)' <=> Changes(d, x)
                         /\ Changes(d, x) => at'[d] = at[d]
  BY DEF Changes
<1>2. QED
  BY <1>1, Untouched

\* What is untracked is no progress.
LEMMA ProgressFacts ==
  /\ \A q \in Progress : q # Untracked
  /\ Untracked.status = "Untracked" /\ "Untracked" \notin ExecutionStatus
  /\ \A completed, failed \in Nat, status \in ExecutionStatus :
        [completed |-> completed, failed |-> failed, status |-> status] \in Progress
BY DEF Progress, Untracked, ExecutionStatus

\* A step that tracks the same executions, none with more failures than completions, counts
\* them as before.
LEMMA SameCounted ==
  ASSUME Counted, executions' \in [Executions -> Progress \cup {Untracked}],
         \A x \in Executions : executions'[x] # Untracked <=> executions[x] # Untracked,
         \A x \in Executions : executions[x] # Untracked =>
             executions'[x].failed <= executions'[x].completed,
         UNCHANGED metrics
  PROVE  Counted'
<1>1. Tracked' = Tracked
  BY DEF Tracked
<1>2. \A x \in Tracked' : executions'[x].failed <= executions'[x].completed
  BY <1>1 DEF Tracked
<1>3. QED
  BY <1>1, <1>2 DEF Counted, CountsAgree

\* What the operations do to the progress of the executions and to the counts.
LEMMA StartCounts ==
  ASSUME MonitorTypes, Counted, NEW c \in Clients, NEW x \in Executions, add_execution(c, x)
  PROVE  /\ executions' \in [Executions -> Progress \cup {Untracked}]
         /\ metrics' \in [active : Nat, samples : 0..100]
         /\ Counted'
<1>1. PICK new : new = [completed |-> 0, failed |-> 0, status |-> "Starting"]
  OBVIOUS
<1>2. new \in Progress /\ new # Untracked /\ new.failed = 0 /\ new.completed = 0
  BY <1>1, ProgressFacts DEF ExecutionStatus
<1>3. executions' = [executions EXCEPT ![x] = new]
  BY <1>1 DEF add_execution
<1>4. /\ executions' \in [Executions -> Progress \cup {Untracked}]
      /\ \A y \in Executions : executions'[y] = IF y = x THEN new ELSE executions[y]
  BY <1>2, <1>3 DEF MonitorTypes
<1>5. Tracked' = Tracked \cup {x}
  BY <1>2, <1>4 DEF Tracked
<1>6. IsFiniteSet(Tracked') /\ Cardinality(Tracked') \in Nat
  BY <1>5, FS_AddElement, FS_CardinalityType DEF Counted
<1>7. metrics' = [metrics EXCEPT !.active = Cardinality(Tracked')]
  BY <1>5 DEF add_execution
<1>8. metrics' \in [active : Nat, samples : 0..100] /\ metrics'.active = Cardinality(Tracked')
  BY <1>6, <1>7 DEF MonitorTypes
<1>9. \A y \in Tracked' : executions'[y].failed <= executions'[y].completed
  BY <1>2, <1>4, <1>5 DEF Counted, CountsAgree, Tracked
<1>10. Tracked' # {}
  BY <1>5
<1>11. QED
  BY <1>4, <1>6, <1>8, <1>9, <1>10 DEF Counted, CountsAgree

\* One less is counted, whether the execution was tracked or nothing was.
LEMMA CompletionCounts ==
  ASSUME MonitorTypes, Counted, NEW c \in Clients, NEW x \in Executions,
         complete_execution(c, x)
  PROVE  /\ executions' \in [Executions -> Progress \cup {Untracked}]
         /\ metrics' \in [active : Nat, samples : 0..100]
         /\ Counted'
<1>1. executions' = [executions EXCEPT ![x] = Untracked]
  BY DEF complete_execution
<1>2. /\ executions' \in [Executions -> Progress \cup {Untracked}]
      /\ \A y \in Executions : executions'[y] = IF y = x THEN Untracked ELSE executions[y]
  BY <1>1 DEF MonitorTypes
<1>3. Tracked' = Tracked \ {x}
  BY <1>2 DEF Tracked
<1>4. /\ IsFiniteSet(Tracked) /\ Cardinality(Tracked) \in Nat
      /\ Tracked # {} => Cardinality(Tracked) > 0
  BY FS_CardinalityType, FS_EmptySet DEF Counted
<1>5. /\ IsFiniteSet(Tracked')
      /\ Cardinality(Tracked') = IF x \in Tracked THEN Cardinality(Tracked) - 1
                                 ELSE Cardinality(Tracked)
  BY <1>3, <1>4, FS_RemoveElement
<1>6. PICK active, samples : metrics' = [active |-> active, samples |-> samples]
          /\ active = (IF Tracked = {} THEN 0 ELSE Cardinality(Tracked) - 1)
          /\ samples = (IF x \in Tracked /\ metrics.samples < 100
                        THEN metrics.samples + 1 ELSE metrics.samples)
  BY DEF complete_execution
<1>7. active \in Nat
  BY <1>4, <1>6
<1>8. samples \in 0..100
  <2>1. metrics.samples \in 0..100
    BY DEF MonitorTypes
  <2>2. QED
    BY <1>6, <2>1
<1>9. metrics' \in [active : Nat, samples : 0..100] /\ metrics'.active = active
  BY <1>6, <1>7, <1>8
<1>10. active <= Cardinality(Tracked')
  BY <1>4, <1>5, <1>6, FS_EmptySet
<1>11. Tracked' = {} => active = 0
  BY <1>4, <1>5, <1>6, FS_EmptySet
<1>12. \A y \in Tracked' : executions'[y].failed <= executions'[y].completed
  BY <1>2, <1>3 DEF Counted, CountsAgree, Tracked
<1>13. QED
  BY <1>2, <1>5, <1>9, <1>10, <1>11, <1>12 DEF Counted, CountsAgree

\* An operation begins to start, complete or cancel an execution.
LEMMA ChangeSteps ==
  ASSUME MonitorInv, NEW c \in Clients, NEW x \in Executions,
         add_execution(c, x) \/ complete_execution(c, x) \/ cancel_token(c, x)
  PROVE  MonitorInv'
<1>1. MonitorTypes /\ Counted
  BY DEF MonitorInv
<1>2. PICK op \in Changing, step \in {"token", "tracker"} :
        /\ Call(c, op, x, step)
        /\ \/ op = "start_monitoring" /\ step = "token" /\ add_execution(c, x)
           \/ op = "complete_monitoring" /\ step = "token" /\ complete_execution(c, x)
           \/ op = "cancel_execution" /\ step = "tracker" /\ cancel_token(c, x)
  BY DEF add_execution, complete_execution, cancel_token, Changing
<1>3. [op |-> op, x |-> x, step |-> step] \in MonitorCalls
  BY <1>2 DEF MonitorCalls, ChangeCalls
<1>4. /\ at' \in [Clients -> MonitorCalls \cup {Away}]
      /\ overlapped' \subseteq Executions /\ overlapped \subseteq overlapped'
      /\ \A d \in Clients \ {c} : at'[d] = at[d]
      /\ at'[c].op = op /\ at'[c].x = x /\ at'[c].step = step
      /\ \A y : ~Changes(c, y)
      /\ x \notin overlapped' => \A d \in Clients : ~Changes(d, x)
  BY <1>1, <1>2, <1>3, CallBegins
<1>5. /\ executions' \in [Executions -> Progress \cup {Untracked}]
      /\ metrics' \in [active : Nat, samples : 0..100]
      /\ Counted'
  <2>1. CASE cancel_token(c, x)
    <3>1. UNCHANGED <<executions, metrics>>
      BY <2>1 DEF cancel_token
    <3>2. \A y \in Executions : executions[y] # Untracked =>
              executions'[y].failed <= executions'[y].completed
      BY <1>1, <3>1 DEF Counted, CountsAgree, Tracked
    <3>3. QED
      BY <1>1, <3>1, <3>2, SameCounted DEF MonitorTypes
  <2>2. QED
    BY <1>1, <1>2, <2>1, StartCounts, CompletionCounts
<1>6. /\ tokens' \in [Executions -> {"none", "live", "cancelled"}]
      /\ channels' \subseteq Executions
      /\ \A y \in Executions \ {x} : tokens'[y] = tokens[y] /\ executions'[y] = executions[y]
  BY <1>1, <1>2 DEF MonitorTypes, add_execution, complete_execution, cancel_token
<1>7. MonitorTypes'
  BY <1>4, <1>5, <1>6 DEF MonitorTypes
<1>8. ASSUME NEW y \in Executions, y \notin overlapped' PROVE Agrees(y)'
  <2>1. Agrees(y)
    BY <1>4, <1>8 DEF MonitorInv
  <2>2. CASE y # x
    <3>1. ~Changes(c, y) /\ ~Changes(c, y)'
      BY <1>4, <2>2 DEF Changes
    <3>2. QED
      BY <1>4, <1>6, <2>1, <2>2, <3>1, OthersAgree
  <2>3. CASE y = x
    <3>1. \A d \in Clients : ~Changes(d, x)
      BY <1>4, <1>8, <2>3
    <3>2. Matched(x) /\ (executions[x].status = "Cancelled" => tokens[x] # "live")
      BY <2>1, <2>3, <3>1 DEF Agrees
    <3>3. CASE add_execution(c, x)
      <4>1. executions'[x].status = "Starting" /\ executions'[x] # Untracked
        BY <1>1, <3>3 DEF add_execution, MonitorTypes, Untracked
      <4>2. op = "start_monitoring" /\ step = "token"
        BY <1>2, <1>4, <3>3 DEF add_execution, Call
      <4>3. StepAgrees(c, x)'
        BY <1>4, <4>1, <4>2 DEF StepAgrees, Inside
      <4>4. QED
        BY <1>4, <2>3, <3>1, <4>1, <4>3, ChangeBegins
    <3>4. CASE complete_execution(c, x)
      <4>1. executions'[x] = Untracked
        BY <1>1, <3>4 DEF complete_execution, MonitorTypes
      <4>2. op = "complete_monitoring" /\ step = "token"
        BY <1>2, <1>4, <3>4 DEF complete_execution, Call
      <4>3. StepAgrees(c, x)'
        BY <1>4, <4>1, <4>2 DEF StepAgrees, Inside
      <4>4. QED
        BY <1>4, <2>3, <3>1, <4>1, <4>3, ChangeBegins DEF Untracked
    <3>5. CASE cancel_token(c, x)
      <4>1. /\ executions' = executions
            /\ tokens'[x] = IF tokens[x] = "none" THEN tokens[x] ELSE "cancelled"
        BY <1>1, <3>5 DEF cancel_token, MonitorTypes
      <4>2. op = "cancel_execution" /\ step = "tracker"
        BY <1>2, <1>4, <3>5 DEF cancel_token, Call
      <4>3. Matched(x)' /\ tokens'[x] # "live"
        BY <3>2, <4>1 DEF Matched
      <4>4. StepAgrees(c, x)'
        BY <1>4, <4>2, <4>3 DEF StepAgrees, Inside
      <4>5. QED
        BY <1>4, <2>3, <3>1, <4>3, <4>4, ChangeBegins
    <3>6. QED
      BY <3>3, <3>4, <3>5
  <2>4. QED
    BY <2>2, <2>3
<1>9. QED
  BY <1>5, <1>7, <1>8 DEF MonitorInv

\* What a report makes of the progress of an execution.
Reported(old, new) ==
    \/ new = old
    \/ /\ old # Untracked /\ new \in Progress
       /\ new.status \in {old.status, "Running"}
       /\ new.failed <= new.completed

\* An operation that reports, or shuts down, begins: it leaves every execution tracked or not.
LEMMA ReportSteps ==
  ASSUME MonitorInv, NEW c \in Clients,
         \/ \E x \in Executions : update_progress(c, x)
         \/ \E x \in Executions, success \in BOOLEAN : record_test_completion(c, x, success)
         \/ shutdown_all(c)
  PROVE  MonitorInv'
<1>1. MonitorTypes /\ Counted
  BY DEF MonitorInv
<1>2. PICK op \in {"update_progress", "report_test_completion", "shutdown_all"},
           x \in Executions \cup {"all"}, step \in {"stream", "panicked", "done", "cancelling"} :
        Call(c, op, x, step)
  BY DEF update_progress, record_test_completion, shutdown_all
<1>3. [op |-> op, x |-> x, step |-> step] \in MonitorCalls /\ op \notin Changing
  BY <1>2 DEF MonitorCalls, OtherCalls, Changing
<1>4. /\ at' \in [Clients -> MonitorCalls \cup {Away}]
      /\ overlapped' \subseteq Executions /\ overlapped \subseteq overlapped'
      /\ \A d \in Clients \ {c} : at'[d] = at[d]
      /\ at'[c].op = op
      /\ \A y : ~Changes(c, y)
  BY <1>1, <1>2, <1>3, CallBegins
<1>5. /\ UNCHANGED <<metrics, tokens, channels>>
      /\ executions' \in [Executions -> Progress \cup {Untracked}]
      /\ \A y \in Executions : Reported(executions[y], executions'[y])
  <2>1. \A y \in Executions : executions[y] # Untracked =>
              /\ executions[y] \in Progress /\ executions[y].failed <= executions[y].completed
    BY <1>1 DEF MonitorTypes, Counted, CountsAgree, Tracked
  <2>2. ASSUME NEW z \in Executions, update_progress(c, z)
        PROVE  /\ executions' \in [Executions -> Progress \cup {Untracked}]
               /\ \A y \in Executions : Reported(executions[y], executions'[y])
    <3>1. executions[z] # Untracked
      BY <2>2 DEF update_progress, Tracked
    <3>2. PICK new : new = [executions[z] EXCEPT !.status = "Running"]
      OBVIOUS
    <3>3. new \in Progress /\ new.status = "Running" /\ new.failed <= new.completed
      BY <2>1, <3>1, <3>2 DEF Progress, ExecutionStatus
    <3>4. executions' = [executions EXCEPT ![z] = new]
      BY <2>2, <3>2 DEF update_progress
    <3>5. QED
      BY <1>1, <3>1, <3>3, <3>4 DEF MonitorTypes, Reported
  <2>3. ASSUME NEW z \in Executions, NEW success \in BOOLEAN,
               record_test_completion(c, z, success)
        PROVE  /\ executions' \in [Executions -> Progress \cup {Untracked}]
               /\ \A y \in Executions : Reported(executions[y], executions'[y])
    <3>1. CASE executions[z] = Untracked
      <4>1. executions' = executions
        BY <2>3, <3>1 DEF record_test_completion, Tracked
      <4>2. QED
        BY <1>1, <4>1 DEF MonitorTypes, Reported
    <3>2. CASE executions[z] # Untracked
      <4>0. PICK more \in {0, 1} : more = IF success THEN 0 ELSE 1
        OBVIOUS
      <4>1. PICK new : new = [executions[z] EXCEPT !.completed = executions[z].completed + 1,
                                                   !.failed = executions[z].failed + more]
        OBVIOUS
      <4>2. new \in Progress /\ new.status = executions[z].status
            /\ new.failed <= new.completed
        <5>1. PICK completed \in Nat, failed \in Nat, status \in ExecutionStatus :
                executions[z] = [completed |-> completed, failed |-> failed, status |-> status]
          BY <2>1, <3>2 DEF Progress
        <5>2. failed <= completed
          BY <2>1, <3>2, <5>1
        <5>3. new = [completed |-> completed + 1, failed |-> failed + more, status |-> status]
          <6>1. PICK mid : mid = [executions[z] EXCEPT !.completed = executions[z].completed + 1]
            OBVIOUS
          <6>2. mid = [completed |-> completed + 1, failed |-> failed, status |-> status]
            BY <5>1, <6>1
          <6>3. new = [mid EXCEPT !.failed = executions[z].failed + more]
            BY <4>1, <6>1
          <6>4. QED
            BY <5>1, <6>2, <6>3
        <5>4. completed + 1 \in Nat /\ failed + more \in Nat /\ failed + more <= completed + 1
          BY <5>2
        <5>5. QED
          BY <5>1, <5>3, <5>4, ProgressFacts
      <4>3. executions' = [executions EXCEPT ![z] = new]
        <5>1. executions[z].failed + more =
                  IF success THEN executions[z].failed ELSE executions[z].failed + 1
          BY <2>1, <3>2, <4>0 DEF Progress
        <5>2. QED
          BY <2>3, <3>2, <4>1, <5>1 DEF record_test_completion, Tracked
      <4>4. QED
        BY <1>1, <3>2, <4>2, <4>3 DEF MonitorTypes, Reported
    <3>3. QED
      BY <3>1, <3>2
  <2>4. CASE shutdown_all(c)
    BY <1>1, <2>4 DEF shutdown_all, MonitorTypes, Reported
  <2>5. UNCHANGED <<metrics, tokens, channels>>
    BY DEF update_progress, record_test_completion, shutdown_all
  <2>6. QED
    BY <2>2, <2>3, <2>4, <2>5
<1>6. \A y \in Executions : /\ executions'[y] # Untracked <=> executions[y] # Untracked
                            /\ executions'[y].status = "Cancelled" =>
                                  executions[y].status = "Cancelled"
                            /\ executions[y] # Untracked =>
                                  executions'[y].failed <= executions'[y].completed
  BY <1>1, <1>5, ProgressFacts DEF Counted, CountsAgree, Tracked, Reported
<1>7. MonitorTypes'
  BY <1>1, <1>4, <1>5 DEF MonitorTypes
<1>8. Counted'
  BY <1>1, <1>5, <1>6, SameCounted
<1>9. ASSUME NEW y \in Executions, y \notin overlapped' PROVE Agrees(y)'
  <2>1. Agrees(y)
    BY <1>4, <1>9 DEF MonitorInv
  <2>2. ~Changes(c, y) /\ ~Changes(c, y)'
    BY <1>3, <1>4 DEF Changes
  <2>3. QED
    BY <1>4, <1>5, <1>6, <2>1, <2>2, OthersAgree
<1>10. QED
  BY <1>7, <1>8, <1>9 DEF MonitorInv

\* An operation goes on to the next part.
LEMMA PartSteps ==
  ASSUME MonitorInv, NEW c \in Clients, Proceed(c)
  PROVE  MonitorInv'
<1>1. MonitorTypes /\ Counted
  BY DEF MonitorInv
<1>2. /\ at[c] # Away /\ UNCHANGED <<metrics, overlapped, operations>>
      /\ (\E step \in {"channel", "stream"} : Moves(c, step)) \/ Returns(c)
  BY DEF Proceed, create_token, create_channel, remove_token, cancel_tracked, stream,
         complete_stream, shutdown_done, Inside, Away
<1>3. /\ at' \in [Clients -> MonitorCalls \cup {Away}]
      /\ \A d \in Clients \ {c} : at'[d] = at[d]
      /\ \A y : Changes(c, y)' => Changes(c, y)
      /\ \A step \in {"channel", "stream"} :
            Moves(c, step) => /\ at'[c].op = at[c].op /\ at'[c].x = at[c].x
                              /\ at'[c].step = step
      /\ Returns(c) => at'[c] = Away /\ \A y : ~Changes(c, y)'
  BY <1>1, <1>2, CallGoesOn
<1>whose. PICK x \in Executions \cup {"all"} : at[c].x = x
  BY <1>1, <1>2 DEF MonitorTypes, MonitorCalls, ChangeCalls, OtherCalls
<1>4. /\ executions' \in [Executions -> Progress \cup {Untracked}]
      /\ \A y \in Executions :
            /\ executions'[y] # Untracked <=> executions[y] # Untracked
            /\ executions[y] # Untracked => executions'[y].failed <= executions'[y].completed
            /\ y # x => executions'[y] = executions[y]
      /\ ~cancel_tracked(c) => executions' = executions
  <2>1. CASE executions' = executions
    BY <1>1, <2>1 DEF MonitorTypes, Counted, CountsAgree, Tracked
  <2>2. CASE executions' # executions
    <3>1. x \in Tracked /\ executions' = [executions EXCEPT ![x].status = "Cancelled"]
          /\ cancel_tracked(c)
      BY <1>whose, <2>2 DEF Proceed, create_token, create_channel, remove_token,
         cancel_tracked, stream, complete_stream, shutdown_done
    <3>2. x \in Executions /\ executions[x] # Untracked /\ executions[x] \in Progress
          /\ executions[x].failed <= executions[x].completed
      BY <1>1, <3>1 DEF MonitorTypes, Counted, CountsAgree, Tracked
    <3>3. PICK new : new = [executions[x] EXCEPT !.status = "Cancelled"]
      OBVIOUS
    <3>4. new \in Progress /\ new # Untracked /\ new.failed <= new.completed
      <4>1. new \in Progress /\ new.failed <= new.completed
        BY <3>2, <3>3 DEF Progress, ExecutionStatus
      <4>2. QED
        BY <4>1, ProgressFacts
    <3>5. executions' = [executions EXCEPT ![x] = new]
      BY <3>1, <3>3
    <3>6. \A y \in Executions : executions[y] # Untracked =>
              executions[y].failed <= executions[y].completed
      BY <1>1 DEF Counted, CountsAgree, Tracked
    <3>7. QED
      BY <1>1, <3>1, <3>2, <3>4, <3>5, <3>6 DEF MonitorTypes
  <2>3. QED
    BY <2>1, <2>2
<1>5. /\ tokens' \in [Executions -> {"none", "live", "cancelled"}]
      /\ \A y \in Executions : y # x => tokens'[y] = tokens[y]
      /\ ~create_token(c) /\ ~remove_token(c) => tokens' = tokens
  <2>1. CASE tokens' = tokens
    BY <1>1, <2>1 DEF MonitorTypes
  <2>2. CASE create_token(c)
    BY <1>1, <1>whose, <2>2 DEF create_token, MonitorTypes
  <2>3. CASE remove_token(c)
    BY <1>1, <1>whose, <2>3 DEF remove_token, MonitorTypes
  <2>4. \/ tokens' = tokens \/ create_token(c) \/ remove_token(c)
    BY DEF Proceed, create_channel, cancel_tracked, stream, complete_stream, shutdown_done
  <2>5. QED
    BY <2>1, <2>2, <2>3, <2>4
<1>6. ASSUME NEW y \in Executions, Changes(c, y), Agrees(y) PROVE Agrees(y)'
  <2>1. y = x
    BY <1>whose, <1>6 DEF Changes
  <2>2. /\ StepAgrees(c, y)
        /\ executions[y].status = "Cancelled" => tokens[y] # "live"
    BY <1>6 DEF Agrees
  <2>3. (/\ executions'[y].status = "Cancelled" => tokens'[y] # "live"
         /\ Matched(y)' /\ (at'[c] = Away \/ ~Changes(c, y)'))
        \/ (/\ executions'[y].status = "Cancelled" => tokens'[y] # "live"
            /\ Changes(c, y)' /\ StepAgrees(c, y)')
    <3>1. CASE create_token(c)
      <4>1. /\ Inside(c, "start_monitoring", "token") /\ Moves(c, "channel")
            /\ tokens' = [tokens EXCEPT ![y] = "live"] /\ executions' = executions
        BY <1>whose, <2>1, <3>1 DEF create_token
      <4>2. tokens'[y] = "live"
        BY <1>1, <4>1 DEF MonitorTypes
      <4>3. executions[y] # Untracked /\ executions[y].status # "Cancelled"
        BY <2>2, <4>1 DEF StepAgrees
      <4>4. at'[c].op = "start_monitoring" /\ at'[c].step = "channel" /\ Changes(c, y)'
        BY <1>3, <1>6, <4>1 DEF Inside, Changes
      <4>5. QED
        BY <4>1, <4>2, <4>3, <4>4 DEF StepAgrees, Inside
    <3>2. CASE create_channel(c)
      <4>1. /\ Inside(c, "start_monitoring", "channel") /\ Returns(c)
            /\ UNCHANGED <<tokens, executions>>
        BY <3>2 DEF create_channel
      <4>2. Matched(y)
        BY <2>2, <4>1 DEF StepAgrees, Matched
      <4>3. QED
        BY <1>3, <2>2, <4>1, <4>2 DEF Matched
    <3>3. CASE remove_token(c)
      <4>1. /\ Inside(c, "complete_monitoring", "token") /\ Moves(c, "stream")
            /\ tokens' = [tokens EXCEPT ![y] = "none"] /\ executions' = executions
        BY <1>whose, <2>1, <3>3 DEF remove_token
      <4>2. tokens'[y] = "none"
        BY <1>1, <4>1 DEF MonitorTypes
      <4>3. executions[y] = Untracked
        BY <2>2, <4>1 DEF StepAgrees
      <4>4. at'[c].op = "complete_monitoring" /\ at'[c].step = "stream" /\ Changes(c, y)'
        BY <1>3, <1>6, <4>1 DEF Inside, Changes
      <4>5. QED
        BY <4>1, <4>2, <4>3, <4>4 DEF StepAgrees, Inside
    <3>4. CASE cancel_tracked(c)
      <4>1. Inside(c, "cancel_execution", "tracker") /\ Moves(c, "stream") /\ tokens' = tokens
        BY <3>4 DEF cancel_tracked
      <4>2. Matched(y) /\ tokens[y] # "live"
        BY <2>2, <4>1 DEF StepAgrees
      <4>3. Matched(y)'
        BY <1>4, <4>1, <4>2 DEF Matched
      <4>4. at'[c].op = "cancel_execution" /\ at'[c].step = "stream" /\ Changes(c, y)'
        BY <1>3, <1>6, <4>1 DEF Inside, Changes
      <4>5. QED
        BY <4>1, <4>2, <4>3, <4>4 DEF StepAgrees, Inside
    <3>5. CASE stream(c)
      <4>1. /\ Inside(c, "cancel_execution", "stream") /\ Returns(c)
            /\ UNCHANGED <<tokens, executions>>
        BY <1>6, <3>5 DEF stream, Inside, Changes, Changing
      <4>2. Matched(y)
        BY <2>2, <4>1 DEF StepAgrees
      <4>3. QED
        BY <1>3, <2>2, <4>1, <4>2 DEF Matched
    <3>6. CASE complete_stream(c)
      <4>1. /\ Inside(c, "complete_monitoring", "stream") /\ Returns(c)
            /\ UNCHANGED <<tokens, executions>>
        BY <3>6 DEF complete_stream
      <4>2. Matched(y)
        BY <2>2, <4>1 DEF StepAgrees, Matched
      <4>3. QED
        BY <1>3, <2>2, <4>1, <4>2 DEF Matched
    <3>7. ~shutdown_done(c)
      BY <1>6 DEF shutdown_done, Inside, Changes, Changing
    <3>8. QED
      BY <3>1, <3>2, <3>3, <3>4, <3>5, <3>6, <3>7 DEF Proceed
  <2>4. ~Changes(c, y)' \/ at'[c] # Away
    BY DEF Changes, Away, Changing
  <2>5. QED
    BY <1>3, <1>6, <2>3, <2>4, ChangeGoesOn
<1>7. ASSUME NEW y \in Executions, ~Changes(c, y), Agrees(y) PROVE Agrees(y)'
  <2>1. ~Changes(c, y)'
    BY <1>3, <1>7
  <2>2. executions'[y] = executions[y] /\ tokens'[y] = tokens[y]
    <3>1. CASE y # x
      BY <1>4, <1>5, <3>1
    <3>2. CASE y = x
      <4>1. ~create_token(c) /\ ~remove_token(c) /\ ~cancel_tracked(c)
        BY <1>whose, <1>7, <3>2
           DEF Changes, Changing, create_token, remove_token, cancel_tracked, Inside
      <4>2. QED
        BY <1>4, <1>5, <4>1
    <3>3. QED
      BY <3>1, <3>2
  <2>3. QED
    BY <1>3, <1>7, <2>1, <2>2, OthersAgree
<1>8. channels' \subseteq Executions
  <2>1. at[c].op = "start_monitoring" => at[c].x \in Executions
    BY <1>1 DEF MonitorTypes, MonitorCalls, ChangeCalls, OtherCalls, Away
  <2>2. QED
    BY <1>1, <2>1 DEF Proceed, create_token, create_channel, remove_token, cancel_tracked,
       stream, complete_stream, shutdown_done, MonitorTypes, Inside
<1>9. MonitorTypes'
  BY <1>1, <1>2, <1>3, <1>4, <1>5, <1>8 DEF MonitorTypes
<1>10. Counted'
  BY <1>1, <1>2, <1>4, SameCounted
<1>11. QED
  BY <1>2, <1>6, <1>7, <1>9, <1>10 DEF MonitorInv

\* Nothing is tracked and nobody is inside an operation.
LEMMA MonitorInitInv == MonitorInit => MonitorInv
<1>1. SUFFICES ASSUME MonitorInit PROVE MonitorInv
  OBVIOUS
<1>2. Untracked \in {Untracked} /\ Away \in {Away} /\ ~(Away.op \in Changing)
      /\ Untracked.status # "Cancelled"
  BY DEF Untracked, Away, Changing
<1>3. MonitorTypes
  BY <1>1, <1>2 DEF MonitorInit, MonitorTypes
<1>4. Tracked = {}
  BY <1>1 DEF MonitorInit, Tracked
<1>5. Counted
  BY <1>1, <1>4, FS_EmptySet DEF MonitorInit, Counted, CountsAgree
<1>6. \A x \in Executions : Agrees(x)
  BY <1>1, <1>2 DEF MonitorInit, Agrees, Changes, Matched
<1>7. QED
  BY <1>3, <1>5, <1>6 DEF MonitorInv

\* Every step is the first of an operation, or one of its later shares.
LEMMA MonitorNextInv == MonitorInv /\ [MonitorNext]_monitorVars => MonitorInv'
<1>1. SUFFICES ASSUME MonitorInv, [MonitorNext]_monitorVars PROVE MonitorInv'
  OBVIOUS
<1>2. CASE UNCHANGED monitorVars
  BY <1>1, <1>2 DEF monitorVars, MonitorInv, MonitorTypes, Counted, CountsAgree, Tracked,
     Agrees, StepAgrees, Inside, Changes, Matched
<1>3. ASSUME NEW c \in Clients, Proceed(c) PROVE MonitorInv'
  BY <1>1, <1>3, PartSteps
<1>4. ASSUME NEW c \in Clients, shutdown_all(c) PROVE MonitorInv'
  BY <1>1, <1>4, ReportSteps
<1>5. ASSUME NEW c \in Clients, NEW x \in Executions,
             \/ update_progress(c, x)
             \/ \E success \in BOOLEAN : record_test_completion(c, x, success)
      PROVE  MonitorInv'
  BY <1>1, <1>5, ReportSteps
<1>6. ASSUME NEW c \in Clients, NEW x \in Executions,
             add_execution(c, x) \/ complete_execution(c, x) \/ cancel_token(c, x)
      PROVE  MonitorInv'
  BY <1>1, <1>6, ChangeSteps
<1>7. QED
  BY <1>1, <1>2, <1>3, <1>4, <1>5, <1>6 DEF MonitorNext

\* An execution that no operations overlap on is in the tracker and among the tokens together,
\* except where an operation on it is just between the two, and how far it is says what holds.
THEOREM MonitorInvariant == MonitorSpec => []MonitorInv
<1>1. MonitorInit => MonitorInv
  BY MonitorInitInv
<1>2. MonitorInv /\ [MonitorNext]_monitorVars => MonitorInv'
  BY MonitorNextInv
<1>3. QED
  BY <1>1, <1>2, PTL DEF MonitorSpec

\* Between two operations the tracker and the tokens agree on what can be cancelled, an
\* execution shown as cancelled was told so, and the metrics count no more than is tracked.
THEOREM PartsAgree == MonitorSpec => []MonitorAgrees
<1>1. ASSUME MonitorInv PROVE MonitorAgrees
  <2>1. \A x \in Executions \ overlapped : Agrees(x)
    BY <1>1 DEF MonitorInv
  <2>2. TokensMatch
    <3>1. SUFFICES ASSUME NEW x \in Executions, x \notin overlapped,
                          \A c \in Clients : at[c] = Away \/ at[c].x # x
                   PROVE  tokens[x] # "none" <=> x \in Tracked
      BY DEF TokensMatch
    <3>2. \A c \in Clients : ~Changes(c, x)
      BY <3>1 DEF Changes, Away, Changing
    <3>3. QED
      BY <2>1, <3>1, <3>2 DEF Agrees, Matched, Tracked
  <2>3. CancelIsSignalled
    <3>1. SUFFICES ASSUME NEW x \in Executions \ overlapped,
                          executions[x].status = "Cancelled", tokens[x] # "none"
                   PROVE  tokens[x] = "cancelled"
      BY DEF CancelIsSignalled
    <3>2. tokens[x] \in {"none", "live", "cancelled"}
      BY <1>1 DEF MonitorInv, MonitorTypes
    <3>3. QED
      BY <2>1, <3>1, <3>2 DEF Agrees
  <2>4. CountsAgree
    BY <1>1 DEF MonitorInv, Counted
  <2>5. QED
    BY <2>2, <2>3, <2>4 DEF MonitorAgrees
<1>2. QED
  BY <1>1, MonitorInvariant, PTL

-----------------------------------------------------------------------------
(***************************************************************************)
(* Metrics: what a snapshot says that is taken while threads record        *)
(***************************************************************************)
Results == {"requests_ok", "requests_failed"}
\* What may be left of a recording.
Remainders ==
    {<<>>, <<"test_durations">>}
    \cup {<<n>> : n \in Results} \cup {<<"request_durations", n>> : n \in Results}
    \cup {<<n, "test_durations">> : n \in Outcomes}
    \cup {<<"tests", n, "test_durations">> : n \in Outcomes}

\* The threads that have yet to count n.
Uncounted(n) == {r \in Recorders : \E i \in DOMAIN recording[r] : recording[r][i] = n}

MetricsTypes ==
    /\ counters \in [MetricNames -> Nat] /\ recording \in [Recorders -> Remainders]
    /\ snapshot \in [MetricNames -> Nat] /\ asked \in [MetricNames -> Nat]
    /\ open \in Nat /\ records \in Nat /\ records <= MaxRecords

\* Each counter stays below the marker of what has not been read, and the tests are those
\* with a result and those between.
Accounted ==
    /\ \A n \in MetricNames : counters[n] + Cardinality(Uncounted(n)) <= records
    /\ counters["tests"] = counters["tests_passed"] + counters["tests_failed"]
                           + Cardinality(Between)

\* What is read lies between the counters when the snapshot began and those of now.
ReadTrue ==
    /\ \/ \A n \in MetricNames : asked[n] = NotRead /\ Unread(n)
       \/ \A n \in MetricNames :
             /\ asked[n] <= counters[n]
             /\ Unread(n) \/ (asked[n] <= snapshot[n] /\ snapshot[n] <= counters[n])
    /\ Unread("tests") => Unread("tests_passed")
    /\ Unread("tests_passed") => Unread("tests_failed")

\* What was read of n, or will be at least.
Known(n) == IF Unread(n) THEN counters[n] ELSE snapshot[n]
ReadInOrder ==
    ~Unread("tests") =>
        snapshot["tests"] <= Known("tests_passed") + Known("tests_failed") + open

MetricsInv == MetricsTypes /\ Accounted /\ ReadTrue /\ ReadInOrder

\* A part is at most the whole.
LEMMA PercentBound ==
  ASSUME NEW part \in Nat, NEW whole \in Nat, part <= whole
  PROVE  Percent(part, whole) <= 100
<1>1. CASE whole > 0
  <2>1. (part * 100) \div whole <= 100
    BY <1>1, SMT
  <2>2. QED
    BY <1>1, <2>1 DEF Percent
<1>2. CASE ~(whole > 0)
  BY <1>2 DEF Percent
<1>3. QED
  BY <1>1, <1>2

\* A part of the threads is finite, and counts no more than all.
LEMMA ThreadsCount ==
  /\ IsFiniteSet(Recorders) /\ Cardinality(Recorders) \in Nat
  /\ \A T \in SUBSET Recorders :
        /\ IsFiniteSet(T) /\ Cardinality(T) \in Nat /\ Cardinality(T) <= Cardinality(Recorders)
        /\ \A r \in Recorders : Cardinality(T \cup {r}) =
              IF r \in T THEN Cardinality(T) ELSE Cardinality(T) + 1
        /\ \A r \in Recorders : Cardinality(T \ {r}) =
              IF r \in T THEN Cardinality(T) - 1 ELSE Cardinality(T)
<1>1. IsFiniteSet(Recorders) /\ Cardinality(Recorders) \in Nat
  BY MetricsAssumption, FS_CardinalityType
<1>2. ASSUME NEW T \in SUBSET Recorders
      PROVE  IsFiniteSet(T) /\ Cardinality(T) \in Nat /\ Cardinality(T) <= Cardinality(Recorders)
  BY <1>1, FS_Subset, FS_CardinalityType
<1>3. QED
  BY <1>1, <1>2, FS_AddElement, FS_RemoveElement

Rest(plan) == [i \in 1..Len(plan) - 1 |-> plan[i + 1]]

\* What a recording leaves after its first counter.
LEMMA Rests ==
  /\ \A a : Rest(<<a>>) = <<>>
  /\ \A a, b : Rest(<<a, b>>) = <<b>>
  /\ \A a, b, c : Rest(<<a, b, c>>) = <<b, c>>
<1>1. ASSUME NEW a PROVE Rest(<<a>>) = <<>>
  BY DEF Rest
<1>2. ASSUME NEW a, NEW b PROVE Rest(<<a, b>>) = <<b>>
  <2>1. Len(<<a, b>>) - 1 = 1 /\ <<a, b>>[1 + 1] = b
    OBVIOUS
  <2>2. QED
    BY <2>1 DEF Rest
<1>3. ASSUME NEW a, NEW b, NEW c PROVE Rest(<<a, b, c>>) = <<b, c>>
  <2>1. Len(<<a, b, c>>) - 1 = 2 /\ <<a, b, c>>[1 + 1] = b /\ <<a, b, c>>[2 + 1] = c
    OBVIOUS
  <2>2. QED
    BY <2>1 DEF Rest
<1>4. QED
  BY <1>1, <1>2, <1>3

HasNoResult(plan) == \E n \in Outcomes : plan = <<n, "test_durations">>

\* A recording counts each name once, and a test between the tests and its result.
Shrinks(plan) ==
    /\ plan[1] \in MetricNames /\ plan \in Seq(MetricNames) /\ Len(plan) > 0
    /\ Rest(plan) \in Remainders
    /\ \A i \in DOMAIN plan : plan[i] = plan[1] => i = 1
    /\ HasNoResult(plan) <=> plan[1] \in Outcomes
    /\ HasNoResult(Rest(plan)) <=> plan[1] = "tests"

\* What a thread has left of a recording is one of the remainders again.
LEMMA RemaindersShrink == \A plan \in Remainders : plan # <<>> => Shrinks(plan)
<1>1. Shrinks(<<"test_durations">>)
  <2>1. Rest(<<"test_durations">>) = <<>>
    BY Rests
  <2>2. QED
    BY <2>1 DEF Shrinks, Remainders, MetricNames, RequestNames, Outcomes, HasNoResult
<1>2. ASSUME NEW n \in Results PROVE Shrinks(<<n>>)
  <2>1. Rest(<<n>>) = <<>>
    BY Rests
  <2>2. QED
    BY <2>1 DEF Shrinks, Remainders, MetricNames, RequestNames, Outcomes, HasNoResult, Results
<1>3. ASSUME NEW n \in Results PROVE Shrinks(<<"request_durations", n>>)
  <2>1. Rest(<<"request_durations", n>>) = <<n>>
    BY Rests
  <2>2. QED
    BY <2>1 DEF Shrinks, Remainders, MetricNames, RequestNames, Outcomes, HasNoResult, Results
<1>4. ASSUME NEW n \in Outcomes PROVE Shrinks(<<n, "test_durations">>)
  <2>1. Rest(<<n, "test_durations">>) = <<"test_durations">>
    BY Rests
  <2>2. QED
    BY <2>1 DEF Shrinks, Remainders, MetricNames, RequestNames, Outcomes, HasNoResult
<1>5. ASSUME NEW n \in Outcomes PROVE Shrinks(<<"tests", n, "test_durations">>)
  <2>1. Rest(<<"tests", n, "test_durations">>) = <<n, "test_durations">>
    BY Rests
  <2>2. QED
    BY <2>1 DEF Shrinks, Remainders, MetricNames, RequestNames, Outcomes, HasNoResult
<1>6. QED
  BY <1>1, <1>2, <1>3, <1>4, <1>5 DEF Remainders

\* Nothing was recorded, and nothing read.
LEMMA MetricsInitInv == MetricsInit => MetricsInv
<1>1. SUFFICES ASSUME MetricsInit PROVE MetricsInv
  OBVIOUS
<1>2. NotRead \in Nat
  BY MetricsAssumption DEF NotRead
<1>3. <<>> \in Remainders
  BY DEF Remainders
<1>4. MetricsTypes
  BY <1>1, <1>2, <1>3, MetricsAssumption DEF MetricsInit, MetricsTypes
<1>5. Accounted
  <2>1. \A n : Uncounted(n) = {}
    BY <1>1 DEF MetricsInit, Uncounted
  <2>2. Between = {}
    BY <1>1 DEF MetricsInit, Between
  <2>3. {"tests", "tests_passed", "tests_failed"} \subseteq MetricNames
    BY DEF MetricNames
  <2>4. Cardinality({}) = 0
    BY FS_EmptySet
  <2>5. \A n \in MetricNames : counters[n] = 0 /\ records = 0
    BY <1>1 DEF MetricsInit
  <2>6. QED
    BY <2>1, <2>2, <2>3, <2>4, <2>5 DEF Accounted
<1>6. ReadTrue /\ ReadInOrder
  BY <1>1 DEF MetricsInit, ReadTrue, ReadInOrder, Unread, MetricNames
<1>7. QED
  BY <1>4, <1>5, <1>6 DEF MetricsInv

\* A thread begins to record: it has yet to count what it records.
LEMMA RecordStep ==
  ASSUME MetricsInv, NEW r \in Recorders, NEW plan \in Remainders, ~HasNoResult(plan),
         Record(r, plan)
  PROVE  MetricsInv'
<1>1. MetricsTypes /\ recording[r] = <<>> /\ records < MaxRecords /\ records' = records + 1
      /\ recording' = [recording EXCEPT ![r] = plan]
      /\ UNCHANGED <<counters, snapshot, asked, open>>
  BY DEF MetricsInv, Record
<1>2. \A t \in Recorders : recording'[t] = IF t = r THEN plan ELSE recording[t]
  BY <1>1 DEF MetricsTypes
<1>3. MetricsTypes'
  BY <1>1, MetricsAssumption DEF MetricsTypes
<1>4. Accounted'
  <2>1. Between' = Between
    <3>1. ~HasNoResult(<<>>)
      BY DEF HasNoResult
    <3>2. QED
      BY <1>1, <1>2, <3>1 DEF Between, HasNoResult
  <2>2. ASSUME NEW n \in MetricNames
        PROVE  counters'[n] + Cardinality(Uncounted(n)') <= records'
    <3>1. Uncounted(n)' \subseteq Uncounted(n) \cup {r}
      BY <1>2 DEF Uncounted
    <3>2. Uncounted(n) \in SUBSET Recorders /\ Uncounted(n)' \in SUBSET Recorders
      BY DEF Uncounted
    <3>3. PICK more \in SUBSET Recorders : more = Uncounted(n) \cup {r}
      BY <3>2
    <3>4. IsFiniteSet(more) /\ Cardinality(more) \in Nat
          /\ Cardinality(more) <= Cardinality(Uncounted(n)) + 1 /\ Cardinality(Uncounted(n)) \in Nat
      BY <3>2, <3>3, ThreadsCount
    <3>5. Cardinality(Uncounted(n)') <= Cardinality(more) /\ Cardinality(Uncounted(n)') \in Nat
      BY <3>1, <3>2, <3>3, <3>4, ThreadsCount, FS_Subset
    <3>6. counters[n] + Cardinality(Uncounted(n)) <= records /\ counters[n] \in Nat
          /\ records \in Nat
      BY <1>1 DEF MetricsInv, Accounted, MetricsTypes
    <3>7. counters'[n] = counters[n] /\ records' = records + 1
      BY <1>1
    <3>8. Cardinality(Uncounted(n)') <= Cardinality(Uncounted(n)) + 1
      BY <3>4, <3>5
    <3>9. QED
      BY <3>4, <3>5, <3>6, <3>7, <3>8
  <2>3. QED
    BY <1>1, <2>1, <2>2 DEF MetricsInv, Accounted
<1>5. ReadTrue' /\ ReadInOrder'
  BY <1>1 DEF MetricsInv, ReadTrue, ReadInOrder, Unread, Known
<1>6. QED
  BY <1>3, <1>4, <1>5 DEF MetricsInv

\* A thread counts once more: the counters only grow.
LEMMA IncreaseStep ==
  ASSUME MetricsInv, NEW r \in Recorders, increase(r)
  PROVE  MetricsInv'
<1>1. PICK plan \in Remainders : plan = recording[r]
  BY DEF MetricsInv, MetricsTypes
<1>2. Shrinks(plan)
  BY <1>1, RemaindersShrink DEF increase
<1>3. PICK name \in MetricNames : name = plan[1]
  BY <1>2 DEF Shrinks
<1>4. /\ counters' = [counters EXCEPT ![name] = counters[name] + 1]
      /\ recording' = [recording EXCEPT ![r] = Rest(plan)]
      /\ UNCHANGED <<snapshot, asked, open, records>>
  BY <1>1, <1>3 DEF increase, Rest
<1>5. /\ \A t \in Recorders : recording'[t] = IF t = r THEN Rest(plan) ELSE recording[t]
      /\ \A n \in MetricNames :
            counters'[n] = IF n = name THEN counters[n] + 1 ELSE counters[n]
      /\ \A n \in MetricNames : counters[n] \in Nat /\ counters'[n] \in Nat
  BY <1>4 DEF MetricsInv, MetricsTypes
<1>6. MetricsTypes'
  BY <1>2, <1>4, <1>5 DEF MetricsInv, MetricsTypes, Shrinks
<1>7. \A n \in MetricNames : Uncounted(n)' = IF n = name THEN Uncounted(n) \ {r} ELSE Uncounted(n)
  <2>1. \A n : (\E i \in DOMAIN Rest(plan) : Rest(plan)[i] = n)
               <=> (n # name /\ \E i \in DOMAIN plan : plan[i] = n)
    <3>1. /\ DOMAIN plan = 1..Len(plan) /\ Len(plan) \in Nat /\ Len(plan) > 0
          /\ DOMAIN Rest(plan) = 1..Len(plan) - 1
          /\ \A i \in 1..Len(plan) - 1 : Rest(plan)[i] = plan[i + 1]
      BY <1>2, LenProperties DEF Shrinks, Rest
    <3>2. \A i \in 1..Len(plan) : plan[i] = name => i = 1
      BY <1>2, <1>3, <3>1 DEF Shrinks
    <3>3. ASSUME NEW n, NEW i \in DOMAIN Rest(plan), Rest(plan)[i] = n
          PROVE  n # name /\ \E j \in DOMAIN plan : plan[j] = n
      <4>1. i + 1 \in 1..Len(plan) /\ plan[i + 1] = n /\ i + 1 # 1
        BY <3>1, <3>3
      <4>2. QED
        BY <3>1, <3>2, <4>1
    <3>4. ASSUME NEW n, n # name, NEW j \in DOMAIN plan, plan[j] = n
          PROVE  \E i \in DOMAIN Rest(plan) : Rest(plan)[i] = n
      <4>1. j - 1 \in 1..Len(plan) - 1 /\ (j - 1) + 1 = j
        BY <1>3, <3>1, <3>4
      <4>2. QED
        BY <3>1, <3>4, <4>1
    <3>5. QED
      BY <3>3, <3>4
  <2>2. ASSUME NEW n \in MetricNames, NEW t \in Recorders
        PROVE  t \in Uncounted(n)' <=> t \in Uncounted(n) /\ (n = name => t # r)
    <3>1. /\ t \in Uncounted(n) <=> \E i \in DOMAIN recording[t] : recording[t][i] = n
          /\ t \in Uncounted(n)' <=> \E i \in DOMAIN recording'[t] : recording'[t][i] = n
      BY DEF Uncounted
    <3>2. CASE t = r
      <4>1. recording[t] = plan /\ recording'[t] = Rest(plan)
        BY <1>1, <1>5, <3>2
      <4>2. (\E i \in DOMAIN Rest(plan) : Rest(plan)[i] = n)
               <=> (n # name /\ \E i \in DOMAIN plan : plan[i] = n)
        BY <2>1
      <4>3. (\E i \in DOMAIN recording'[t] : recording'[t][i] = n)
               <=> (n # name /\ \E i \in DOMAIN recording[t] : recording[t][i] = n)
        BY <4>1, <4>2
      <4>4. QED
        BY <3>1, <3>2, <4>3
    <3>3. CASE t # r
      BY <1>5, <3>1, <3>3
    <3>4. QED
      BY <3>2, <3>3
  <2>3. \A n : Uncounted(n) \subseteq Recorders /\ Uncounted(n)' \subseteq Recorders
    BY DEF Uncounted
  <2>4. QED
    BY <2>2, <2>3
<1>8. r \in Uncounted(name)
  BY <1>1, <1>2, <1>3, LenProperties DEF Uncounted, Shrinks
<1>9. Between' = IF name = "tests" THEN Between \cup {r}
                 ELSE IF name \in Outcomes THEN Between \ {r} ELSE Between
  <2>1. /\ HasNoResult(plan) <=> name \in Outcomes
        /\ HasNoResult(Rest(plan)) <=> name = "tests"
    BY <1>2, <1>3 DEF Shrinks
  <2>2. \A t \in Recorders : t \in Between <=> HasNoResult(recording[t])
    BY DEF Between, HasNoResult
  <2>3. \A t \in Recorders : t \in Between' <=> HasNoResult(recording'[t])
    BY DEF Between, HasNoResult
  <2>4. "tests" \notin Outcomes
    BY DEF Outcomes
  <2>5. Between \subseteq Recorders /\ Between' \subseteq Recorders
    BY DEF Between
  <2>6. QED
    BY <1>1, <1>5, <2>1, <2>2, <2>3, <2>4, <2>5
<1>10. Accounted'
  <2>1. ASSUME NEW n \in MetricNames
        PROVE  counters'[n] + Cardinality(Uncounted(n)') <= records'
    <3>1. Uncounted(n) \in SUBSET Recorders
      BY DEF Uncounted
    <3>2. Cardinality(Uncounted(n)) \in Nat
          /\ (n = name => Cardinality(Uncounted(n)') = Cardinality(Uncounted(n)) - 1)
          /\ (n # name => Uncounted(n)' = Uncounted(n))
      BY <1>7, <1>8, <3>1, ThreadsCount
    <3>3. counters[n] + Cardinality(Uncounted(n)) <= records
      BY DEF MetricsInv, Accounted
    <3>4. QED
      BY <1>4, <1>5, <3>2, <3>3
  <2>2. counters'["tests"] = counters'["tests_passed"] + counters'["tests_failed"]
                             + Cardinality(Between')
    <3>1. Between \in SUBSET Recorders /\ Cardinality(Between) \in Nat
          /\ (name = "tests" => r \notin Between) /\ (name \in Outcomes => r \in Between)
      <4>1. Between \in SUBSET Recorders
        BY DEF Between
      <4>2. r \in Between <=> name \in Outcomes
        BY <1>1, <1>2, <1>3 DEF Between, Shrinks, HasNoResult
      <4>3. QED
        BY <4>1, <4>2, ThreadsCount DEF Outcomes
    <3>2. /\ name = "tests" => Cardinality(Between') = Cardinality(Between) + 1
          /\ name \in Outcomes => Cardinality(Between') = Cardinality(Between) - 1
          /\ name # "tests" /\ name \notin Outcomes => Between' = Between
      BY <1>9, <3>1, ThreadsCount DEF Outcomes
    <3>3. {"tests", "tests_passed", "tests_failed"} \subseteq MetricNames
      BY DEF MetricNames
    <3>4. counters["tests"] = counters["tests_passed"] + counters["tests_failed"]
                              + Cardinality(Between)
      BY DEF MetricsInv, Accounted
    <3>5. QED
      BY <1>5, <3>1, <3>2, <3>3, <3>4 DEF Outcomes
  <2>3. QED
    BY <2>1, <2>2 DEF Accounted
<1>11. \A n \in MetricNames : /\ counters[n] <= counters'[n] /\ Unread(n)' = Unread(n)
                               /\ counters[n] \in Nat /\ counters'[n] \in Nat
                               /\ snapshot[n] \in Nat /\ asked[n] \in Nat
  BY <1>4, <1>5 DEF Unread, MetricsInv, MetricsTypes
<1>12. ReadTrue'
  BY <1>4, <1>11 DEF MetricsInv, ReadTrue, Unread
<1>13. ReadInOrder'
  <2>1. {"tests", "tests_passed", "tests_failed"} \subseteq MetricNames
    BY DEF MetricNames
  <2>2. \A n \in MetricNames : Known(n) \in Nat /\ Known(n)' \in Nat /\ Known(n) <= Known(n)'
    BY <1>4, <1>11 DEF Known
  <2>3. SUFFICES ASSUME ~Unread("tests")'
                 PROVE  snapshot'["tests"] <= Known("tests_passed")' + Known("tests_failed")' + open'
    BY DEF ReadInOrder
  <2>4. snapshot["tests"] <= Known("tests_passed") + Known("tests_failed") + open
    BY <1>11, <2>1, <2>3 DEF MetricsInv, ReadInOrder
  <2>5. QED
    BY <1>4, <1>11, <2>1, <2>2, <2>4 DEF MetricsInv, MetricsTypes
<1>14. QED
  BY <1>6, <1>10, <1>12, <1>13 DEF MetricsInv

\* A snapshot begins, or reads one more counter.
LEMMA ReadSteps ==
  ASSUME MetricsInv, get_snapshot \/ get_performance_metrics \/ get_test_execution_metrics
  PROVE  MetricsInv'
<1>1. MetricsTypes /\ Accounted /\ UNCHANGED <<counters, recording, records>>
  BY DEF MetricsInv, get_snapshot, get_performance_metrics, get_test_execution_metrics, Reads
<1>2. /\ \A n \in MetricNames : /\ counters[n] \in Nat /\ counters[n] < NotRead
                                 /\ snapshot[n] \in Nat /\ asked[n] \in Nat
      /\ NotRead \in Nat
  <2>1. ASSUME NEW n \in MetricNames PROVE counters[n] < NotRead
    <3>1. Cardinality(Uncounted(n)) \in Nat
      BY ThreadsCount DEF Uncounted
    <3>2. counters[n] + Cardinality(Uncounted(n)) <= records /\ records <= MaxRecords
          /\ counters[n] \in Nat /\ records \in Nat
      BY <1>1 DEF Accounted, MetricsTypes
    <3>3. QED
      BY <3>1, <3>2, MetricsAssumption DEF NotRead
  <2>2. QED
    BY <1>1, <2>1, MetricsAssumption DEF MetricsTypes, NotRead
<1>3. Accounted'
  <2>1. Between' = Between /\ \A n : Uncounted(n)' = Uncounted(n)
    BY <1>1 DEF Between, Uncounted
  <2>2. QED
    BY <1>1, <2>1 DEF Accounted
<1>names. RequestNames \subseteq MetricNames
          /\ {"tests", "tests_passed", "tests_failed", "test_durations"} \subseteq MetricNames
          /\ {"tests", "tests_passed", "tests_failed"} \cap RequestNames = {}
  BY DEF MetricNames, RequestNames
<1>4. CASE get_snapshot
  <2>1. /\ asked' = counters /\ snapshot' = snapshot /\ open' = open
        /\ \A n \in MetricNames : Unread(n) /\ Unread(n)'
    BY <1>4 DEF get_snapshot, Unread
  <2>2. MetricsTypes'
    BY <1>1, <2>1 DEF MetricsTypes
  <2>3. ReadTrue' /\ ReadInOrder'
    BY <1>1, <1>2, <1>names, <2>1 DEF ReadTrue, ReadInOrder
  <2>4. QED
    BY <1>3, <2>2, <2>3 DEF MetricsInv
<1>5. ASSUME NEW m \in MetricNames, Reads(m),
             m = "tests_passed" => ~Unread("tests"),
             m = "tests_failed" => ~Unread("tests_passed")
      PROVE  MetricsInv'
  <2>1. /\ asked' = asked /\ Asked /\ Unread(m)
        /\ snapshot' = [snapshot EXCEPT ![m] = counters[m]]
        /\ open' = IF m = "tests" THEN Cardinality(Between) ELSE open
    BY <1>5 DEF Reads
  <2>count. Cardinality(Between) \in Nat
    BY ThreadsCount DEF Between
  <2>2. \A n \in MetricNames : /\ snapshot'[n] = IF n = m THEN counters[n] ELSE snapshot[n]
                               /\ Unread(n)' <=> Unread(n) /\ n # m
    BY <1>1, <1>2, <2>1 DEF MetricsTypes, Unread
  <2>3. MetricsTypes'
    BY <1>1, <2>1, <2>count DEF MetricsTypes
  <2>4. ReadTrue'
    BY <1>1, <1>2, <1>5, <1>names, <2>1, <2>2 DEF MetricsInv, ReadTrue, Asked
  <2>5. \A n \in MetricNames : Known(n)' = Known(n)
    BY <1>1, <1>2, <2>1, <2>2 DEF Known
  <2>6. ReadInOrder'
    <3>1. CASE m # "tests"
      BY <1>names, <2>1, <2>2, <2>5, <3>1 DEF MetricsInv, ReadInOrder
    <3>2. CASE m = "tests"
      <4>1. Unread("tests_passed") /\ Unread("tests_failed")
        BY <2>1, <3>2 DEF MetricsInv, ReadTrue
      <4>2. /\ Known("tests_passed")' = counters["tests_passed"]
            /\ Known("tests_failed")' = counters["tests_failed"]
            /\ snapshot'["tests"] = counters["tests"]
        BY <1>names, <2>2, <2>5, <3>2, <4>1 DEF Known
      <4>3. open' = Cardinality(Between)
        BY <2>1, <3>2
      <4>4. counters["tests"] = counters["tests_passed"] + counters["tests_failed"]
                                + Cardinality(Between)
        BY <1>1 DEF Accounted
      <4>5. QED
        BY <1>2, <1>names, <2>count, <4>2, <4>3, <4>4 DEF ReadInOrder
    <3>3. QED
      BY <3>1, <3>2
  <2>7. QED
    BY <1>3, <2>3, <2>4, <2>6 DEF MetricsInv
<1>6. \/ get_snapshot
      \/ \E m \in MetricNames : /\ Reads(m)
                                /\ m = "tests_passed" => ~Unread("tests")
                                /\ m = "tests_failed" => ~Unread("tests_passed")
  BY <1>names DEF get_performance_metrics, get_test_execution_metrics
<1>7. QED
  BY <1>4, <1>5, <1>6

\* A thread begins or counts, or the snapshot reads.
LEMMA MetricsNextInv == MetricsInv /\ [MetricsNext]_metricsVars => MetricsInv'
<1>1. SUFFICES ASSUME MetricsInv, [MetricsNext]_metricsVars PROVE MetricsInv'
  OBVIOUS
<1>2. CASE UNCHANGED metricsVars
  BY <1>1, <1>2 DEF metricsVars, MetricsInv, MetricsTypes, Accounted, Uncounted, Between, ReadTrue,
     ReadInOrder, Known, Unread
<1>3. CASE get_snapshot \/ get_performance_metrics \/ get_test_execution_metrics
  BY <1>1, <1>3, ReadSteps
<1>4. ASSUME NEW r \in Recorders, increase(r) PROVE MetricsInv'
  BY <1>1, <1>4, IncreaseStep
<1>5. ASSUME NEW r \in Recorders, NEW status, record_request(r, status) PROVE MetricsInv'
  <2>1. PICK n \in Results : Record(r, <<"request_durations", n>>)
    BY <1>5 DEF record_request, Results
  <2>2. /\ <<"request_durations", n>> \in Remainders
        /\ ~HasNoResult(<<"request_durations", n>>)
    BY DEF Remainders, HasNoResult, Outcomes
  <2>3. QED
    BY <1>1, <2>1, <2>2, RecordStep
<1>6. ASSUME NEW r \in Recorders, NEW passed, record_test_case(r, passed) PROVE MetricsInv'
  <2>1. PICK n \in Outcomes : Record(r, <<"tests", n, "test_durations">>)
    BY <1>6 DEF record_test_case, Outcomes
  <2>2. /\ <<"tests", n, "test_durations">> \in Remainders
        /\ ~HasNoResult(<<"tests", n, "test_durations">>)
    BY DEF Remainders, HasNoResult
  <2>3. QED
    BY <1>1, <2>1, <2>2, RecordStep
<1>7. QED
  BY <1>1, <1>2, <1>3, <1>4, <1>5, <1>6 DEF MetricsNext

\* Every counter and every snapshot is accounted for by the recordings.
THEOREM MetricsInvariant == MetricsSpec => []MetricsInv
<1>1. MetricsInit => MetricsInv
  BY MetricsInitInv
<1>2. MetricsInv /\ [MetricsNext]_metricsVars => MetricsInv'
  BY MetricsNextInv
<1>3. QED
  BY <1>1, <1>2, PTL DEF MetricsSpec

\* What a snapshot says is as true as it can be when it is read beside the recordings.
THEOREM SnapshotsAreTrue == MetricsSpec => []SnapshotTrue
<1>1. ASSUME MetricsInv PROVE SnapshotTrue
  <2>each. \A n \in MetricNames :
              Unread(n) \/ (asked[n] <= snapshot[n] /\ snapshot[n] <= counters[n])
    BY <1>1 DEF MetricsInv, ReadTrue
  <2>1. SUFFICES ASSUME Taken
                 PROVE  /\ error_rate <= 100
                        /\ Beside = 0 => success_rate <= 100
                        /\ snapshot["tests_passed"] + snapshot["tests_failed"]
                              <= snapshot["tests"] + Beside
                        /\ snapshot["tests"] <= snapshot["tests_passed"]
                              + snapshot["tests_failed"] + open
    BY <2>each DEF SnapshotTrue
  <2>2. \A n \in MetricNames : /\ counters[n] \in Nat /\ snapshot[n] \in Nat
                               /\ asked[n] \in Nat /\ asked[n] <= snapshot[n]
                               /\ snapshot[n] <= counters[n] /\ ~Unread(n)
    BY <1>1, <2>1 DEF Taken, MetricsInv, MetricsTypes, ReadTrue, MetricNames
  <2>3. {"requests_ok", "requests_failed", "tests", "tests_passed", "tests_failed"}
           \subseteq MetricNames
    BY DEF MetricNames, RequestNames
  <2>4. counters["tests_passed"] + counters["tests_failed"] <= counters["tests"]
    <3>1. Cardinality(Between) \in Nat
      BY ThreadsCount DEF Between
    <3>2. QED
      BY <1>1, <2>2, <2>3, <3>1 DEF MetricsInv, Accounted
  <2>5. error_rate <= 100
    BY <2>2, <2>3, PercentBound DEF error_rate, total_requests
  <2>6. ASSUME Beside = 0 PROVE success_rate <= 100
    <3>1. snapshot["tests_passed"] <= snapshot["tests"]
      BY <2>2, <2>3, <2>4, <2>6 DEF Beside
    <3>2. QED
      BY <2>2, <2>3, <3>1, PercentBound DEF success_rate
  <2>7. snapshot["tests_passed"] + snapshot["tests_failed"] <= snapshot["tests"] + Beside
    BY <2>2, <2>3, <2>4 DEF Beside
  <2>8. snapshot["tests"] <= snapshot["tests_passed"] + snapshot["tests_failed"] + open
    BY <1>1, <2>2, <2>3 DEF MetricsInv, ReadInOrder, Known
  <2>9. QED
    BY <2>5, <2>6, <2>7, <2>8
<1>2. QED
  BY <1>1, MetricsInvariant, PTL

-----------------------------------------------------------------------------
(***************************************************************************)
(* MetricsHistory: what the loops leave in the history                     *)
(***************************************************************************)
TimedSnapshots == [time : Nat, by : Collectors]
LoopPlaces == {"idle", "collect", "push", "cleanup", "update", "install"}
LoopStates == [at : LoopPlaces, time : Nat, count : Nat]

HistoryTypes ==
    /\ snapshots \in Seq(TimedSnapshots) /\ Len(snapshots) <= MaxDataPoints
    /\ loop \in [Collectors -> LoopStates] /\ now \in Nat
    /\ \A i \in DOMAIN snapshots : snapshots[i].by \in Collecting

\* A baseline rests on enough samples, and so does what a loop is about to install.
EnoughSamples ==
    /\ baseline # NoBaseline => baseline.count \in MinSamples..MaxDataPoints
    /\ \A l \in Collectors : loop[l].at = "install" => loop[l].count \in MinSamples..MaxDataPoints

\* What a loop is about to push is no older than what it pushed before.
InTime ==
    /\ InOrder(snapshots) /\ NoneExpired
    /\ \A i \in DOMAIN snapshots :
          /\ snapshots[i].time <= now
          /\ loop[snapshots[i].by].at = "push" => snapshots[i].time <= loop[snapshots[i].by].time
    /\ \A l \in Collectors : loop[l].time <= now

HistoryInv == HistoryTypes /\ EnoughSamples /\ (steady => InTime)

\* The end of a sequence is as long as what was asked for at most, and as much in order.
LEMMA EndsInOrder ==
  ASSUME NEW s \in Seq(TimedSnapshots), NEW first \in 1..Len(s) + 1
  PROVE  /\ SubSeq(s, first, Len(s)) \in Seq(TimedSnapshots)
         /\ Len(SubSeq(s, first, Len(s))) = Len(s) - first + 1
         /\ InOrder(s) => InOrder(SubSeq(s, first, Len(s)))
         /\ \A i \in DOMAIN SubSeq(s, first, Len(s)) :
               \E j \in DOMAIN s : j >= first /\ SubSeq(s, first, Len(s))[i] = s[j]
<1> DEFINE end == SubSeq(s, first, Len(s))
<1>1. /\ Len(s) \in Nat /\ DOMAIN s = 1..Len(s) /\ \A i \in 1..Len(s) : s[i] \in TimedSnapshots
      /\ first \in Int /\ first >= 1 /\ first <= Len(s) + 1
  BY LenProperties, ElementOfSeq
<1>2. \A i \in first..Len(s) : s[i] \in TimedSnapshots
  BY <1>1
<1>3. /\ end \in Seq(TimedSnapshots)
      /\ Len(end) = IF first <= Len(s) THEN Len(s) - first + 1 ELSE 0
      /\ \A i \in 1..Len(s) - first + 1 : end[i] = s[first + i - 1]
  BY <1>1, <1>2, SubSeqProperties
<1> HIDE DEF end
<1>4. Len(end) = Len(s) - first + 1 /\ DOMAIN end = 1..Len(s) - first + 1
  <2>1. Len(end) = Len(s) - first + 1
    BY <1>1, <1>3
  <2>2. DOMAIN end = 1..Len(end)
    BY <1>3, LenProperties
  <2>3. QED
    BY <2>1, <2>2
<1>5. \A i \in DOMAIN end :
        first + i - 1 \in DOMAIN s /\ first + i - 1 >= first /\ end[i] = s[first + i - 1]
  <2>1. SUFFICES ASSUME NEW i \in DOMAIN end
                 PROVE  /\ first + i - 1 \in DOMAIN s /\ first + i - 1 >= first
                        /\ end[i] = s[first + i - 1]
    OBVIOUS
  <2>2. i \in 1..Len(s) - first + 1
    BY <1>4, <2>1
  <2>3. first + i - 1 \in 1..Len(s) /\ first + i - 1 >= first
    BY <1>1, <2>2
  <2>4. QED
    BY <1>1, <1>3, <2>2, <2>3
<1>6. InOrder(s) => InOrder(end)
  <2>1. SUFFICES ASSUME InOrder(s), NEW i \in DOMAIN end, NEW j \in DOMAIN end, i < j,
                        end[i].by = end[j].by
                 PROVE  end[i].time <= end[j].time
    BY DEF InOrder
  <2>2. first + i - 1 < first + j - 1
    BY <1>1, <1>4, <2>1
  <2>3. QED
    BY <1>5, <2>1, <2>2 DEF InOrder
<1>7. QED
  BY <1>3, <1>4, <1>5, <1>6 DEF end

\* What the invariant says of the snapshots.
LEMMA StoredSnapshots ==
  ASSUME HistoryInv
  PROVE  /\ snapshots \in Seq(TimedSnapshots) /\ Len(snapshots) \in Nat
         /\ Len(snapshots) <= MaxDataPoints /\ DOMAIN snapshots = 1..Len(snapshots)
         /\ \A i \in DOMAIN snapshots : /\ snapshots[i].time \in Nat
                                        /\ snapshots[i].by \in Collectors /\ snapshots[i].by \in Collecting
         /\ loop \in [Collectors -> LoopStates] /\ now \in Nat
<1>1. \A i \in DOMAIN snapshots : snapshots[i] \in TimedSnapshots
  BY LenProperties, ElementOfSeq DEF HistoryInv, HistoryTypes
<1>2. QED
  BY <1>1, LenProperties DEF HistoryInv, HistoryTypes, TimedSnapshots

\* A step that leaves the storage and the loops alone while time passes.
LEMMA HistoryKept ==
  ASSUME HistoryInv, UNCHANGED <<snapshots, baseline, loop>>, now' \in Nat,
         steady' => steady /\ now <= now'
  PROVE  HistoryInv'
<1>1. /\ \A i \in DOMAIN snapshots : snapshots[i].time \in Nat
      /\ \A l \in Collectors : loop[l].time \in Nat
      /\ now \in Nat
  BY StoredSnapshots DEF LoopStates
<1>2. HistoryTypes' /\ EnoughSamples'
  BY DEF HistoryInv, HistoryTypes, EnoughSamples, Collecting
<1>3. steady' => InTime'
  <2>1. SUFFICES ASSUME steady' PROVE InTime'
    OBVIOUS
  <2>2. InTime /\ now <= now'
    BY <2>1 DEF HistoryInv
  <2>3. InOrder(snapshots)' /\ NoneExpired'
    BY <2>2 DEF InTime, NoneExpired, Collecting, Young
  <2>4. (\A i \in DOMAIN snapshots : snapshots[i].time <= now')
        /\ (\A l \in Collectors : loop[l].time <= now')
    BY <1>1, <2>2 DEF InTime
  <2>5. QED
    BY <2>2, <2>3, <2>4 DEF InTime
<1>4. QED
  BY <1>2, <1>3 DEF HistoryInv

\* A loop goes on, and the snapshots stay.
LEMMA LoopGoesOn ==
  ASSUME HistoryInv, NEW l \in Collectors, NEW next \in LoopStates,
         loop' = [loop EXCEPT ![l] = next], UNCHANGED <<snapshots, now, steady>>,
         next.at \notin {"idle", "update"}, next.time \in {0, now},
         next.at = "push" => next.time = now,
         next.at = "install" => next.count \in MinSamples..MaxDataPoints,
         baseline' # NoBaseline => baseline'.count \in MinSamples..MaxDataPoints
  PROVE  HistoryInv'
<1>1. /\ loop'[l] = next /\ \A m \in Collectors : m # l => loop'[m] = loop[m]
      /\ loop' \in [Collectors -> LoopStates] /\ now \in Nat
  BY StoredSnapshots
<1>2. \A m \in Collectors : m = l \/ m \in Collecting => m \in Collecting'
  BY <1>1 DEF Collecting
<1>3. HistoryTypes'
  BY <1>1, <1>2, StoredSnapshots DEF HistoryInv, HistoryTypes
<1>4. EnoughSamples'
  BY <1>1 DEF HistoryInv, EnoughSamples
<1>5. ASSUME steady PROVE InTime'
  <2>1. InTime
    BY <1>5 DEF HistoryInv
  <2>2. NoneExpired'
    BY <1>1, <1>2 DEF NoneExpired
  <2>3. \A i \in DOMAIN snapshots :
          loop'[snapshots[i].by].at = "push" => snapshots[i].time <= loop'[snapshots[i].by].time
    BY <1>1, <2>1, StoredSnapshots DEF InTime
  <2>4. \A m \in Collectors : loop'[m].time <= now
    BY <1>1, <2>1 DEF InTime
  <2>5. QED
    BY <2>1, <2>2, <2>3, <2>4 DEF InTime
<1>6. QED
  BY <1>3, <1>4, <1>5 DEF HistoryInv

\* The history begins empty.
LEMMA HistoryInitInv == HistoryInit => HistoryInv
<1>1. SUFFICES ASSUME HistoryInit PROVE HistoryInv
  OBVIOUS
<1>2. snapshots \in Seq(TimedSnapshots) /\ Len(snapshots) = 0 /\ DOMAIN snapshots = {}
  BY <1>1, EmptySeq, LenProperties DEF HistoryInit
<1>3. /\ loop \in [Collectors -> LoopStates] /\ now = 0 /\ baseline = NoBaseline
      /\ \A l \in Collectors : loop[l].at = "idle" /\ loop[l].time = 0
  BY <1>1 DEF HistoryInit, NotStarted, LoopStates, LoopPlaces
<1>4. HistoryTypes /\ EnoughSamples
  BY <1>2, <1>3, HistoryAssumption DEF HistoryTypes, EnoughSamples
<1>5. InTime
  BY <1>2, <1>3 DEF InTime, InOrder, NoneExpired
<1>6. QED
  BY <1>4, <1>5 DEF HistoryInv

\* A snapshot is appended and the newest stay.
LEMMA PushInv ==
  ASSUME HistoryInv, NEW l \in Collectors, collect_snapshot(l)
  PROVE  HistoryInv'
<1> DEFINE last == [time |-> loop[l].time, by |-> l]
           all == Append(snapshots, last)
<1>1. /\ loop[l].at = "push" /\ loop[l].time \in Nat /\ last \in TimedSnapshots
      /\ snapshots' = Newest(all, MaxDataPoints)
      /\ loop' = [loop EXCEPT ![l] = [at |-> "cleanup", time |-> now, count |-> 0]]
      /\ UNCHANGED <<baseline, now, steady>>
  BY StoredSnapshots DEF collect_snapshot, Turns, LoopStates, TimedSnapshots
<1>2. /\ loop'[l] = [at |-> "cleanup", time |-> now, count |-> 0]
      /\ \A m \in Collectors : m # l => loop'[m] = loop[m]
      /\ loop' \in [Collectors -> LoopStates]
  BY <1>1, StoredSnapshots DEF LoopStates, LoopPlaces
<1>3. /\ all \in Seq(TimedSnapshots) /\ Len(all) = Len(snapshots) + 1
      /\ \A i \in 1..Len(all) : all[i] = IF i <= Len(snapshots) THEN snapshots[i] ELSE last
  BY <1>1, StoredSnapshots, AppendProperties
<1> HIDE DEF all
<1>4. PICK first \in 1..Len(all) + 1 :
        snapshots' = SubSeq(all, first, Len(all)) /\ Len(all) - first + 1 <= MaxDataPoints
  <2>1. Len(all) \in Nat /\ MaxDataPoints \in Nat
    BY <1>3, StoredSnapshots, HistoryAssumption
  <2>2. CASE Len(all) > MaxDataPoints
    <3>1. /\ Len(all) - MaxDataPoints + 1 \in 1..Len(all) + 1
          /\ Len(all) - (Len(all) - MaxDataPoints + 1) + 1 <= MaxDataPoints
      BY <2>1, <2>2
    <3>2. snapshots' = SubSeq(all, Len(all) - MaxDataPoints + 1, Len(all))
      BY <1>1, <2>2 DEF Newest
    <3>3. QED
      BY <3>1, <3>2
  <2>3. CASE ~(Len(all) > MaxDataPoints)
    <3>1. 1 \in 1..Len(all) + 1 /\ Len(all) - 1 + 1 <= MaxDataPoints
      BY <2>1, <2>3
    <3>2. snapshots' = all
      BY <1>1, <2>3 DEF Newest
    <3>3. SubSeq(all, 1, Len(all)) = all
      BY <1>3, SubSeqFull
    <3>4. QED
      BY <3>1, <3>2, <3>3
  <2>4. QED
    BY <2>2, <2>3
<1>5. /\ snapshots' \in Seq(TimedSnapshots) /\ Len(snapshots') <= MaxDataPoints
      /\ InOrder(all) => InOrder(snapshots')
      /\ \A i \in DOMAIN snapshots' : \E j \in DOMAIN all : snapshots'[i] = all[j]
  BY <1>3, <1>4, EndsInOrder
<1>6. DOMAIN all = 1..Len(snapshots) + 1 /\ DOMAIN snapshots = 1..Len(snapshots)
      /\ Len(snapshots) \in Nat
  BY <1>3, StoredSnapshots, LenProperties
<1>7. \A i \in DOMAIN snapshots' :
        snapshots'[i] = last \/ \E j \in DOMAIN snapshots : snapshots'[i] = snapshots[j]
  <2>1. \A j \in DOMAIN all : all[j] = last \/ (j \in DOMAIN snapshots /\ all[j] = snapshots[j])
    BY <1>3, <1>6
  <2>2. QED
    BY <1>5, <2>1
<1>8. l \in Collecting' /\ \A m \in Collecting : m \in Collecting'
  BY <1>2 DEF Collecting
<1>9. HistoryTypes'
  BY <1>1, <1>2, <1>5, <1>7, <1>8, StoredSnapshots DEF HistoryTypes
<1>10. EnoughSamples'
  BY <1>1, <1>2 DEF HistoryInv, EnoughSamples
<1>11. ASSUME steady PROVE InTime'
  <2>1. InTime
    BY <1>11 DEF HistoryInv
  <2>2. InOrder(all)
    <3>1. SUFFICES ASSUME NEW i \in DOMAIN all, NEW j \in DOMAIN all, i < j,
                          all[i].by = all[j].by
                   PROVE  all[i].time <= all[j].time
      BY DEF InOrder
    <3>2. i \in DOMAIN snapshots /\ all[i] = snapshots[i]
      BY <1>3, <1>6, <3>1
    <3>3. CASE j \in DOMAIN snapshots
      BY <1>3, <1>6, <2>1, <3>1, <3>2, <3>3 DEF InTime, InOrder
    <3>4. CASE j \notin DOMAIN snapshots
      <4>1. all[j] = last
        BY <1>3, <1>6, <3>4
      <4>2. QED
        BY <1>1, <2>1, <3>1, <3>2, <4>1 DEF InTime
    <3>5. QED
      BY <3>3, <3>4
  <2>3. \A m \in Collectors : Collecting' = {m} => loop'[m].at # "update"
    BY <1>2, <1>8
  <2>4. NoneExpired'
    BY <2>3 DEF NoneExpired
  <2>5. \A i \in DOMAIN snapshots' : snapshots'[i].time <= now
    <3>1. last.time <= now
      BY <2>1 DEF InTime
    <3>2. QED
      BY <1>7, <2>1, <3>1 DEF InTime
  <2>6. \A i \in DOMAIN snapshots' : loop'[snapshots'[i].by].at = "push" =>
          snapshots'[i].time <= loop'[snapshots'[i].by].time
    <3>1. SUFFICES ASSUME NEW i \in DOMAIN snapshots', loop'[snapshots'[i].by].at = "push"
                   PROVE  snapshots'[i].time <= loop'[snapshots'[i].by].time
      OBVIOUS
    <3>2. snapshots'[i].by # l
      BY <1>2, <3>1
    <3>3. PICK j \in DOMAIN snapshots : snapshots'[i] = snapshots[j]
      BY <1>7, <3>2
    <3>4. loop'[snapshots[j].by] = loop[snapshots[j].by]
      BY <1>2, <3>2, <3>3, StoredSnapshots
    <3>5. QED
      BY <2>1, <3>1, <3>3, <3>4 DEF InTime
  <2>7. \A m \in Collectors : loop'[m].time <= now
    <3>1. now <= now
      BY StoredSnapshots
    <3>2. QED
      BY <1>2, <2>1, <3>1 DEF InTime
  <2>8. QED
    BY <1>1, <1>5, <2>2, <2>4, <2>5, <2>6, <2>7 DEF InTime
<1>12. QED
  BY <1>1, <1>9, <1>10, <1>11 DEF HistoryInv

\* A loop drops what is old from the front.
LEMMA CleanupInv ==
  ASSUME HistoryInv, NEW l \in Collectors, cleanup_old_data(l)
  PROVE  HistoryInv'
<1> DEFINE time == loop[l].time
<1>1. /\ DropOld(time) /\ loop[l].at = "cleanup" /\ time \in Nat
      /\ loop' = [loop EXCEPT ![l] = [at |-> "update", time |-> time, count |-> 0]]
      /\ baseline' = baseline \/ baseline' = NoBaseline
      /\ UNCHANGED <<now, steady>>
  BY StoredSnapshots DEF cleanup_old_data, Turns, LoopStates
<1>2. /\ loop'[l] = [at |-> "update", time |-> time, count |-> 0]
      /\ \A m \in Collectors : m # l => loop'[m] = loop[m]
      /\ loop' \in [Collectors -> LoopStates]
  BY <1>1, StoredSnapshots DEF LoopStates, LoopPlaces
<1> HIDE DEF time
<1>3. PICK first \in 1..Len(snapshots) + 1 :
        /\ snapshots' = SubSeq(snapshots, first, Len(snapshots))
        /\ first \in DOMAIN snapshots => Young(snapshots[first], time)
  <2>1. CASE snapshots' = <<>>
    <3>1. SubSeq(snapshots, Len(snapshots) + 1, Len(snapshots)) = <<>>
      BY StoredSnapshots, SubSeqEmpty
    <3>2. Len(snapshots) + 1 \notin DOMAIN snapshots
          /\ Len(snapshots) + 1 \in 1..Len(snapshots) + 1
      BY StoredSnapshots
    <3>3. QED
      BY <2>1, <3>1, <3>2
  <2>2. CASE snapshots' # <<>>
    <3>1. PICK first \in DOMAIN snapshots :
            /\ snapshots' = SubSeq(snapshots, first, Len(snapshots))
            /\ Young(snapshots[first], time)
      BY <1>1, <2>2 DEF DropOld
    <3>2. first \in 1..Len(snapshots) + 1
      BY StoredSnapshots
    <3>3. QED
      BY <3>1, <3>2
  <2>3. QED
    BY <2>1, <2>2
<1>4. /\ snapshots' \in Seq(TimedSnapshots) /\ Len(snapshots') = Len(snapshots) - first + 1
      /\ InOrder(snapshots) => InOrder(snapshots')
      /\ \A i \in DOMAIN snapshots' :
            \E j \in DOMAIN snapshots : j >= first /\ snapshots'[i] = snapshots[j]
  BY <1>3, StoredSnapshots, EndsInOrder
<1>5. Len(snapshots') <= MaxDataPoints
  BY <1>4, StoredSnapshots, HistoryAssumption
<1>6. Collecting' = Collecting /\ l \in Collecting
  BY <1>1, <1>2 DEF Collecting
<1>7. HistoryTypes'
  BY <1>1, <1>2, <1>4, <1>5, <1>6, StoredSnapshots DEF HistoryTypes
<1>8. EnoughSamples'
  BY <1>1, <1>2 DEF HistoryInv, EnoughSamples
<1>9. ASSUME steady PROVE InTime'
  <2>1. InTime
    BY <1>9 DEF HistoryInv
  <2>2. ASSUME NEW m \in Collectors, Collecting = {m}, NEW i \in DOMAIN snapshots'
        PROVE  m = l /\ Young(snapshots'[i], time)
    <3>1. m = l
      BY <1>6, <2>2
    <3>2. PICK j \in DOMAIN snapshots : j >= first /\ snapshots'[i] = snapshots[j]
      BY <1>4
    <3>3. first \in DOMAIN snapshots /\ j \in Int /\ first \in Int
      BY <3>2, StoredSnapshots
    <3>4. snapshots[first].by = snapshots[j].by
      BY <2>2, <3>3, StoredSnapshots
    <3>5. snapshots[first].time <= snapshots[j].time
      <4>1. CASE first = j
        BY <3>3, <4>1, StoredSnapshots
      <4>2. CASE first < j
        BY <2>1, <3>3, <3>4, <4>2 DEF InTime, InOrder
      <4>3. QED
        BY <3>2, <3>3, <4>1, <4>2
    <3>6. snapshots[first].time >= time - Retention
      BY <1>3, <3>3 DEF Young
    <3>7. snapshots[j].time \in Nat /\ snapshots[first].time \in Nat /\ time - Retention \in Int
      BY <1>1, <3>3, StoredSnapshots, HistoryAssumption
    <3>8. QED
      BY <3>1, <3>2, <3>5, <3>6, <3>7 DEF Young
  <2>3. NoneExpired'
    <3>1. SUFFICES ASSUME NEW m \in Collectors, Collecting' = {m}, NEW i \in DOMAIN snapshots'
                   PROVE  Young(snapshots'[i], loop'[m].time)
      BY DEF NoneExpired, Young
    <3>2. m = l /\ Young(snapshots'[i], time)
      BY <1>6, <2>2, <3>1
    <3>3. QED
      BY <1>2, <3>2
  <2>4. \A i \in DOMAIN snapshots' :
          /\ snapshots'[i].time <= now
          /\ loop'[snapshots'[i].by].at = "push" =>
                snapshots'[i].time <= loop'[snapshots'[i].by].time
    BY <1>2, <1>4, <2>1, StoredSnapshots DEF InTime
  <2>5. \A m \in Collectors : loop'[m].time <= now
    BY <1>2, <2>1 DEF InTime, time
  <2>6. QED
    BY <1>1, <1>4, <2>1, <2>3, <2>4, <2>5 DEF InTime
<1>10. QED
  BY <1>1, <1>7, <1>8, <1>9 DEF HistoryInv

\* A loop counts what is recent.
LEMMA CountInv ==
  ASSUME HistoryInv, NEW l \in Collectors, update_baselines(l)
  PROVE  HistoryInv'
<1>1. PICK recent \in SUBSET DOMAIN snapshots :
        /\ UNCHANGED <<snapshots, baseline, now, steady>>
        /\ \/ Turns(l, "collect", 0, 0)
           \/ ~(Cardinality(recent) < MinSamples) /\ Turns(l, "install", now, Cardinality(recent))
  BY DEF update_baselines
<1>2. Cardinality(recent) \in Nat /\ Cardinality(recent) <= MaxDataPoints
  <2>1. IsFiniteSet(1..Len(snapshots)) /\ Cardinality(1..Len(snapshots)) = Len(snapshots)
    <3>1. Len(snapshots) \in Nat /\ 1 \in Int /\ Len(snapshots) \in Int
      BY StoredSnapshots
    <3>2. IsFiniteSet(1..Len(snapshots))
      BY <3>1, FS_Interval
    <3>3. Cardinality(1..Len(snapshots)) =
             IF 1 > Len(snapshots) THEN 0 ELSE Len(snapshots) - 1 + 1
      BY <3>1, FS_Interval
    <3>4. QED
      BY <3>1, <3>2, <3>3
  <2>2. recent \subseteq 1..Len(snapshots)
    BY StoredSnapshots
  <2>3. Cardinality(recent) \in Nat /\ Cardinality(recent) <= Len(snapshots)
    BY <2>1, <2>2, FS_Subset, FS_CardinalityType
  <2>4. QED
    BY <2>3, StoredSnapshots, HistoryAssumption
<1>3. baseline' # NoBaseline => baseline'.count \in MinSamples..MaxDataPoints
  BY <1>1 DEF HistoryInv, EnoughSamples
<1>4. CASE Turns(l, "collect", 0, 0)
  <2>1. [at |-> "collect", time |-> 0, count |-> 0] \in LoopStates
    BY DEF LoopStates, LoopPlaces
  <2>2. QED
    BY <1>1, <1>3, <1>4, <2>1, LoopGoesOn DEF Turns
<1>5. CASE ~(Cardinality(recent) < MinSamples) /\ Turns(l, "install", now, Cardinality(recent))
  <2>1. [at |-> "install", time |-> now, count |-> Cardinality(recent)] \in LoopStates
    BY <1>2, StoredSnapshots DEF LoopStates, LoopPlaces
  <2>2. Cardinality(recent) \in MinSamples..MaxDataPoints
    BY <1>2, <1>5, HistoryAssumption
  <2>3. QED
    BY <1>1, <1>3, <1>5, <2>1, <2>2, LoopGoesOn DEF Turns
<1>6. QED
  BY <1>1, <1>4, <1>5

\* The loops write, or the others leave the history alone.
LEMMA HistoryNextInv == HistoryInv /\ [HistoryNext]_historyVars => HistoryInv'
<1>1. SUFFICES ASSUME HistoryInv, [HistoryNext]_historyVars PROVE HistoryInv'
  OBVIOUS
<1>2. baseline # NoBaseline => baseline.count \in MinSamples..MaxDataPoints
  BY <1>1 DEF HistoryInv, EnoughSamples
<1>3. CASE \/ UNCHANGED historyVars \/ \E l \in Collectors : AsksToWrite(l)
           \/ \E r \in Readers : Enter(r, "trend") \/ Enter(r, "compare") \/ ReaderStep(r)
  <2>1. UNCHANGED <<snapshots, baseline, loop, now, steady>>
    BY <1>3 DEF historyVars, AsksToWrite, Enter, ReaderStep, get_trend_analysis, trend_refused,
       detect_anomalies, trend_done, compare_with_baseline, Locks, Leave
  <2>2. QED
    BY <1>1, <2>1, StoredSnapshots, HistoryKept
<1>4. CASE pass \/ fall_back
  <2>1. UNCHANGED <<snapshots, baseline, loop>> /\ now' \in Nat /\ (steady' => steady /\ now <= now')
    BY <1>1, <1>4, StoredSnapshots DEF pass, fall_back
  <2>2. QED
    BY <1>1, <2>1, HistoryKept
<1>5. ASSUME NEW l \in Collectors, start_collection(l) PROVE HistoryInv'
  <2>1. [at |-> "collect", time |-> 0, count |-> 0] \in LoopStates
    BY DEF LoopStates, LoopPlaces
  <2>2. QED
    BY <1>1, <1>2, <1>5, <2>1, LoopGoesOn DEF start_collection, Turns
<1>6. ASSUME NEW l \in Collectors, take_snapshot(l) PROVE HistoryInv'
  <2>1. [at |-> "push", time |-> now, count |-> 0] \in LoopStates
    BY <1>1, StoredSnapshots DEF LoopStates, LoopPlaces
  <2>2. QED
    BY <1>1, <1>2, <1>6, <2>1, LoopGoesOn DEF take_snapshot, Turns
<1>7. ASSUME NEW l \in Collectors, install_baselines(l) PROVE HistoryInv'
  <2>1. [at |-> "collect", time |-> 0, count |-> 0] \in LoopStates
    BY DEF LoopStates, LoopPlaces
  <2>2. baseline'.count \in MinSamples..MaxDataPoints
    BY <1>1, <1>7, StoredSnapshots DEF install_baselines, HistoryInv, EnoughSamples
  <2>3. QED
    BY <1>1, <1>7, <2>1, <2>2, LoopGoesOn DEF install_baselines, Turns
<1>8. QED
  BY <1>1, <1>3, <1>4, <1>5, <1>6, <1>7, PushInv, CleanupInv, CountInv DEF HistoryNext, LoopStep

\* What a loop carries between two locks stays good for the history, whatever the other loops
\* and the clock do.
THEOREM HistoryInvariant == HistorySpec => []HistoryInv
<1>1. HistoryInit => HistoryInv
  BY HistoryInitInv
<1>2. HistoryInv /\ [HistoryNext]_historyVars => HistoryInv'
  BY HistoryNextInv
<1>3. QED
  BY <1>1, <1>2, PTL DEF HistorySpec

\* The history keeps its limit and no baseline rests on too few or too many samples; while the
\* clock is steady each loop's snapshots are in order, and what one loop alone leaves behind
\* is young enough.
THEOREM HistoryIsSound == HistorySpec => []HistorySound
<1>1. HistoryInv => HistorySound
  BY DEF HistoryInv, HistoryTypes, EnoughSamples, InTime, HistorySound
<1>2. QED
  BY <1>1, HistoryInvariant, PTL

-----------------------------------------------------------------------------
(***************************************************************************)
(* InteractiveExecution: a session is executed and told as if it were alone *)
(***************************************************************************)
Places == {"none", "validate", "start", "step", "pause", "paused", "inspect", "store", "report",
           "next", "returned", "failed"}
Kinds == {"TestCaseStarted", "TestCaseCompleted"}
Sessions ==
    [at : Places, id : Nat, cases : Seq(DebugCases), options : DebugOptions \cup {DefaultOptions},
     step : Nat, results : Seq(StepType), snapshots : SUBSET Nat, tests : Nat,
     errors : Seq({"InvalidUrl"})]

DebugTypes ==
    /\ session \in [Debuggers -> Sessions] /\ sessions \in Nat
    /\ publications \in Seq(Nat \X Kinds) /\ inspection_history \in Seq(Nat)
    /\ DOMAIN execution_state = {"id", "current_step", "is_paused", "total_steps", "breakpoints",
                                 "step_results"}
    /\ execution_state.id = sessions

\* The ids are those of the sessions begun, and no two clients have the same.
Numbered ==
    /\ \A c \in Debuggers : session[c].id <= sessions
    /\ \A c, d \in Debuggers : c # d => session[c].id # session[d].id \/ session[c].id = 0
    /\ \A i \in DOMAIN publications : publications[i][1] <= sessions /\ publications[i][1] # 0
    /\ \A i \in DOMAIN inspection_history : inspection_history[i] <= sessions

\* How far a session is, by where it is.
Executes(s) ==
    /\ s.at = "none" <=> s.id = 0
    /\ s.at = "none" => s = NoSession
    /\ s.at # "none" =>
          LET steps == create_execution_steps(Head(s.cases))
          IN  /\ s.cases # <<>>
              /\ Len(s.results) = IF s.at \in {"store", "report", "failed"} THEN s.step + 1
                                  ELSE s.step
              /\ Len(s.results) <= Len(steps)
              /\ \A i \in 1..Len(s.results) : s.results[i] = steps[i]
              /\ s.at \in {"pause", "paused", "inspect"} => s.step < Len(steps)
              /\ s.at \in {"validate", "start"} => s.step = 0
              /\ s.at = "validate" => s.options.dry_run
              /\ s.options.dry_run => s.at \in {"validate", "returned"} /\ s.step = 0
              /\ Done(s) => s.step = Len(steps)
              /\ s.at = "next" => Len(s.cases) > 1
              /\ s.snapshots = IF s.options.inspect_variables THEN 0..Len(s.results) - 1 ELSE {}

\* What it has publications, and how often it was inspected.
EventsOf(events, id, kind) == {i \in DOMAIN events : events[i] = <<id, kind>>}
SnapshotsOf(history, id) == {i \in DOMAIN history : history[i] = id}
HasStarted(s) == s.at \notin {"none", "validate", "start"} /\ ~s.options.dry_run
Tells(s, events) ==
    LET started == EventsOf(events, s.id, "TestCaseStarted")
        completed == EventsOf(events, s.id, "TestCaseCompleted")
    IN  /\ HasStarted(s) => \E i \in DOMAIN events : started = {i}
        /\ ~HasStarted(s) => started = {}
        /\ Done(s) => \E i \in DOMAIN events : completed = {i}
        /\ ~Done(s) => completed = {}
        /\ \A i \in started, j \in completed : i < j
Takes(s, history) ==
    s.id # 0 => Cardinality(SnapshotsOf(history, s.id)) = Cardinality(s.snapshots)

\* The last session has the shared state to itself, unless another one ran beside it.
Alone(c) ==
    session[c].id = sessions /\ session[c].id # 0 /\ session[c].id \notin shared_by =>
        /\ \A d \in Debuggers \ {c} : ~Running(d)
        /\ execution_state.step_results =
              IF session[c].at = "store" THEN Front(session[c].results) ELSE session[c].results
        /\ execution_state.is_paused <=> session[c].at = "paused"

SessionOK(c) == Executes(session[c]) /\ Tells(session[c], publications)
                /\ Takes(session[c], inspection_history) /\ Alone(c)
DebugInv == DebugTypes /\ Numbered /\ \A c \in Debuggers : SessionOK(c)

\* The last element goes back where it was.
LEMMA FrontAndLast ==
  ASSUME NEW S, NEW seq \in Seq(S), Len(seq) > 0
  PROVE  Append(Front(seq), Last(seq)) = seq
<1>1. PICK begin \in Seq(S), e \in S : seq = Append(begin, e)
  <2>1. seq # <<>>
    BY EmptySeq
  <2>2. QED
    BY <2>1, SequenceEmptyOrAppend
<1>2. QED
  BY <1>1, LastOne

\* The steps of a test case are steps.
LEMMA StepsKnown == \A case : create_execution_steps(case) \in Seq(StepType)
<1>1. /\ <<"RequestExecution">> \in Seq(StepType) /\ <<"AssertionValidation">> \in Seq(StepType)
      /\ <<"VariableExtraction">> \in Seq(StepType) /\ <<>> \in Seq(StepType)
  BY DEF StepType
<1>2. ASSUME NEW case PROVE create_execution_steps(case) \in Seq(StepType)
  <2>1. PICK a \in Seq(StepType) :
          a = IF case.assertions > 0 THEN <<"AssertionValidation">> ELSE <<>>
    BY <1>1
  <2>2. PICK v \in Seq(StepType) :
          v = IF case.extractions THEN <<"VariableExtraction">> ELSE <<>>
    BY <1>1
  <2>3. create_execution_steps(case) = <<"RequestExecution">> \o a \o v
    BY <2>1, <2>2 DEF create_execution_steps
  <2>4. <<"RequestExecution">> \o a \in Seq(StepType)
    BY <1>1, ConcatProperties
  <2>5. QED
    BY <2>3, <2>4, ConcatProperties
<1>3. QED
  BY <1>2

\* One more event is one of a session and a kind.
LEMMA EventsGrow ==
  ASSUME NEW events \in Seq(Nat \X Kinds), NEW id \in Nat, NEW kind \in Kinds
  PROVE  /\ Append(events, <<id, kind>>) \in Seq(Nat \X Kinds)
         /\ DOMAIN events = 1..Len(events) /\ Len(events) \in Nat
         /\ DOMAIN Append(events, <<id, kind>>) = 1..Len(events) + 1
         /\ \A x, k : EventsOf(events, x, k) \subseteq 1..Len(events)
         /\ \A x, k : EventsOf(Append(events, <<id, kind>>), x, k) =
               IF x = id /\ k = kind THEN EventsOf(events, x, k) \cup {Len(events) + 1}
               ELSE EventsOf(events, x, k)
         /\ \A i \in DOMAIN Append(events, <<id, kind>>) :
               Append(events, <<id, kind>>)[i] =
                  IF i <= Len(events) THEN events[i] ELSE <<id, kind>>
<1>1. PICK e \in Nat \X Kinds : e = <<id, kind>>
  OBVIOUS
<1>2. PICK more \in Seq(Nat \X Kinds) : more = Append(events, e)
  BY LastOne
<1>3. /\ DOMAIN events = 1..Len(events) /\ Len(events) \in Nat /\ DOMAIN more = 1..Len(events) + 1
      /\ \A i \in 1..Len(events) : more[i] = events[i]
      /\ more[Len(events) + 1] = e
  BY <1>2, LastOne
<1>4. \A i \in DOMAIN more : more[i] = IF i <= Len(events) THEN events[i] ELSE e
  BY <1>3
<1>5. ASSUME NEW x, NEW k
      PROVE  EventsOf(more, x, k) =
               IF x = id /\ k = kind THEN EventsOf(events, x, k) \cup {Len(events) + 1}
               ELSE EventsOf(events, x, k)
  <2>1. <<x, k>> = e <=> x = id /\ k = kind
    BY <1>1
  <2>2. \A i : i \in EventsOf(more, x, k) <=>
           i \in EventsOf(events, x, k) \/ (i = Len(events) + 1 /\ <<x, k>> = e)
    BY <1>3, <1>4 DEF EventsOf
  <2>3. QED
    BY <2>1, <2>2
<1>6. \A x, k : EventsOf(events, x, k) \subseteq 1..Len(events)
  BY <1>3 DEF EventsOf
<1>7. QED
  BY <1>1, <1>2, <1>3, <1>4, <1>5, <1>6

\* One more snapshot is one of a session.
LEMMA HistoryGrows ==
  ASSUME NEW history \in Seq(Nat), NEW id \in Nat
  PROVE  /\ Append(history, id) \in Seq(Nat)
         /\ \A x : /\ IsFiniteSet(SnapshotsOf(history, x))
                   /\ Cardinality(SnapshotsOf(history, x)) \in Nat
         /\ \A x : Cardinality(SnapshotsOf(Append(history, id), x)) =
               IF x = id THEN Cardinality(SnapshotsOf(history, x)) + 1
               ELSE Cardinality(SnapshotsOf(history, x))
         /\ \A i \in DOMAIN Append(history, id) :
               Append(history, id)[i] = id
               \/ (i \in DOMAIN history /\ Append(history, id)[i] = history[i])
<1>2. PICK more \in Seq(Nat) : more = Append(history, id)
  BY LastOne
<1>3. /\ DOMAIN history = 1..Len(history) /\ Len(history) \in Nat
      /\ DOMAIN more = 1..Len(history) + 1
      /\ \A i \in 1..Len(history) : more[i] = history[i]
      /\ more[Len(history) + 1] = id
  BY <1>2, LastOne
<1>4. ASSUME NEW x PROVE SnapshotsOf(history, x) \subseteq 1..Len(history)
                         /\ IsFiniteSet(SnapshotsOf(history, x))
                         /\ Cardinality(SnapshotsOf(history, x)) \in Nat
  <2>1. SnapshotsOf(history, x) \subseteq 1..Len(history)
    BY <1>3 DEF SnapshotsOf
  <2>2. IsFiniteSet(1..Len(history))
    BY <1>3, FS_Interval
  <2>3. QED
    BY <2>1, <2>2, FS_Subset, FS_CardinalityType
<1>5. ASSUME NEW x
      PROVE  Cardinality(SnapshotsOf(more, x)) =
               IF x = id THEN Cardinality(SnapshotsOf(history, x)) + 1
               ELSE Cardinality(SnapshotsOf(history, x))
  <2>1. \A i : i \in SnapshotsOf(more, x) <=>
           i \in SnapshotsOf(history, x) \/ (i = Len(history) + 1 /\ x = id)
    BY <1>3 DEF SnapshotsOf
  <2>2. Len(history) + 1 \notin SnapshotsOf(history, x)
    BY <1>3, <1>4
  <2>3. CASE x = id
    <3>1. SnapshotsOf(more, x) = SnapshotsOf(history, x) \cup {Len(history) + 1}
      BY <2>1, <2>3
    <3>2. PICK taken : taken = SnapshotsOf(history, x)
      OBVIOUS
    <3>3. IsFiniteSet(taken) /\ Len(history) + 1 \notin taken
      BY <1>4, <2>2, <3>2
    <3>4. Cardinality(taken \cup {Len(history) + 1}) = Cardinality(taken) + 1
      BY <3>3, FS_AddElement
    <3>5. QED
      BY <2>3, <3>1, <3>2, <3>4
  <2>4. CASE x # id
    <3>1. SnapshotsOf(more, x) = SnapshotsOf(history, x)
      BY <2>1, <2>4
    <3>2. QED
      BY <2>4, <3>1
  <2>5. QED
    BY <2>3, <2>4
<1>6. \A i \in DOMAIN more : more[i] = id \/ (i \in DOMAIN history /\ more[i] = history[i])
  BY <1>3
<1>7. QED
  BY <1>2, <1>4, <1>5, <1>6

\* Events of other sessions change nothing for a session, and one of its own is told.
LEMMA TellsKept ==
  ASSUME NEW s \in Sessions, NEW events \in Seq(Nat \X Kinds), Tells(s, events),
         NEW id \in Nat, NEW kind \in Kinds, id # s.id
  PROVE  Tells(s, Append(events, <<id, kind>>))
<1>1. PICK more : more = Append(events, <<id, kind>>)
  OBVIOUS
<1>2. /\ \A x, k : EventsOf(Append(events, <<id, kind>>), x, k) =
            IF x = id /\ k = kind THEN EventsOf(events, x, k) \cup {Len(events) + 1}
            ELSE EventsOf(events, x, k)
      /\ DOMAIN events = 1..Len(events) /\ Len(events) \in Nat
      /\ DOMAIN Append(events, <<id, kind>>) = 1..Len(events) + 1
  BY EventsGrow, ZenonT(60)
<1>3. /\ \A k : EventsOf(more, s.id, k) = EventsOf(events, s.id, k)
      /\ DOMAIN events \subseteq DOMAIN more
  <2>1. \A k : EventsOf(Append(events, <<id, kind>>), s.id, k) = EventsOf(events, s.id, k)
    BY <1>2
  <2>2. 1..Len(events) \subseteq 1..Len(events) + 1
    BY <1>2
  <2>3. QED
    BY <1>1, <1>2, <2>1, <2>2
<1>4. Tells(s, more)
  BY <1>3 DEF Tells
<1>5. QED
  BY <1>1, <1>4

\* A snapshot for another session is none for this one.
LEMMA TakesKept ==
  ASSUME NEW s \in Sessions, NEW history \in Seq(Nat), Takes(s, history),
         NEW id \in Nat, id # s.id
  PROVE  Takes(s, Append(history, id))
BY HistoryGrows DEF Takes

\* A session that goes on leaves the others as they are.
LEMMA SessionStep ==
  ASSUME DebugInv, NEW c \in Debuggers, Running(c), NEW t \in Sessions, t.id = session[c].id,
         session' = [session EXCEPT ![c] = t], UNCHANGED <<sessions, shared_by>>,
         DOMAIN execution_state' = DOMAIN execution_state,
         execution_state'.id = execution_state.id,
         \/ publications' = publications
         \/ \E kind \in Kinds : publications' = Append(publications, <<t.id, kind>>),
         \/ inspection_history' = inspection_history
         \/ inspection_history' = Append(inspection_history, t.id),
         Executes(t), Tells(t, publications'), Takes(t, inspection_history'),
         /\ execution_state.step_results =
               IF session[c].at = "store" THEN Front(session[c].results) ELSE session[c].results
         /\ execution_state.is_paused <=> session[c].at = "paused"
         => /\ execution_state'.step_results =
                  IF t.at = "store" THEN Front(t.results) ELSE t.results
            /\ execution_state'.is_paused <=> t.at = "paused"
  PROVE  DebugInv'
<1>1. DebugTypes /\ Numbered /\ \A d \in Debuggers : SessionOK(d)
  BY DEF DebugInv
<1>2. \A d \in Debuggers : session'[d] = IF d = c THEN t ELSE session[d]
  BY <1>1 DEF DebugTypes
<1>3. t.id \in Nat /\ t.id # 0 /\ t.id <= sessions
  <2>1. Executes(session[c]) /\ session[c].at # "none" /\ session[c] \in Sessions
    BY <1>1 DEF SessionOK, Running, DebugTypes
  <2>2. QED
    BY <1>1, <2>1 DEF Executes, Numbered, Sessions
<1>4. DebugTypes'
  <2>1. publications' \in Seq(Nat \X Kinds)
    <3>1. publications \in Seq(Nat \X Kinds)
      BY <1>1 DEF DebugTypes
    <3>2. \A kind \in Kinds : Append(publications, <<t.id, kind>>) \in Seq(Nat \X Kinds)
      BY <1>3, <3>1, EventsGrow
    <3>3. QED
      BY <3>1, <3>2
  <2>2. inspection_history' \in Seq(Nat)
    <3>1. inspection_history \in Seq(Nat)
      BY <1>1 DEF DebugTypes
    <3>2. Append(inspection_history, t.id) \in Seq(Nat)
      BY <1>3, <3>1, HistoryGrows
    <3>3. QED
      BY <3>1, <3>2
  <2>3. session' \in [Debuggers -> Sessions]
    BY <1>1 DEF DebugTypes
  <2>4. QED
    BY <1>1, <2>1, <2>2, <2>3 DEF DebugTypes
<1>5. Numbered'
  <2>1. \A d \in Debuggers : session'[d].id = session[d].id
    BY <1>2
  <2>2. \A i \in DOMAIN publications' : publications'[i][1] <= sessions /\ publications'[i][1] # 0
    <3>1. CASE publications' = publications
      BY <1>1, <3>1 DEF Numbered
    <3>2. ASSUME NEW kind \in Kinds, publications' = Append(publications, <<t.id, kind>>)
          PROVE  \A i \in DOMAIN publications' : publications'[i][1] <= sessions /\ publications'[i][1] # 0
      <4>1. /\ \A i \in DOMAIN publications' : publications'[i] = IF i <= Len(publications) THEN publications[i]
                                                          ELSE <<t.id, kind>>
            /\ DOMAIN publications = 1..Len(publications) /\ Len(publications) \in Nat
            /\ DOMAIN publications' = 1..Len(publications) + 1
        BY <1>1, <1>3, <3>2, EventsGrow DEF DebugTypes
      <4>2. \A i \in DOMAIN publications' : i <= Len(publications) => i \in DOMAIN publications
        BY <4>1
      <4>3. <<t.id, kind>>[1] = t.id
        OBVIOUS
      <4>4. QED
        BY <1>1, <1>3, <4>1, <4>2, <4>3 DEF Numbered
    <3>3. QED
      BY <3>1, <3>2
  <2>3. \A i \in DOMAIN inspection_history' : inspection_history'[i] <= sessions
    <3>1. CASE inspection_history' = inspection_history
      BY <1>1, <3>1 DEF Numbered
    <3>2. CASE inspection_history' = Append(inspection_history, t.id)
      BY <1>1, <1>3, <3>2, HistoryGrows DEF Numbered, DebugTypes
    <3>3. QED
      BY <3>1, <3>2
  <2>4. QED
    BY <1>1, <2>1, <2>2, <2>3 DEF Numbered
<1>6. ASSUME NEW d \in Debuggers, d # c PROVE SessionOK(d)'
  <2>1. PICK s \in Sessions : s = session[d] /\ session'[d] = s
    BY <1>1, <1>2, <1>6 DEF DebugTypes
  <2>2. Executes(s) /\ Tells(s, publications) /\ Takes(s, inspection_history) /\ Alone(d)
    BY <1>1, <2>1 DEF SessionOK
  <2>3. s.id # t.id
    BY <1>1, <1>3, <1>6, <2>1 DEF Numbered
  <2>4. Tells(s, publications')
    BY <1>1, <1>3, <2>2, <2>3, TellsKept DEF DebugTypes
  <2>5. Takes(s, inspection_history')
    BY <1>1, <1>3, <2>2, <2>3, TakesKept DEF DebugTypes
  <2>6. Alone(d)'
    BY <1>6, <2>1, <2>2 DEF Alone
  <2>7. QED
    BY <2>1, <2>2, <2>4, <2>5, <2>6 DEF SessionOK
<1>7. SessionOK(c)'
  <2>1. Alone(c)'
    <3>1. SUFFICES ASSUME t.id = sessions, t.id \notin shared_by
                   PROVE  /\ \A d \in Debuggers \ {c} : ~Running(d)'
                          /\ execution_state'.step_results =
                                IF t.at = "store" THEN Front(t.results) ELSE t.results
                          /\ execution_state'.is_paused <=> t.at = "paused"
      BY <1>2 DEF Alone
    <3>2. /\ \A d \in Debuggers \ {c} : ~Running(d)
          /\ execution_state.step_results =
                IF session[c].at = "store" THEN Front(session[c].results) ELSE session[c].results
          /\ execution_state.is_paused <=> session[c].at = "paused"
      BY <1>1, <1>3, <3>1 DEF SessionOK, Alone
    <3>3. \A d \in Debuggers \ {c} : ~Running(d)'
      BY <1>2, <3>2 DEF Running
    <3>4. QED
      BY <3>2, <3>3
  <2>2. session'[c] = t
    BY <1>2
  <2>3. QED
    BY <2>1, <2>2 DEF SessionOK
<1>8. QED
  BY <1>4, <1>5, <1>6, <1>7 DEF DebugInv

StepsOf(s) == create_execution_steps(Head(s.cases))
SameData(s, t) ==
    /\ t.id = s.id /\ t.cases = s.cases /\ t.options = s.options
    /\ t.step = s.step /\ t.results = s.results /\ t.snapshots = s.snapshots

\* What a session knows when it goes on, and what it keeps.
LEMMA GoesOn ==
  ASSUME NEW s \in Sessions, NEW place \in Places
  PROVE  /\ [s EXCEPT !.at = place] \in Sessions /\ [s EXCEPT !.at = place].at = place
         /\ SameData(s, [s EXCEPT !.at = place])
BY DEF Sessions, SameData

\* The ways from one place to the next that execute no step.
OnTheWay(s, place) ==
    \/ s.at = "start" /\ place = "step"
    \/ s.at = "step" /\ place \in {"pause", "inspect"} /\ s.step < Len(StepsOf(s))
    \/ s.at = "pause" /\ place = "paused"
    \/ s.at = "paused" /\ place = "inspect"
    \/ s.at = "store" /\ place = "report"
    \/ s.at = "report" /\ place = "failed"
    \/ /\ s.at = "step" /\ place \in {"returned", "next"} /\ s.step = Len(StepsOf(s))
       /\ place = "next" => Len(s.cases) > 1

\* Whatever is known of what a session executed is still known on such a way.
LEMMA WayExecutes ==
  ASSUME NEW s \in Sessions, NEW t \in Sessions, Executes(s), OnTheWay(s, t.at), SameData(s, t)
  PROVE  Executes(t) /\ ~s.options.dry_run /\ ~t.options.dry_run
<1>1. s.at # "none" /\ s.id # 0 /\ t.at # "none" /\ ~s.options.dry_run
  BY DEF Executes, OnTheWay
<1>2. /\ s.cases # <<>>
      /\ Len(s.results) = IF s.at \in {"store", "report", "failed"} THEN s.step + 1 ELSE s.step
      /\ Len(s.results) <= Len(StepsOf(s))
      /\ \A i \in 1..Len(s.results) : s.results[i] = StepsOf(s)[i]
      /\ s.at \in {"pause", "paused", "inspect"} => s.step < Len(StepsOf(s))
      /\ s.snapshots = IF s.options.inspect_variables THEN 0..Len(s.results) - 1 ELSE {}
  BY <1>1 DEF Executes, StepsOf
<1>3. /\ t.id = s.id /\ t.cases = s.cases /\ t.options = s.options /\ StepsOf(t) = StepsOf(s)
      /\ t.step = s.step /\ t.results = s.results /\ t.snapshots = s.snapshots
  BY DEF SameData, StepsOf
<1>4. /\ t.cases # <<>>
      /\ Len(t.results) = IF t.at \in {"store", "report", "failed"} THEN t.step + 1 ELSE t.step
      /\ Len(t.results) <= Len(StepsOf(t))
      /\ \A i \in 1..Len(t.results) : t.results[i] = StepsOf(t)[i]
      /\ t.at \in {"pause", "paused", "inspect"} => t.step < Len(StepsOf(t))
      /\ t.at \notin {"validate", "start"} /\ ~t.options.dry_run
      /\ Done(t) => t.step = Len(StepsOf(t))
      /\ t.at = "next" => Len(t.cases) > 1
      /\ t.snapshots = IF t.options.inspect_variables THEN 0..Len(t.results) - 1 ELSE {}
  BY <1>1, <1>2, <1>3 DEF OnTheWay, Done
<1>5. QED
  BY <1>1, <1>3, <1>4 DEF Executes, StepsOf

\* A session that neither starts nor ends has told as much as before.
LEMMA SameTold ==
  ASSUME NEW s \in Sessions, NEW t \in Sessions, NEW events, Tells(s, events), t.id = s.id,
         HasStarted(t) <=> HasStarted(s), Done(t) <=> Done(s)
  PROVE  Tells(t, events)
BY DEF Tells

\* What is known of a session that is running.
LEMMA RunningSession ==
  ASSUME DebugInv, NEW c \in Debuggers, Running(c)
  PROVE  /\ session[c] \in Sessions /\ session[c].id \in Nat
         /\ Executes(session[c]) /\ Tells(session[c], publications)
         /\ Takes(session[c], inspection_history)
         /\ publications \in Seq(Nat \X Kinds) /\ inspection_history \in Seq(Nat)
         /\ DOMAIN execution_state = {"id", "current_step", "is_paused", "total_steps",
                                      "breakpoints", "step_results"}
BY DEF DebugInv, DebugTypes, SessionOK, Running, Sessions

\* A dry run returns, and its session has neither executed nor told anything.
LEMMA ValidateStep ==
  ASSUME DebugInv, NEW c \in Debuggers, validate(c)
  PROVE  DebugInv'
<1>1. Running(c)
  BY DEF validate, Running
<1>2. PICK s \in Sessions : s = session[c]
  BY <1>1, RunningSession
<1>3. Executes(s) /\ Tells(s, publications) /\ Takes(s, inspection_history) /\ s.at = "validate"
  BY <1>1, <1>2, RunningSession DEF validate
<1>4. PICK e \in Seq({"InvalidUrl"}) : e = validate_test_case(Head(s.cases))
  <2>1. <<"InvalidUrl">> \in Seq({"InvalidUrl"}) /\ <<>> \in Seq({"InvalidUrl"})
    OBVIOUS
  <2>2. QED
    BY <2>1 DEF validate_test_case
<1>5. PICK mid \in Sessions : mid = [s EXCEPT !.at = "returned"]
  BY GoesOn DEF Places
<1>6. PICK t \in Sessions : t = [mid EXCEPT !.errors = e]
  BY DEF Sessions
<1>7. mid.at = "returned" /\ SameData(s, mid)
  BY <1>5, GoesOn DEF Places
<1>8. t.at = mid.at /\ SameData(mid, t)
  BY <1>6 DEF Sessions, SameData
<1>9. t.at = "returned" /\ SameData(s, t)
  BY <1>7, <1>8 DEF SameData
<1>10. Executes(t)
  BY <1>3, <1>9 DEF Executes, SameData, Done
<1>11. HasStarted(t) <=> HasStarted(s)
  BY <1>3, <1>9 DEF Executes, SameData, HasStarted
<1>12. Done(t) <=> Done(s)
  BY <1>3, <1>9 DEF Executes, SameData, Done
<1>13. Tells(t, publications) /\ Takes(t, inspection_history)
  BY <1>3, <1>9, <1>11, <1>12, SameTold DEF SameData, Takes
<1>14. session' = [session EXCEPT ![c] = t]
       /\ UNCHANGED <<execution_state, publications, inspection_history, sessions, shared_by>>
  BY <1>2, <1>4, <1>5, <1>6 DEF validate
<1>15. t.id = session[c].id /\ t.results = session[c].results
  BY <1>2, <1>9 DEF SameData
<1>16. QED
  BY <1>1, <1>2, <1>3, <1>9, <1>10, <1>13, <1>14, <1>15, SessionStep

\* The other shares that change no more than the place: a step begins, pauses and goes on, and
\* a subscriber fails.
LEMMA PlaceSteps ==
  ASSUME DebugInv, NEW c \in Debuggers,
         \/ begin_step(c) \/ pause_execution(c)
         \/ report_step_progress(c) /\ Goes(c, "failed")
  PROVE  DebugInv'
<1>1. Running(c)
  BY DEF begin_step, pause_execution, report_step_progress, Running
<1>2. PICK s \in Sessions : s = session[c]
  BY <1>1, RunningSession
<1>3. Executes(s) /\ Tells(s, publications) /\ Takes(s, inspection_history)
  BY <1>1, <1>2, RunningSession
<1>4. PICK place \in Places :
        /\ Goes(c, place)
        /\ \/ /\ s.at = "step" /\ place \in {"pause", "inspect"} /\ s.step < Len(StepsOf(s))
              /\ execution_state' = [execution_state EXCEPT !.current_step = s.step]
           \/ /\ s.at = "pause" /\ place = "paused"
              /\ execution_state' = [execution_state EXCEPT !.is_paused = TRUE]
           \/ /\ s.at = "paused" /\ place = "inspect"
              /\ execution_state' = [execution_state EXCEPT !.is_paused = FALSE]
           \/ /\ s.at = "report" /\ place = "failed"
              /\ execution_state' = execution_state
  <2>1. CASE begin_step(c)
    <3>1. /\ s.at = "step" /\ s.step < Len(StepsOf(s))
          /\ execution_state' = [execution_state EXCEPT !.current_step = s.step]
          /\ Goes(c, IF Breaks(c) THEN "pause" ELSE "inspect")
      BY <1>2, <2>1 DEF begin_step, StepsOf, Steps
    <3>2. PICK place \in {"pause", "inspect"} : Goes(c, place)
      BY <3>1
    <3>3. QED
      BY <3>1, <3>2 DEF Places
  <2>2. CASE pause_execution(c)
    <3>1. CASE s.at = "pause"
      <4>1. /\ Goes(c, "paused")
            /\ execution_state' = [execution_state EXCEPT !.is_paused = TRUE]
        <5>1. session[c].at = "pause" /\ (session[c].at = "pause") = TRUE
          BY <1>2, <3>1
        <5>2. QED
          BY <2>2, <5>1 DEF pause_execution
      <4>2. QED
        BY <3>1, <4>1 DEF Places
    <3>2. CASE s.at = "paused"
      <4>1. /\ Goes(c, "inspect")
            /\ execution_state' = [execution_state EXCEPT !.is_paused = FALSE]
        <5>1. session[c].at # "pause" /\ (session[c].at = "pause") = FALSE
          BY <1>2, <3>2
        <5>2. QED
          BY <2>2, <5>1 DEF pause_execution
      <4>2. QED
        BY <3>2, <4>1 DEF Places
    <3>3. QED
      BY <1>2, <2>2, <3>1, <3>2 DEF pause_execution
  <2>3. CASE report_step_progress(c) /\ Goes(c, "failed")
    BY <1>2, <2>3 DEF report_step_progress, Places
  <2>4. QED
    BY <2>1, <2>2, <2>3
<1>way. OnTheWay(s, place)
  BY <1>4 DEF OnTheWay
<1>5. PICK t \in Sessions : t = [s EXCEPT !.at = place]
  BY GoesOn
<1>6. t.at = place /\ SameData(s, t)
  BY <1>5, GoesOn
<1>7. Executes(t) /\ ~s.options.dry_run /\ ~t.options.dry_run
  BY <1>3, <1>6, <1>way, WayExecutes
<1>8. Tells(t, publications) /\ Takes(t, inspection_history)
  <2>1. HasStarted(t) <=> HasStarted(s)
    BY <1>4, <1>6, <1>7 DEF HasStarted
  <2>2. Done(t) <=> Done(s)
    BY <1>4, <1>6 DEF Done
  <2>3. QED
    BY <1>3, <1>6, <2>1, <2>2, SameTold DEF SameData, Takes
<1>9. /\ session' = [session EXCEPT ![c] = t]
      /\ UNCHANGED <<publications, inspection_history, sessions, shared_by>>
  BY <1>2, <1>4, <1>5 DEF begin_step, pause_execution, report_step_progress, Goes
<1>10. /\ DOMAIN execution_state' = DOMAIN execution_state
       /\ execution_state'.id = execution_state.id
       /\ execution_state'.step_results = execution_state.step_results
       /\ (execution_state.is_paused <=> s.at = "paused") =>
             (execution_state'.is_paused <=> place = "paused")
  <2>1. DOMAIN execution_state = {"id", "current_step", "is_paused", "total_steps",
                                  "breakpoints", "step_results"}
    BY <1>1, RunningSession
  <2>2. QED
    BY <1>4, <2>1
<1>11. t.id = session[c].id /\ t.results = session[c].results
  BY <1>2, <1>6 DEF SameData
<1>12. QED
  BY <1>1, <1>2, <1>4, <1>6, <1>7, <1>8, <1>9, <1>10, <1>11, SessionStep

\* The session starts, and has told that once.
LEMMA StartStep ==
  ASSUME DebugInv, NEW c \in Debuggers, publish_started(c)
  PROVE  DebugInv'
<1>1. Running(c)
  BY DEF publish_started, publish_execution_event, Running
<1>2. PICK s \in Sessions : s = session[c]
  BY <1>1, RunningSession
<1>3. Executes(s) /\ Tells(s, publications) /\ Takes(s, inspection_history) /\ s.at = "start"
  BY <1>1, <1>2, RunningSession DEF publish_started, publish_execution_event
<1>4. PICK t \in Sessions : t = [s EXCEPT !.at = "step"]
  BY GoesOn DEF Places
<1>5. t.at = "step" /\ SameData(s, t)
  BY <1>4, GoesOn DEF Places
<1>6. Executes(t) /\ ~s.options.dry_run /\ ~t.options.dry_run
  BY <1>3, <1>5, WayExecutes DEF OnTheWay
<1>7. s.id \in Nat /\ t.id = s.id /\ publications \in Seq(Nat \X Kinds)
  BY <1>1, <1>2, <1>5, RunningSession DEF SameData
<1>8. PICK more : more = Append(publications, <<s.id, "TestCaseStarted">>)
  OBVIOUS
<1>9. Tells(t, more)
  <2>1. /\ DOMAIN publications = 1..Len(publications) /\ Len(publications) \in Nat
        /\ DOMAIN more = 1..Len(publications) + 1
        /\ \A x, k : EventsOf(more, x, k) =
              IF x = s.id /\ k = "TestCaseStarted" THEN EventsOf(publications, x, k)
                                                       \cup {Len(publications) + 1}
              ELSE EventsOf(publications, x, k)
    <3>1. PICK kind \in Kinds : kind = "TestCaseStarted"
      BY DEF Kinds
    <3>2. PICK id \in Nat : id = s.id
      BY <1>7
    <3>3. publications \in Seq(Nat \X Kinds)
      BY <1>7
    <3>4. /\ DOMAIN publications = 1..Len(publications) /\ Len(publications) \in Nat
          /\ DOMAIN Append(publications, <<id, kind>>) = 1..Len(publications) + 1
          /\ \A x, k : EventsOf(Append(publications, <<id, kind>>), x, k) =
                IF x = id /\ k = kind THEN EventsOf(publications, x, k) \cup {Len(publications) + 1}
                ELSE EventsOf(publications, x, k)
      BY <3>3, EventsGrow, ZenonT(60)
    <3>5. QED
      BY <1>8, <3>1, <3>2, <3>4
  <2>2. /\ EventsOf(publications, s.id, "TestCaseStarted") = {}
        /\ EventsOf(publications, s.id, "TestCaseCompleted") = {}
    BY <1>3 DEF Tells, HasStarted, Done
  <2>3. /\ EventsOf(more, t.id, "TestCaseStarted") = {Len(publications) + 1}
        /\ EventsOf(more, t.id, "TestCaseCompleted") = {}
    BY <1>7, <2>1, <2>2
  <2>4. Len(publications) + 1 \in DOMAIN more
    BY <2>1
  <2>5. HasStarted(t) /\ ~Done(t)
    BY <1>5, <1>6 DEF HasStarted, Done
  <2>6. QED
    BY <2>3, <2>4, <2>5 DEF Tells
<1>10. Takes(t, inspection_history)
  BY <1>3, <1>5 DEF SameData, Takes
<1>11. /\ session' = [session EXCEPT ![c] = t] /\ publications' = more
       /\ UNCHANGED <<execution_state, inspection_history, sessions, shared_by>>
  BY <1>2, <1>4, <1>8 DEF publish_started, publish_execution_event, Goes
<1>12. t.id = session[c].id /\ t.results = session[c].results
  BY <1>2, <1>5 DEF SameData
<1>13. \E kind \in Kinds : publications' = Append(publications, <<t.id, kind>>)
  BY <1>7, <1>8, <1>11 DEF Kinds
<1>14. QED
  BY <1>1, <1>2, <1>3, <1>5, <1>6, <1>9, <1>10, <1>11, <1>12, <1>13, SessionStep

\* It ends after its last step, and has told that once, after its start.
LEMMA CompleteStep ==
  ASSUME DebugInv, NEW c \in Debuggers, publish_completed(c)
  PROVE  DebugInv'
<1>1. Running(c)
  BY DEF publish_completed, publish_execution_event, Running
<1>2. PICK s \in Sessions : s = session[c]
  BY <1>1, RunningSession
<1>3. Executes(s) /\ Tells(s, publications) /\ Takes(s, inspection_history) /\ s.at = "step"
      /\ s.step = Len(StepsOf(s))
  BY <1>1, <1>2, RunningSession DEF publish_completed, publish_execution_event, StepsOf, Steps
<1>place. PICK place \in {"returned", "next"} :
            place = IF Len(s.cases) = 1 THEN "returned" ELSE "next"
  OBVIOUS
<1>in. place \in Places
  BY DEF Places
<1>4. PICK t \in Sessions : t = [s EXCEPT !.at = place]
  BY <1>in, GoesOn
<1>5. t.at = place /\ SameData(s, t)
  BY <1>in, <1>4, GoesOn
<1>6. Executes(t) /\ ~s.options.dry_run /\ ~t.options.dry_run
  <2>1. s.cases \in Seq(DebugCases) /\ s.cases # <<>>
    BY <1>3 DEF Sessions, Executes
  <2>2. place = "next" => Len(s.cases) > 1
    <3>1. Len(s.cases) \in Nat /\ (Len(s.cases) = 0 => s.cases = <<>>)
      BY <2>1, LenProperties, EmptySeq
    <3>2. PICK l \in Nat : l = Len(s.cases) /\ l # 0
      BY <2>1, <3>1
    <3>3. place = "next" => l # 1
      BY <1>place, <3>2
    <3>4. \A k \in Nat : k = 0 \/ k = 1 \/ k > 1
      OBVIOUS
    <3>5. l > 1 \/ l = 1
      BY <3>2, <3>4, Zenon
    <3>6. QED
      BY <3>2, <3>3, <3>5
  <2>3. OnTheWay(s, t.at)
    BY <1>3, <1>5, <2>2 DEF OnTheWay
  <2>4. QED
    BY <1>3, <1>5, <2>3, WayExecutes
<1>7. s.id \in Nat /\ t.id = s.id /\ publications \in Seq(Nat \X Kinds)
  BY <1>1, <1>2, <1>5, RunningSession DEF SameData
<1>8. PICK more : more = Append(publications, <<s.id, "TestCaseCompleted">>)
  OBVIOUS
<1>9. Tells(t, more)
  <2>1. /\ DOMAIN publications = 1..Len(publications) /\ Len(publications) \in Nat
        /\ DOMAIN more = 1..Len(publications) + 1
        /\ \A x, k : EventsOf(more, x, k) =
              IF x = s.id /\ k = "TestCaseCompleted" THEN EventsOf(publications, x, k)
                                                         \cup {Len(publications) + 1}
              ELSE EventsOf(publications, x, k)
    <3>1. PICK kind \in Kinds : kind = "TestCaseCompleted"
      BY DEF Kinds
    <3>2. PICK id \in Nat : id = s.id
      BY <1>7
    <3>3. publications \in Seq(Nat \X Kinds)
      BY <1>7
    <3>4. /\ DOMAIN publications = 1..Len(publications) /\ Len(publications) \in Nat
          /\ DOMAIN Append(publications, <<id, kind>>) = 1..Len(publications) + 1
          /\ \A x, k : EventsOf(Append(publications, <<id, kind>>), x, k) =
                IF x = id /\ k = kind THEN EventsOf(publications, x, k) \cup {Len(publications) + 1}
                ELSE EventsOf(publications, x, k)
      BY <3>3, EventsGrow, ZenonT(60)
    <3>5. QED
      BY <1>8, <3>1, <3>2, <3>4
  <2>2. PICK i \in DOMAIN publications : EventsOf(publications, s.id, "TestCaseStarted") = {i}
    BY <1>3, <1>6 DEF Tells, HasStarted
  <2>3. EventsOf(publications, s.id, "TestCaseCompleted") = {}
    BY <1>3 DEF Tells, Done
  <2>4. /\ EventsOf(more, t.id, "TestCaseStarted") = {i}
        /\ EventsOf(more, t.id, "TestCaseCompleted") = {Len(publications) + 1}
    BY <1>7, <2>1, <2>2, <2>3
  <2>5. i \in DOMAIN more /\ Len(publications) + 1 \in DOMAIN more /\ i < Len(publications) + 1
    BY <2>1, <2>2
  <2>6. HasStarted(t) /\ Done(t)
    BY <1>5, <1>6 DEF HasStarted, Done
  <2>7. QED
    BY <2>4, <2>5, <2>6 DEF Tells
<1>10. Takes(t, inspection_history)
  BY <1>3, <1>5 DEF SameData, Takes
<1>11. /\ session' = [session EXCEPT ![c] = t] /\ publications' = more
       /\ UNCHANGED <<execution_state, inspection_history, sessions, shared_by>>
  BY <1>2, <1>place, <1>4, <1>8 DEF publish_completed, publish_execution_event
<1>12. t.id = session[c].id /\ t.results = session[c].results
  BY <1>2, <1>5 DEF SameData
<1>13. \E kind \in Kinds : publications' = Append(publications, <<t.id, kind>>)
  BY <1>7, <1>8, <1>11 DEF Kinds
<1>14. QED
  BY <1>1, <1>2, <1>3, <1>5, <1>6, <1>9, <1>10, <1>11, <1>12, <1>13, SessionStep

\* A step that was reported is behind the session.
LEMMA ReportStep ==
  ASSUME DebugInv, NEW c \in Debuggers, report_step_progress(c)
  PROVE  DebugInv'
<1>0. SUFFICES ASSUME session' = [session EXCEPT ![c].at = "step", ![c].step = @ + 1]
               PROVE  DebugInv'
  BY PlaceSteps DEF report_step_progress
<1>1. Running(c)
  BY DEF report_step_progress, Running
<1>2. PICK s \in Sessions : s = session[c]
  BY <1>1, RunningSession
<1>3. Executes(s) /\ Tells(s, publications) /\ Takes(s, inspection_history) /\ s.at = "report"
  BY <1>1, <1>2, RunningSession DEF report_step_progress
<1>4. PICK mid \in Sessions : mid = [s EXCEPT !.at = "step"]
  BY GoesOn DEF Places
<1>5. mid.at = "step" /\ SameData(s, mid)
  BY <1>4, GoesOn DEF Places
<1>n. PICK n \in Nat : n = s.step + 1 /\ n = mid.step + 1
  BY <1>5 DEF Sessions, SameData
<1>6. PICK t \in Sessions : t = [mid EXCEPT !.step = n]
  BY DEF Sessions
<1>7. /\ t.at = "step" /\ t.step = s.step + 1 /\ s.step \in Nat
      /\ t.id = s.id /\ t.cases = s.cases /\ t.options = s.options
      /\ t.results = s.results /\ t.snapshots = s.snapshots
  BY <1>5, <1>n, <1>6 DEF Sessions, SameData
<1>8. ~s.options.dry_run /\ s.id # 0
  BY <1>3 DEF Executes
<1>9. Executes(t)
  <2>1. /\ s.cases # <<>> /\ Len(s.results) = s.step + 1
        /\ Len(s.results) <= Len(StepsOf(s))
        /\ \A i \in 1..Len(s.results) : s.results[i] = StepsOf(s)[i]
        /\ s.snapshots = IF s.options.inspect_variables THEN 0..Len(s.results) - 1 ELSE {}
    BY <1>3 DEF Executes, StepsOf
  <2>2. StepsOf(t) = StepsOf(s)
    BY <1>7 DEF StepsOf
  <2>3. /\ t.cases # <<>> /\ Len(t.results) = t.step /\ Len(t.results) <= Len(StepsOf(t))
        /\ \A i \in 1..Len(t.results) : t.results[i] = StepsOf(t)[i]
        /\ t.snapshots = IF t.options.inspect_variables THEN 0..Len(t.results) - 1 ELSE {}
        /\ ~Done(t) /\ ~t.options.dry_run /\ t.id # 0
    BY <1>7, <1>8, <2>1, <2>2 DEF Done
  <2>4. QED
    BY <1>7, <2>3 DEF Executes, StepsOf
<1>10. Tells(t, publications) /\ Takes(t, inspection_history)
  <2>1. (HasStarted(t) <=> HasStarted(s)) /\ (Done(t) <=> Done(s))
    BY <1>3, <1>7 DEF HasStarted, Done
  <2>2. QED
    BY <1>3, <1>7, <2>1, SameTold DEF Takes
<1>11. /\ session' = [session EXCEPT ![c] = t]
       /\ UNCHANGED <<execution_state, publications, inspection_history, sessions, shared_by>>
  BY <1>0, <1>2, <1>4, <1>n, <1>6 DEF report_step_progress
<1>12. QED
  BY <1>1, <1>2, <1>3, <1>7, <1>9, <1>10, <1>11, SessionStep

\* The result goes to the shared state, which has it after the ones before when nobody shares.
LEMMA StoreStep ==
  ASSUME DebugInv, NEW c \in Debuggers, store_result(c)
  PROVE  DebugInv'
<1>1. Running(c)
  BY DEF store_result, Running
<1>2. PICK s \in Sessions : s = session[c]
  BY <1>1, RunningSession
<1>3. Executes(s) /\ Tells(s, publications) /\ Takes(s, inspection_history) /\ s.at = "store"
  BY <1>1, <1>2, RunningSession DEF store_result
<1>4. PICK t \in Sessions : t = [s EXCEPT !.at = "report"]
  BY GoesOn DEF Places
<1>5. t.at = "report" /\ SameData(s, t)
  BY <1>4, GoesOn DEF Places
<1>6. Executes(t) /\ ~s.options.dry_run /\ ~t.options.dry_run
  BY <1>3, <1>5, WayExecutes DEF OnTheWay
<1>7. Tells(t, publications) /\ Takes(t, inspection_history)
  <2>1. (HasStarted(t) <=> HasStarted(s)) /\ (Done(t) <=> Done(s))
    BY <1>3, <1>5, <1>6 DEF HasStarted, Done
  <2>2. QED
    BY <1>3, <1>5, <2>1, SameTold DEF SameData, Takes
<1>8. /\ session' = [session EXCEPT ![c] = t]
      /\ execution_state' = [execution_state EXCEPT
                               !.step_results = Append(@, Last(s.results))]
      /\ UNCHANGED <<publications, inspection_history, sessions, shared_by>>
  BY <1>2, <1>4 DEF store_result, Goes
<1>9. Append(Front(s.results), Last(s.results)) = s.results
  <2>1. s.results \in Seq(StepType) /\ s.step \in Nat
    BY DEF Sessions
  <2>2. Len(s.results) = s.step + 1
    BY <1>3 DEF Executes
  <2>3. Len(s.results) > 0
    BY <2>1, <2>2
  <2>4. QED
    BY <2>1, <2>3, FrontAndLast
<1>10. /\ DOMAIN execution_state' = DOMAIN execution_state
       /\ execution_state'.id = execution_state.id
       /\ execution_state'.is_paused = execution_state.is_paused
       /\ execution_state'.step_results = Append(execution_state.step_results, Last(s.results))
  <2>1. DOMAIN execution_state = {"id", "current_step", "is_paused", "total_steps",
                                  "breakpoints", "step_results"}
    BY <1>1, RunningSession
  <2>2. QED
    BY <1>8, <2>1
<1>11. t.id = session[c].id /\ t.results = s.results
  BY <1>2, <1>5 DEF SameData
<1>12. /\ execution_state.step_results =
              IF s.at = "store" THEN Front(s.results) ELSE s.results
       /\ execution_state.is_paused <=> s.at = "paused"
       => /\ execution_state'.step_results = IF t.at = "store" THEN Front(t.results) ELSE t.results
          /\ execution_state'.is_paused <=> t.at = "paused"
  BY <1>3, <1>5, <1>9, <1>10, <1>11
<1>13. QED
  BY <1>1, <1>2, <1>6, <1>7, <1>8, <1>10, <1>11, <1>12, SessionStep

\* The next step of the test case is executed, after a snapshot of its variables.
LEMMA ExecuteStep ==
  ASSUME DebugInv, NEW c \in Debuggers, inspect_and_execute(c)
  PROVE  DebugInv'
<1>1. Running(c)
  BY DEF inspect_and_execute, Running
<1>2. PICK s \in Sessions : s = session[c]
  BY <1>1, RunningSession
<1>3. Executes(s) /\ Tells(s, publications) /\ Takes(s, inspection_history) /\ s.at = "inspect"
  BY <1>1, <1>2, RunningSession DEF inspect_and_execute
<1>4. s.results \in Seq(StepType) /\ s.step \in Nat /\ s.snapshots \subseteq Nat /\ s.id \in Nat
  BY DEF Sessions
<1>5. /\ s.id # 0 /\ s.cases # <<>> /\ Len(s.results) = s.step /\ s.step < Len(StepsOf(s))
      /\ \A i \in 1..Len(s.results) : s.results[i] = StepsOf(s)[i]
      /\ s.snapshots = IF s.options.inspect_variables THEN 0..Len(s.results) - 1 ELSE {}
      /\ ~s.options.dry_run
  BY <1>3 DEF Executes, StepsOf
<1>6. PICK e \in StepType : e = StepsOf(s)[s.step + 1]
  <2>1. StepsOf(s) \in Seq(StepType)
    BY StepsKnown DEF StepsOf
  <2>2. s.step + 1 \in 1..Len(StepsOf(s))
    BY <1>4, <1>5, <2>1, LenProperties
  <2>3. QED
    BY <2>1, <2>2, ElementOfSeq
<1>7. PICK more \in Seq(StepType) : more = Append(s.results, e)
  BY <1>4, LastOne
<1>8. PICK taken \in SUBSET Nat :
        taken = IF s.options.inspect_variables THEN s.snapshots \cup {s.step} ELSE s.snapshots
  BY <1>4
<1>9. PICK mid \in Sessions : mid = [s EXCEPT !.at = "store"]
  BY GoesOn DEF Places
<1>10. mid.at = "store" /\ SameData(s, mid)
  BY <1>9, GoesOn DEF Places
<1>11. PICK seen \in Sessions : seen = [mid EXCEPT !.snapshots = taken]
  BY DEF Sessions
<1>12. PICK t \in Sessions : t = [seen EXCEPT !.results = more]
  BY DEF Sessions
<1>13. /\ t.at = "store" /\ t.id = s.id /\ t.cases = s.cases /\ t.options = s.options
       /\ t.step = s.step /\ t.results = more /\ t.snapshots = taken
  BY <1>10, <1>11, <1>12 DEF Sessions, SameData
<1>14. /\ Len(more) = s.step + 1 /\ Front(more) = s.results
       /\ \A i \in 1..Len(more) : more[i] = StepsOf(s)[i]
  <2>1. /\ Len(more) = Len(s.results) + 1 /\ Front(more) = s.results
        /\ \A i \in 1..Len(s.results) : more[i] = s.results[i]
        /\ more[Len(s.results) + 1] = e
    BY <1>4, <1>7, LastOne
  <2>2. QED
    BY <1>4, <1>5, <1>6, <2>1, SMTT(30)
<1>15. taken = IF s.options.inspect_variables THEN 0..Len(more) - 1 ELSE {}
  <2>1. (0..s.step - 1) \cup {s.step} = 0..s.step + 1 - 1
    BY <1>4
  <2>2. Len(more) - 1 = s.step + 1 - 1
    BY <1>4, <1>14
  <2>3. CASE s.options.inspect_variables
    BY <1>5, <1>8, <2>1, <2>2, <2>3
  <2>4. CASE ~s.options.inspect_variables
    BY <1>5, <1>8, <2>4
  <2>5. QED
    BY <2>3, <2>4
<1>16. Executes(t)
  <2>1. StepsOf(t) = StepsOf(s) /\ StepsOf(s) \in Seq(StepType)
    BY <1>13, StepsKnown DEF StepsOf
  <2>2. /\ t.cases # <<>> /\ Len(t.results) = t.step + 1 /\ Len(t.results) <= Len(StepsOf(t))
        /\ \A i \in 1..Len(t.results) : t.results[i] = StepsOf(t)[i]
        /\ t.snapshots = IF t.options.inspect_variables THEN 0..Len(t.results) - 1 ELSE {}
        /\ ~Done(t) /\ ~t.options.dry_run /\ t.id # 0
    BY <1>4, <1>5, <1>13, <1>14, <1>15, <2>1, LenProperties DEF Done
  <2>3. QED
    BY <1>13, <2>2 DEF Executes, StepsOf
<1>17. Tells(t, publications)
  <2>1. (HasStarted(t) <=> HasStarted(s)) /\ (Done(t) <=> Done(s))
    BY <1>3, <1>13 DEF HasStarted, Done
  <2>2. QED
    BY <1>3, <1>13, <2>1, SameTold
<1>18. /\ session' = [session EXCEPT ![c] = t]
       /\ inspection_history' = IF s.options.inspect_variables
                                THEN Append(inspection_history, s.id) ELSE inspection_history
       /\ UNCHANGED <<execution_state, publications, sessions, shared_by>>
  <2>1. Steps(c)[s.step + 1] = e
    BY <1>2, <1>6 DEF Steps, StepsOf
  <2>2. session' = [session EXCEPT ![c].at = "store", ![c].snapshots = taken,
                                   ![c].results = more]
    BY <1>2, <1>7, <1>8, <2>1 DEF inspect_and_execute
  <2>3. session' = [session EXCEPT ![c] = t]
    BY <1>2, <1>9, <1>11, <1>12, <2>2
  <2>4. QED
    BY <1>2, <2>3 DEF inspect_and_execute
<1>19. Takes(t, inspection_history')
  <2>0. inspection_history \in Seq(Nat)
    BY <1>1, RunningSession
  <2>1. Cardinality(SnapshotsOf(inspection_history, s.id)) = Cardinality(s.snapshots)
    BY <1>3, <1>5 DEF Takes
  <2>2. CASE s.options.inspect_variables
    <3>1. Cardinality(SnapshotsOf(inspection_history', s.id)) = Cardinality(s.snapshots) + 1
      BY <1>4, <1>18, <2>0, <2>1, <2>2, HistoryGrows
    <3>2. Cardinality(taken) = Cardinality(s.snapshots) + 1
      <4>1. s.snapshots = 0..s.step - 1 /\ taken = s.snapshots \cup {s.step}
        BY <1>5, <1>8, <2>2
      <4>2. IsFiniteSet(0..s.step - 1) /\ s.step \notin 0..s.step - 1
        <5>1. 0 \in Int /\ s.step - 1 \in Int
          BY <1>4
        <5>2. IsFiniteSet(0..s.step - 1)
          BY <5>1, FS_Interval
        <5>3. s.step \notin 0..s.step - 1
          BY <1>4
        <5>4. QED
          BY <5>2, <5>3
      <4>3. QED
        BY <4>1, <4>2, FS_AddElement
    <3>3. QED
      BY <1>13, <3>1, <3>2 DEF Takes
  <2>3. CASE ~s.options.inspect_variables
    BY <1>8, <1>13, <1>18, <2>1, <2>3 DEF Takes
  <2>4. QED
    BY <2>2, <2>3
<1>20. QED
  BY <1>1, <1>2, <1>3, <1>13, <1>14, <1>16, <1>17, <1>18, <1>19, SessionStep

\* A new session has the next id, which nobody has used.
LEMMA BeginsStep ==
  ASSUME DebugInv, NEW c \in Debuggers, NEW batch \in Seq(DebugCases), batch # <<>>,
         NEW options \in DebugOptions \cup {DefaultOptions}, NEW tests \in Nat,
         Begins(c, batch, options, tests)
  PROVE  DebugInv'
<1>1. DebugTypes /\ Numbered /\ \A d \in Debuggers : SessionOK(d)
  BY DEF DebugInv
<1>2. PICK place \in {"validate", "start"} :
        place = IF options.dry_run THEN "validate" ELSE "start"
  OBVIOUS
<1>3. PICK n \in Nat : n = sessions + 1 /\ n > sessions /\ n # 0
  BY <1>1 DEF DebugTypes
<1>4. PICK t : t = [at |-> place, id |-> n, cases |-> batch, options |-> options, step |-> 0,
                    results |-> <<>>, snapshots |-> {}, tests |-> tests, errors |-> <<>>]
  OBVIOUS
<1>5. /\ t.at = place /\ t.id = n /\ t.cases = batch /\ t.options = options /\ t.step = 0
      /\ t.results = <<>> /\ t.snapshots = {}
  BY <1>4
<1>6. t \in Sessions
  <2>1. <<>> \in Seq(StepType) /\ <<>> \in Seq({"InvalidUrl"}) /\ place \in Places
    BY DEF Places
  <2>2. QED
    BY <1>4, <2>1 DEF Sessions
<1>7. /\ session' = [session EXCEPT ![c] = t] /\ sessions' = n
      /\ UNCHANGED <<publications, inspection_history>>
      /\ n \notin shared_by' => \A d \in Debuggers \ {c} : ~Running(d)
      /\ DOMAIN execution_state' = {"id", "current_step", "is_paused", "total_steps",
                                    "breakpoints", "step_results"}
      /\ execution_state'.id = n /\ execution_state'.step_results = <<>>
      /\ execution_state'.is_paused = FALSE
  <2>1. t = [NoSession EXCEPT !.id = n, !.cases = batch, !.options = options,
                              !.tests = tests, !.at = place]
    <3>1. PICK a : a = [NoSession EXCEPT !.id = n]
      OBVIOUS
    <3>2. a = [at |-> "none", id |-> n, cases |-> <<>>, options |-> DefaultOptions, step |-> 0,
               results |-> <<>>, snapshots |-> {}, tests |-> 0, errors |-> <<>>]
      BY <3>1 DEF NoSession
    <3>3. PICK b : b = [a EXCEPT !.cases = batch]
      OBVIOUS
    <3>4. b = [at |-> "none", id |-> n, cases |-> batch, options |-> DefaultOptions, step |-> 0,
               results |-> <<>>, snapshots |-> {}, tests |-> 0, errors |-> <<>>]
      BY <3>2, <3>3
    <3>5. PICK d : d = [b EXCEPT !.options = options]
      OBVIOUS
    <3>6. d = [at |-> "none", id |-> n, cases |-> batch, options |-> options, step |-> 0,
               results |-> <<>>, snapshots |-> {}, tests |-> 0, errors |-> <<>>]
      BY <3>4, <3>5
    <3>7. PICK e : e = [d EXCEPT !.tests = tests]
      OBVIOUS
    <3>8. e = [at |-> "none", id |-> n, cases |-> batch, options |-> options, step |-> 0,
               results |-> <<>>, snapshots |-> {}, tests |-> tests, errors |-> <<>>]
      BY <3>6, <3>7
    <3>9. PICK f : f = [e EXCEPT !.at = place]
      OBVIOUS
    <3>10. f = [at |-> place, id |-> n, cases |-> batch, options |-> options, step |-> 0,
                results |-> <<>>, snapshots |-> {}, tests |-> tests, errors |-> <<>>]
      BY <3>8, <3>9
    <3>11. QED
      BY <1>4, <3>1, <3>3, <3>5, <3>7, <3>9, <3>10
  <2>2. /\ session' = [session EXCEPT ![c] = t] /\ sessions' = n
        /\ UNCHANGED <<publications, inspection_history>>
    BY <1>2, <1>3, <2>1 DEF Begins
  <2>3. n \notin shared_by' => \A d \in Debuggers \ {c} : ~Running(d)
    BY <1>3 DEF Begins
  <2>4. execution_state' = [id |-> n, current_step |-> 0, is_paused |-> FALSE,
                            total_steps |-> calculate_total_steps(Head(batch)),
                            breakpoints |-> options.breakpoints, step_results |-> <<>>]
    BY <1>3 DEF Begins, ResetFor
  <2>5. QED
    BY <2>2, <2>3, <2>4
<1>8. \A d \in Debuggers : session'[d] = IF d = c THEN t ELSE session[d]
  BY <1>1, <1>7 DEF DebugTypes
<1>9. DebugTypes'
  <2>1. session' \in [Debuggers -> Sessions]
    BY <1>1, <1>6, <1>7 DEF DebugTypes
  <2>2. QED
    BY <1>1, <1>3, <1>7, <2>1 DEF DebugTypes
<1>10. Numbered'
  <2>1. /\ sessions \in Nat
        /\ \A d \in Debuggers : session[d] \in Sessions /\ session[d].id <= sessions
    BY <1>1 DEF DebugTypes, Numbered
  <2>2. \A d \in Debuggers : session[d].id \in Nat /\ session[d].id <= n /\ session[d].id # n
    BY <1>3, <2>1 DEF Sessions
  <2>3. \A d \in Debuggers : session'[d].id <= n
    BY <1>5, <1>8, <2>2
  <2>4. \A d, e \in Debuggers : d # e =>
           session'[d].id # session'[e].id \/ session'[d].id = 0
    BY <1>1, <1>5, <1>8, <2>2 DEF Numbered
  <2>5. \A i \in DOMAIN publications : publications[i][1] <= n /\ publications[i][1] # 0
    <3>1. \A i \in DOMAIN publications : publications[i] \in Nat \X Kinds
      <4>1. publications \in Seq(Nat \X Kinds)
        BY <1>1 DEF DebugTypes
      <4>2. DOMAIN publications = 1..Len(publications)
        BY <4>1, LenProperties
      <4>3. QED
        BY <4>1, <4>2, ElementOfSeq
    <3>2. \A i \in DOMAIN publications : publications[i][1] \in Nat
      BY <3>1
    <3>3. QED
      BY <1>1, <1>3, <2>1, <3>2 DEF Numbered
  <2>6. \A i \in DOMAIN inspection_history : inspection_history[i] <= n
    <3>1. \A i \in DOMAIN inspection_history : inspection_history[i] \in Nat
      <4>1. inspection_history \in Seq(Nat)
        BY <1>1 DEF DebugTypes
      <4>2. DOMAIN inspection_history = 1..Len(inspection_history)
        BY <4>1, LenProperties
      <4>3. QED
        BY <4>1, <4>2, ElementOfSeq
    <3>2. QED
      BY <1>1, <1>3, <2>1, <3>1 DEF Numbered
  <2>7. QED
    BY <1>7, <2>3, <2>4, <2>5, <2>6 DEF Numbered
<1>11. ASSUME NEW d \in Debuggers, d # c PROVE SessionOK(d)'
  <2>1. session'[d] = session[d] /\ session[d].id # n
    <3>1. session[d].id <= sessions /\ session[d].id \in Nat /\ sessions \in Nat
      BY <1>1 DEF DebugTypes, Numbered, Sessions
    <3>2. QED
      BY <1>3, <1>8, <1>11, <3>1
  <2>2. Alone(d)'
    BY <1>7, <2>1 DEF Alone
  <2>3. QED
    BY <1>1, <1>7, <2>1, <2>2 DEF SessionOK
<1>12. Executes(t)
  <2>1. create_execution_steps(Head(t.cases)) \in Seq(StepType)
    BY StepsKnown
  <2>2. /\ Len(t.results) = 0 /\ Len(create_execution_steps(Head(t.cases))) \in Nat
        /\ 1..0 = {} /\ 0..0 - 1 = {}
    <3>1. Len(t.results) = 0
      BY <1>5
    <3>2. Len(create_execution_steps(Head(t.cases))) \in Nat
      BY <2>1, LenProperties
    <3>3. QED
      BY <3>1, <3>2
  <2>3. ~Done(t)
    BY <1>5 DEF Done
  <2>4. t.at # "none" /\ t.id # 0 /\ t.at \in {"validate", "start"}
    BY <1>3, <1>5
  <2>5. /\ t.at = "validate" => t.options.dry_run
        /\ t.options.dry_run => t.at = "validate"
    BY <1>2, <1>5
  <2>6. t.cases # <<>>
    BY <1>5
  <2>7. QED
    BY <1>5, <2>2, <2>3, <2>4, <2>5, <2>6 DEF Executes
<1>13. Tells(t, publications)
  <2>1. \A i \in DOMAIN publications : publications[i][1] # n
    <3>1. publications \in Seq(Nat \X Kinds)
      BY <1>1 DEF DebugTypes
    <3>2. DOMAIN publications = 1..Len(publications)
      BY <3>1, LenProperties
    <3>3. \A i \in DOMAIN publications : publications[i] \in Nat \X Kinds
      BY <3>1, <3>2, ElementOfSeq
    <3>4. \A i \in DOMAIN publications : publications[i][1] \in Nat
      BY <3>3
    <3>5. QED
      BY <1>1, <1>3, <3>4 DEF Numbered, DebugTypes
  <2>2. \A kind : EventsOf(publications, t.id, kind) = {}
    <3>1. \A kind : <<n, kind>>[1] = n
      OBVIOUS
    <3>2. QED
      BY <1>5, <2>1, <3>1 DEF EventsOf
  <2>3. ~HasStarted(t) /\ ~Done(t)
    BY <1>5 DEF HasStarted, Done
  <2>4. QED
    BY <2>2, <2>3 DEF Tells
<1>14. Takes(t, inspection_history)
  <2>1. \A i \in DOMAIN inspection_history : inspection_history[i] # n
    <3>1. inspection_history \in Seq(Nat)
      BY <1>1 DEF DebugTypes
    <3>2. DOMAIN inspection_history = 1..Len(inspection_history)
      BY <3>1, LenProperties
    <3>3. \A i \in DOMAIN inspection_history : inspection_history[i] \in Nat
      BY <3>1, <3>2, ElementOfSeq
    <3>4. QED
      BY <1>1, <1>3, <3>3 DEF Numbered, DebugTypes
  <2>2. SnapshotsOf(inspection_history, t.id) = {}
    BY <1>5, <2>1 DEF SnapshotsOf
  <2>3. QED
    BY <1>5, <2>2 DEF Takes
<1>15. Alone(c)'
  <2>1. SUFFICES ASSUME n \notin shared_by'
                 PROVE  /\ \A d \in Debuggers \ {c} : ~Running(d)'
                        /\ execution_state'.step_results = <<>>
                        /\ execution_state'.is_paused = FALSE /\ t.at # "paused"
                        /\ t.at # "store"
    BY <1>5, <1>7, <1>8 DEF Alone
  <2>2. \A d \in Debuggers \ {c} : ~Running(d)'
    BY <1>7, <1>8, <2>1 DEF Running
  <2>3. QED
    BY <1>5, <1>7, <2>2
<1>16. SessionOK(c)'
  <2>1. session'[c] = t
    BY <1>8
  <2>2. QED
    BY <1>7, <1>12, <1>13, <1>14, <1>15, <2>1 DEF SessionOK
<1>17. QED
  BY <1>9, <1>10, <1>11, <1>16 DEF DebugInv

\* Nobody has begun a session.
LEMMA DebugInitInv == DebugInit => DebugInv
<1>1. SUFFICES ASSUME DebugInit PROVE DebugInv
  OBVIOUS
<1>2. /\ \A c \in Debuggers : session[c] = NoSession
      /\ sessions = 0 /\ publications = <<>> /\ inspection_history = <<>>
  BY <1>1 DEF DebugInit
<1>3. DebugTypes
  <2>1. /\ <<>> \in Seq(StepType) /\ <<>> \in Seq({"InvalidUrl"}) /\ <<>> \in Seq(DebugCases)
        /\ <<>> \in Seq(Nat \X Kinds) /\ <<>> \in Seq(Nat) /\ 0 \in Nat /\ {} \subseteq Nat
    OBVIOUS
  <2>2. NoSession \in Sessions
    BY <2>1 DEF NoSession, Sessions, Places
  <2>3. session \in [Debuggers -> Sessions]
    BY <1>1, <2>2 DEF DebugInit
  <2>4. QED
    BY <1>1, <2>1, <2>3 DEF DebugInit, DebugTypes
<1>4. NoSession.id = 0 /\ NoSession.at = "none"
  BY DEF NoSession
<1>5. DOMAIN publications = {} /\ DOMAIN inspection_history = {}
  BY <1>2
<1>6. Numbered
  BY <1>2, <1>4, <1>5 DEF Numbered
<1>7. ASSUME NEW c \in Debuggers PROVE SessionOK(c)
  <2>1. session[c] = NoSession
    BY <1>2
  <2>2. Executes(NoSession)
    BY <1>4 DEF Executes
  <2>3. Tells(NoSession, publications)
    <3>1. \A id, kind : EventsOf(publications, id, kind) = {}
      BY <1>5 DEF EventsOf
    <3>2. ~HasStarted(NoSession) /\ ~Done(NoSession)
      BY <1>4 DEF HasStarted, Done
    <3>3. QED
      BY <3>1, <3>2 DEF Tells
  <2>4. Takes(NoSession, inspection_history) /\ Alone(c)
    BY <1>4, <2>1 DEF Takes, Alone
  <2>5. QED
    BY <2>1, <2>2, <2>3, <2>4 DEF SessionOK
<1>8. QED
  BY <1>3, <1>6, <1>7 DEF DebugInv

\* Each action keeps the invariant.
LEMMA DebugNextInv == DebugInv /\ [DebugNext]_debugVars => DebugInv'
<1>1. SUFFICES ASSUME DebugInv, [DebugNext]_debugVars PROVE DebugInv'
  OBVIOUS
<1>2. CASE UNCHANGED debugVars
  BY <1>1, <1>2 DEF debugVars, DebugInv, DebugTypes, Numbered, SessionOK, Alone, Running
<1>3. ASSUME NEW c \in Debuggers, NEW case \in DebugCases, NEW options \in DebugOptions,
             execute_single_with_debugging(c, case, options)
      PROVE  DebugInv'
  <2>1. <<case>> \in Seq(DebugCases) /\ <<case>> # <<>>
    OBVIOUS
  <2>2. QED
    BY <1>1, <1>3, <2>1, BeginsStep DEF execute_single_with_debugging
<1>4. ASSUME NEW c \in Debuggers, NEW batch \in DebugBatches, execute(c, batch)
      PROVE  DebugInv'
  <2>1. batch \in Seq(DebugCases) /\ batch # <<>>
    BY DebugAssumption
  <2>2. QED
    BY <1>1, <1>4, <2>1, BeginsStep DEF execute
<1>5. ASSUME NEW c \in Debuggers, next_case(c)
      PROVE  DebugInv'
  <2>1. PICK s \in Sessions : s = session[c]
    BY <1>1 DEF DebugInv, DebugTypes
  <2>2. Begins(c, Tail(s.cases), DefaultOptions, s.tests + 1) /\ s.at = "next"
    BY <1>5, <2>1 DEF next_case
  <2>3. s.cases \in Seq(DebugCases) /\ s.tests + 1 \in Nat
    BY DEF Sessions
  <2>4. Tail(s.cases) \in Seq(DebugCases) /\ Tail(s.cases) # <<>>
    <3>1. Len(s.cases) > 1
      BY <1>1, <2>1, <2>2 DEF DebugInv, SessionOK, Executes
    <3>2. Tail(s.cases) \in Seq(DebugCases) /\ Len(Tail(s.cases)) = Len(s.cases) - 1
      <4>1. s.cases # <<>>
        BY <2>3, <3>1, EmptySeq
      <4>2. QED
        BY <2>3, <4>1, HeadTailProperties
    <3>3. Len(Tail(s.cases)) # 0
      <4>1. PICK l \in Nat : l = Len(s.cases)
        BY <2>3, LenProperties
      <4>2. QED
        BY <3>1, <3>2, <4>1
    <3>4. QED
      BY <3>2, <3>3, EmptySeq
  <2>5. QED
    BY <1>1, <2>2, <2>3, <2>4, BeginsStep
<1>6. QED
  BY <1>1, <1>2, <1>3, <1>4, <1>5, ValidateStep, StartStep, PlaceSteps, ExecuteStep, StoreStep,
     ReportStep, CompleteStep DEF DebugNext

\* Every session is as far as its place says, has told that and, alone, sees it in the state.
THEOREM SessionsInvariant == DebugSpec => []DebugInv
<1>1. DebugInit => DebugInv
  BY DebugInitInv
<1>2. DebugInv /\ [DebugNext]_debugVars => DebugInv'
  BY DebugNextInv
<1>3. QED
  BY <1>1, <1>2, PTL DEF DebugSpec

\* A sequence that has the first elements of another one is a prefix of it.
LEMMA FirstElements ==
  ASSUME NEW S, NEW s \in Seq(S), NEW t \in Seq(S), Len(s) <= Len(t),
         \A i \in 1..Len(s) : s[i] = t[i]
  PROVE  IsPrefix(s, t) /\ (Len(s) = Len(t) => s = t)
<1>1. Len(s) \in Nat /\ Len(t) \in Nat
  BY LenProperties
<1>2. PICK n \in Nat : n = Len(s)
  BY <1>1
<1>3. \A i \in 1..n : t[i] \in S
  BY <1>1, <1>2, ElementOfSeq
<1>4. /\ SubSeq(t, 1, n) \in Seq(S)
      /\ Len(SubSeq(t, 1, n)) = IF 1 <= n THEN n - 1 + 1 ELSE 0
      /\ \A i \in 1..n - 1 + 1 : SubSeq(t, 1, n)[i] = t[1 + i - 1]
  BY <1>2, <1>3, SubSeqProperties
<1>5. PICK front \in Seq(S) : front = SubSeq(t, 1, n)
  BY <1>4
<1>6. Len(front) = Len(s) /\ \A i \in 1..Len(front) : front[i] = s[i]
  BY <1>2, <1>4, <1>5
<1>7. front = s
  BY <1>6, SeqEqual
<1>8. SubSeq(s, 1, Len(s)) = s
  BY SubSeqFull
<1>9. IsPrefix(s, t)
  BY <1>2, <1>5, <1>7, <1>8 DEF IsPrefix
<1>10. Len(s) = Len(t) => s = t
  BY SeqEqual
<1>11. QED
  BY <1>9, <1>10

\* The steps executed are those of the test case, from the first on.
LEMMA OrderFollows == DebugInv => StepsInOrder
<1>1. SUFFICES ASSUME DebugInv, NEW c \in Debuggers,
                      session[c].at \notin {"none", "validate"}, ~session[c].options.dry_run
               PROVE  /\ IsPrefix(session[c].results, Steps(c))
                      /\ session[c].at = "returned" => session[c].results = Steps(c)
                      /\ session[c].options.inspect_variables =>
                            session[c].snapshots = 0..Len(session[c].results) - 1
                      /\ Cardinality(Inspected(session[c].id)) =
                            Cardinality(session[c].snapshots)
  BY DEF StepsInOrder
<1>2. PICK s \in Sessions : s = session[c]
  BY <1>1 DEF DebugInv, DebugTypes
<1>3. Executes(s) /\ Takes(s, inspection_history)
  BY <1>1, <1>2 DEF DebugInv, SessionOK
<1>4. s.results \in Seq(StepType) /\ StepsOf(s) \in Seq(StepType) /\ StepsOf(s) = Steps(c)
  BY <1>2, StepsKnown DEF Sessions, StepsOf, Steps
<1>5. /\ Len(s.results) <= Len(StepsOf(s)) /\ s.id # 0
      /\ \A i \in 1..Len(s.results) : s.results[i] = StepsOf(s)[i]
      /\ s.at = "returned" => Len(s.results) = s.step
      /\ Done(s) => s.step = Len(StepsOf(s))
      /\ s.options.inspect_variables => s.snapshots = 0..Len(s.results) - 1
  BY <1>1, <1>2, <1>3 DEF Executes, StepsOf
<1>6. s.at = "returned" => Len(s.results) = Len(StepsOf(s))
  BY <1>1, <1>2, <1>5 DEF Done
<1>7. IsPrefix(s.results, StepsOf(s)) /\ (s.at = "returned" => s.results = StepsOf(s))
  BY <1>4, <1>5, <1>6, FirstElements
<1>8. Cardinality(Inspected(s.id)) = Cardinality(s.snapshots)
  BY <1>3, <1>5 DEF Takes, Inspected, SnapshotsOf
<1>9. QED
  BY <1>2, <1>4, <1>5, <1>7, <1>8

\* There is at most one event of a kind, and the end has its start before it.
LEMMA PairsFollow == DebugInv => EventsPaired
<1>1. SUFFICES ASSUME DebugInv, NEW c \in Debuggers,
                      NEW started, started = Publications(session[c].id, "TestCaseStarted"),
                      NEW completed, completed = Publications(session[c].id, "TestCaseCompleted")
               PROVE  /\ Cardinality(started) <= 1
                      /\ Cardinality(completed) <= Cardinality(started)
                      /\ Done(session[c]) <=> completed # {}
                      /\ \A i \in started, j \in completed : i < j
                      /\ completed \ refused # {} /\ started \ refused = {}
                         => started \cap refused # {}
                      /\ Done(session[c]) /\ completed \ refused = {}
                         => completed \cap refused # {}
  BY DEF EventsPaired
<1>2. /\ HasStarted(session[c]) => \E i \in DOMAIN publications : started = {i}
      /\ ~HasStarted(session[c]) => started = {}
      /\ Done(session[c]) => \E i \in DOMAIN publications : completed = {i}
      /\ ~Done(session[c]) => completed = {}
      /\ \A i \in started, j \in completed : i < j
  BY <1>1 DEF DebugInv, SessionOK, Tells, Publications, EventsOf
<1>3. Done(session[c]) => HasStarted(session[c])
  BY DEF Done, HasStarted
<1>4. Cardinality({}) = 0 /\ \A i : Cardinality({i}) = 1
  BY FS_EmptySet, FS_Singleton
<1>5. Cardinality(started) = IF HasStarted(session[c]) THEN 1 ELSE 0
  BY <1>2, <1>4
<1>6. Cardinality(completed) = IF Done(session[c]) THEN 1 ELSE 0
  BY <1>2, <1>4
<1>7. completed # {} => started # {}
  BY <1>2, <1>3
<1>8. QED
  BY <1>2, <1>3, <1>5, <1>6, <1>7

\* The shared state is about the last session.
LEMMA AloneFollows == DebugInv => AloneStateTrue
BY DEF DebugInv, DebugTypes, SessionOK, Alone, AloneStateTrue

\* Whatever the sessions of the others do, each executes its steps once and in order, takes
\* its snapshots and publishes its start and then its end, and one that is alone sees itself
\* in the shared state.
THEOREM SessionsAreSound == DebugSpec => []SessionsSound
<1>1. DebugInv => SessionsSound
  BY OrderFollows, PairsFollow, AloneFollows DEF SessionsSound
<1>2. QED
  BY <1>1, SessionsInvariant, PTL

-----------------------------------------------------------------------------
(***************************************************************************)
(* Alerting: what the channels are told of an alert                        *)
(***************************************************************************)
Notes == [kind : {"AlertTriggered", "AlertResolved", "AlertEscalated"}, alert : Nat, level : Nat,
          to : SUBSET Registered]
States == [alert : Nat, status : AlertStatus, first : Nat, level : Int]
Evaluating == {"look", "raise", "resolve", "escalate"}

\* A loop that evaluates or sends has rules to do.
LoopFits(x) ==
    /\ x.at \in {"none", "waiting", "send"} \cup Evaluating
    /\ x.at \in Evaluating \cup {"send"} => x.todo \in Seq(AlertRules) \ {<<>>} /\ x.now \in Nat
    /\ x.at \in Evaluating => DOMAIN x = {"at", "todo", "snapshot", "now"}
    /\ x.at = "send" => x.notification \in Notes

\* An alert that a rule has was raised, and its level reached.
StateFits(state, count) == state.alert <= count /\ (state.alert # NoAlert => state.level >= 0)

AlertTypes ==
    /\ rules \in Seq(AlertRules) /\ raised \in Nat /\ clock \in Nat
    /\ alertState \in [RuleIds -> States] /\ told \in [RuleIds -> Seq(Notes)]
    /\ \A id \in RuleIds : StateFits(alertState[id], raised)
    /\ loops = [l \in Loops |-> loops[l]] /\ \A l \in Loops : LoopFits(loops[l])

\* What may be said of a rule whose state is given: of an alert it still has, nothing beyond
\* its level and not its end.
Fitting(n, state, count) ==
    /\ n.alert \in 1..count
    /\ n.alert = state.alert => n.kind # "AlertResolved" /\ n.level <= state.level
Differ(m, n) == m.kind # n.kind \/ m.alert # n.alert \/ m.level # n.level
SendsTo(x, id) == x.at = "send" /\ Head(x.todo).id = id

\* What is told or about to be sent of a rule fits its state, and is said once.
Once(id) ==
    /\ \A i \in DOMAIN told[id] : Fitting(told[id][i], alertState[id], raised)
    /\ \A i, j \in DOMAIN told[id] : i # j => Differ(told[id][i], told[id][j])
    /\ \A l \in Loops : SendsTo(loops[l], id) =>
          /\ Fitting(loops[l].notification, alertState[id], raised)
          /\ \A i \in DOMAIN told[id] : Differ(loops[l].notification, told[id][i])
          /\ \A m \in Loops \ {l} : SendsTo(loops[m], id) =>
                Differ(loops[l].notification, loops[m].notification)

\* The story of a rule goes on as it may, and is where its state says.
Follows(a, b) ==
    IF b.kind = "AlertTriggered" THEN a.kind = "AlertResolved" /\ b.alert > a.alert
    ELSE /\ a.kind # "AlertResolved" /\ b.alert = a.alert
         /\ b.kind = "AlertEscalated" => b.level > a.level
Story(notes) == \A i \in 1..Len(notes) - 1 : Follows(notes[i], notes[i + 1])
EndsWith(n, state) ==
    IF state.alert = NoAlert THEN n.kind = "AlertResolved"
    ELSE n.kind # "AlertResolved" /\ n.alert = state.alert /\ n.level = state.level
EndsAs(notes, state) ==
    IF notes = <<>> THEN state.alert = NoAlert ELSE EndsWith(Last(notes), state)
Said(notes, x, id) == IF SendsTo(x, id) THEN Append(notes, x.notification) ELSE notes
OnlyLoop(l) == \A m \in Loops \ {l} : loops[m].at = "none"
TellsStory(l) ==
    OnlyLoop(l) =>
        /\ \A id \in RuleIds : /\ Story(Said(told[id], loops[l], id))
                               /\ EndsAs(Said(told[id], loops[l], id), alertState[id])
        /\ loops[l].at = "raise" => alertState[Head(loops[l].todo).id].alert = NoAlert

AlertInv == AlertTypes /\ (\A id \in RuleIds : Once(id)) /\ \A l \in Loops : TellsStory(l)

\* The alert of a rule stays what it is.
StateKept(s, t) == t.alert = s.alert /\ (s.alert # NoAlert => t.level = s.level)

LEMMA KeptFits ==
  ASSUME NEW s \in States, NEW t \in States, StateKept(s, t), NEW count \in Nat
  PROVE  /\ StateFits(s, count) => StateFits(t, count)
         /\ \A n \in Notes : Fitting(n, s, count) => Fitting(n, t, count)
         /\ \A notes : EndsAs(notes, s) => EndsAs(notes, t)
<1>1. StateFits(s, count) => StateFits(t, count)
  BY DEF StateKept, StateFits
<1>2. \A n \in Notes : Fitting(n, s, count) => Fitting(n, t, count)
  BY DEF StateKept, Fitting, NoAlert
<1>3. \A n : EndsWith(n, s) => EndsWith(n, t)
  BY DEF StateKept, EndsWith
<1>4. \A notes : EndsAs(notes, s) => EndsAs(notes, t)
  BY <1>3 DEF EndsAs, StateKept
<1>5. QED
  BY <1>1, <1>2, <1>4

\* One more note in a story.
LEMMA StoryGrows ==
  ASSUME NEW notes \in Seq(Notes), NEW n \in Notes, Story(notes),
         notes = <<>> \/ Follows(Last(notes), n)
  PROVE  Story(Append(notes, n)) /\ Append(notes, n) # <<>> /\ Last(Append(notes, n)) = n
<1>1. PICK more \in Seq(Notes) : more = Append(notes, n)
  BY LastOne
<1>2. /\ Len(more) = Len(notes) + 1 /\ Len(notes) \in Nat
      /\ \A i \in 1..Len(notes) : more[i] = notes[i]
      /\ more[Len(notes) + 1] = n /\ Last(more) = n
  BY <1>1, LastOne
<1>3. ASSUME NEW i \in 1..Len(more) - 1
      PROVE  Follows(more[i], more[i + 1])
  <2>1. CASE i < Len(notes)
    <3>1. i \in 1..Len(notes) - 1 /\ i \in 1..Len(notes) /\ i + 1 \in 1..Len(notes)
      BY <1>2, <2>1
    <3>2. Follows(notes[i], notes[i + 1])
      BY <3>1 DEF Story
    <3>3. QED
      BY <1>2, <3>1, <3>2
  <2>2. CASE ~(i < Len(notes))
    <3>1. i = Len(notes) /\ i \in 1..Len(notes)
      BY <1>2, <2>2
    <3>2. notes # <<>>
      BY <3>1, EmptySeq
    <3>3. more[i] = Last(notes) /\ more[i + 1] = n
      BY <1>2, <3>1 DEF Last
    <3>4. QED
      BY <3>2, <3>3
  <2>3. QED
    BY <2>1, <2>2
<1>4. more # <<>>
  <2>1. Len(more) # 0
    BY <1>2
  <2>2. QED
    BY <2>1, EmptySeq
<1>5. QED
  BY <1>1, <1>2, <1>3, <1>4 DEF Story

\* What a step leaves in place when no loop says anything.
LEMMA WorldMoves ==
  ASSUME AlertInv, UNCHANGED <<loops, told, raised>>,
         rules' \in Seq(AlertRules), clock' \in Nat, alertState' \in [RuleIds -> States],
         \A id \in RuleIds : StateKept(alertState[id], alertState'[id])
  PROVE  AlertInv'
<1>1. AlertTypes /\ (\A id \in RuleIds : Once(id)) /\ \A l \in Loops : TellsStory(l)
  BY DEF AlertInv
<1>2. \A id \in RuleIds : alertState[id] \in States /\ alertState'[id] \in States
  BY <1>1 DEF AlertTypes
<1>3. /\ \A id \in RuleIds : StateFits(alertState[id], raised) => StateFits(alertState'[id], raised)
      /\ \A id \in RuleIds : \A n \in Notes :
            Fitting(n, alertState[id], raised) => Fitting(n, alertState'[id], raised)
      /\ \A id \in RuleIds : \A notes :
            EndsAs(notes, alertState[id]) => EndsAs(notes, alertState'[id])
  BY <1>1, <1>2, KeptFits DEF AlertTypes
<1>4. AlertTypes'
  BY <1>1, <1>3 DEF AlertTypes
<1>5. ASSUME NEW id \in RuleIds PROVE Once(id)'
  <2>1. \A i \in DOMAIN told[id] : told[id][i] \in Notes
    <3>1. told[id] \in Seq(Notes)
      BY <1>1 DEF AlertTypes
    <3>2. QED
      BY <3>1, LenProperties, ElementOfSeq
  <2>2. \A l \in Loops : SendsTo(loops[l], id) => loops[l].notification \in Notes
    BY <1>1 DEF AlertTypes, LoopFits, SendsTo
  <2>3. Once(id)
    BY <1>1
  <2>4. \A i \in DOMAIN told[id] : Fitting(told[id][i], alertState'[id], raised)
    BY <1>3, <2>1, <2>3 DEF Once
  <2>5. \A l \in Loops : SendsTo(loops[l], id) =>
           Fitting(loops[l].notification, alertState'[id], raised)
    BY <1>3, <2>2, <2>3 DEF Once
  <2>6. QED
    BY <2>3, <2>4, <2>5 DEF Once
<1>6. ASSUME NEW l \in Loops PROVE TellsStory(l)'
  <2>1. SUFFICES ASSUME OnlyLoop(l)
                 PROVE  /\ \A id \in RuleIds :
                              /\ Story(Said(told[id], loops[l], id))
                              /\ EndsAs(Said(told[id], loops[l], id), alertState'[id])
                        /\ loops[l].at = "raise" =>
                              alertState'[Head(loops[l].todo).id].alert = NoAlert
    BY DEF TellsStory, OnlyLoop
  <2>2. /\ \A id \in RuleIds : /\ Story(Said(told[id], loops[l], id))
                               /\ EndsAs(Said(told[id], loops[l], id), alertState[id])
        /\ loops[l].at = "raise" => alertState[Head(loops[l].todo).id].alert = NoAlert
    BY <1>1, <2>1 DEF TellsStory
  <2>3. loops[l].at = "raise" => Head(loops[l].todo).id \in RuleIds
    <3>1. loops[l].at = "raise" => loops[l].todo \in Seq(AlertRules) /\ loops[l].todo # <<>>
      BY <1>1 DEF AlertTypes, LoopFits, Evaluating
    <3>2. loops[l].at = "raise" => Head(loops[l].todo) \in AlertRules
      BY <3>1, HeadTailProperties
    <3>3. QED
      BY <3>2 DEF RuleIds
  <2>4. QED
    BY <1>3, <2>2, <2>3 DEF StateKept
<1>7. QED
  BY <1>4, <1>5, <1>6 DEF AlertInv

\* A loop goes on without a word.
LEMMA LoopMoves ==
  ASSUME AlertInv, NEW l \in Loops, NEW y, LoopFits(y), y.at \notin {"send", "none"},
         loops[l].at # "send", loops' = [loops EXCEPT ![l] = y],
         UNCHANGED <<rules, clock, told, raised>>, alertState' \in [RuleIds -> States],
         \A id \in RuleIds : StateKept(alertState[id], alertState'[id]),
         y.at = "raise" => alertState'[Head(y.todo).id].alert = NoAlert
  PROVE  AlertInv'
<1>1. AlertTypes /\ (\A id \in RuleIds : Once(id)) /\ \A k \in Loops : TellsStory(k)
  BY DEF AlertInv
<1>2. \A id \in RuleIds : alertState[id] \in States /\ alertState'[id] \in States
  BY <1>1 DEF AlertTypes
<1>3. /\ \A id \in RuleIds : StateFits(alertState[id], raised) => StateFits(alertState'[id], raised)
      /\ \A id \in RuleIds : \A n \in Notes :
            Fitting(n, alertState[id], raised) => Fitting(n, alertState'[id], raised)
      /\ \A id \in RuleIds : \A notes :
            EndsAs(notes, alertState[id]) => EndsAs(notes, alertState'[id])
  BY <1>1, <1>2, KeptFits DEF AlertTypes
<1>4. /\ \A k \in Loops : loops'[k] = IF k = l THEN y ELSE loops[k]
      /\ loops' = [k \in Loops |-> loops'[k]]
  <2>1. loops = [k \in Loops |-> loops[k]]
    BY <1>1 DEF AlertTypes
  <2>2. QED
    BY <2>1
<1>5. AlertTypes'
  <2>1. \A k \in Loops : LoopFits(loops'[k])
    BY <1>1, <1>4 DEF AlertTypes
  <2>2. QED
    BY <1>1, <1>3, <1>4, <2>1 DEF AlertTypes
<1>6. ASSUME NEW id \in RuleIds PROVE Once(id)'
  <2>1. \A i \in DOMAIN told[id] : told[id][i] \in Notes
    <3>1. told[id] \in Seq(Notes)
      BY <1>1 DEF AlertTypes
    <3>2. QED
      BY <3>1, LenProperties, ElementOfSeq
  <2>2. \A k \in Loops : SendsTo(loops[k], id) => loops[k].notification \in Notes
    BY <1>1 DEF AlertTypes, LoopFits, SendsTo
  <2>3. Once(id)
    BY <1>1
  <2>4. \A i \in DOMAIN told[id] : Fitting(told[id][i], alertState'[id], raised)
    BY <1>3, <2>1, <2>3 DEF Once
  <2>5. \A k \in Loops : SendsTo(loops[k], id) =>
           Fitting(loops[k].notification, alertState'[id], raised)
    BY <1>3, <2>2, <2>3 DEF Once
  <2>6. \A k \in Loops : SendsTo(loops'[k], id) => SendsTo(loops[k], id) /\ loops'[k] = loops[k]
    BY <1>4 DEF SendsTo
  <2>7. QED
    BY <2>3, <2>4, <2>5, <2>6 DEF Once
<1>7. ASSUME NEW k \in Loops PROVE TellsStory(k)'
  <2>1. CASE k # l
    <3>1. ~OnlyLoop(k)'
      BY <1>4, <2>1 DEF OnlyLoop
    <3>2. QED
      BY <3>1 DEF TellsStory
  <2>2. CASE k = l
    <3>1. SUFFICES ASSUME OnlyLoop(l)'
                   PROVE  /\ \A id \in RuleIds :
                                /\ Story(Said(told[id], y, id))
                                /\ EndsAs(Said(told[id], y, id), alertState'[id])
                          /\ y.at = "raise" => alertState'[Head(y.todo).id].alert = NoAlert
      BY <1>4, <2>2 DEF TellsStory
    <3>2. OnlyLoop(l)
      BY <1>4, <3>1 DEF OnlyLoop
    <3>3. \A id \in RuleIds : /\ Story(Said(told[id], loops[l], id))
                              /\ EndsAs(Said(told[id], loops[l], id), alertState[id])
      BY <1>1, <3>2 DEF TellsStory
    <3>4. \A id \in RuleIds : /\ Said(told[id], loops[l], id) = told[id]
                              /\ Said(told[id], y, id) = told[id]
      BY DEF Said, SendsTo
    <3>5. QED
      BY <1>3, <3>3, <3>4
  <2>3. QED
    BY <2>1, <2>2
<1>8. QED
  BY <1>5, <1>6, <1>7 DEF AlertInv

\* A loop has something to say about a rule, which nobody has said.
LEMMA Speaks ==
  ASSUME AlertInv, NEW l \in Loops, NEW y, NEW r \in RuleIds, NEW n \in Notes,
         LoopFits(y), SendsTo(y, r), y.notification = n,
         loops[l].at \in Evaluating, loops' = [loops EXCEPT ![l] = y],
         UNCHANGED <<rules, clock, told>>, raised' \in Nat, raised <= raised',
         alertState' \in [RuleIds -> States],
         \A id \in RuleIds \ {r} : alertState'[id] = alertState[id],
         StateFits(alertState'[r], raised'), Fitting(n, alertState'[r], raised'),
         EndsWith(n, alertState'[r]),
         \A m \in Notes : Fitting(m, alertState[r], raised) =>
            Differ(m, n) /\ Fitting(m, alertState'[r], raised'),
         OnlyLoop(l) => \A m \in Notes :
            EndsWith(m, alertState[r]) /\ Fitting(m, alertState[r], raised) => Follows(m, n)
  PROVE  AlertInv'
<1>1. AlertTypes /\ (\A id \in RuleIds : Once(id)) /\ \A k \in Loops : TellsStory(k)
  BY DEF AlertInv
<1>2. /\ \A k \in Loops : loops'[k] = IF k = l THEN y ELSE loops[k]
      /\ loops' = [k \in Loops |-> loops'[k]]
  <2>1. loops = [k \in Loops |-> loops[k]]
    BY <1>1 DEF AlertTypes
  <2>2. QED
    BY <2>1
<1>3. raised \in Nat /\ \A id \in RuleIds :
         alertState[id] \in States /\ StateFits(alertState[id], raised)
  BY <1>1 DEF AlertTypes
<1>4. \A id \in RuleIds : StateFits(alertState'[id], raised')
  <2>1. ASSUME NEW id \in RuleIds, id # r PROVE StateFits(alertState'[id], raised')
    <3>1. alertState'[id] = alertState[id] /\ alertState[id].alert \in Nat
      BY <1>3, <2>1 DEF States
    <3>2. alertState[id].alert <= raised
          /\ (alertState[id].alert # NoAlert => alertState[id].level >= 0)
      BY <1>3 DEF StateFits
    <3>3. alertState[id].alert <= raised'
      BY <1>3, <3>1, <3>2
    <3>4. QED
      BY <3>1, <3>2, <3>3 DEF StateFits
  <2>2. QED
    BY <2>1
<1>5. AlertTypes'
  <2>1. \A k \in Loops : LoopFits(loops'[k])
    BY <1>1, <1>2 DEF AlertTypes
  <2>2. QED
    BY <1>1, <1>2, <1>4, <2>1 DEF AlertTypes
<1>6. \A id \in RuleIds : \A m \in Notes :
         Fitting(m, alertState[id], raised) => Fitting(m, alertState'[id], raised')
  <2>1. ASSUME NEW id \in RuleIds, id # r, NEW m \in Notes, Fitting(m, alertState[id], raised)
        PROVE  Fitting(m, alertState'[id], raised')
    <3>1. m.alert \in 1..raised'
      BY <1>3, <2>1 DEF Fitting
    <3>2. alertState'[id] = alertState[id]
      BY <2>1
    <3>3. QED
      BY <2>1, <3>1, <3>2 DEF Fitting
  <2>2. QED
    BY <2>1
<1>7. \A id \in RuleIds :
         told[id] \in Seq(Notes) /\ \A i \in DOMAIN told[id] : told[id][i] \in Notes
  <2>1. \A id \in RuleIds : told[id] \in Seq(Notes)
    BY <1>1 DEF AlertTypes
  <2>2. QED
    BY <2>1, LenProperties, ElementOfSeq
<1>8. \A k \in Loops, id \in RuleIds : SendsTo(loops[k], id) => loops[k].notification \in Notes
  BY <1>1 DEF AlertTypes, LoopFits, SendsTo
<1>9. ASSUME NEW id \in RuleIds PROVE Once(id)'
  <2>1. Once(id)
    BY <1>1
  <2>2. \A i \in DOMAIN told[id] : Fitting(told[id][i], alertState'[id], raised')
    BY <1>6, <1>7, <2>1 DEF Once
  <2>3. \A k \in Loops : SendsTo(loops[k], id) =>
           Fitting(loops[k].notification, alertState'[id], raised')
    BY <1>6, <1>8, <2>1 DEF Once
  <2>4. CASE id # r
    <3>1. \A k \in Loops : SendsTo(loops'[k], id) => SendsTo(loops[k], id) /\ loops'[k] = loops[k]
      BY <1>2, <2>4 DEF SendsTo
    <3>2. QED
      BY <2>1, <2>2, <2>3, <3>1 DEF Once
  <2>5. CASE id = r
    <3>1. \A i \in DOMAIN told[r] : Differ(n, told[r][i])
      <4>1. \A i \in DOMAIN told[r] : Differ(told[r][i], n)
        BY <1>7, <2>1, <2>5 DEF Once
      <4>2. QED
        BY <4>1 DEF Differ
    <3>2. \A k \in Loops \ {l} : SendsTo(loops[k], r) =>
             Differ(loops[k].notification, n) /\ Differ(n, loops[k].notification)
      <4>1. \A k \in Loops : SendsTo(loops[k], r) =>
               Fitting(loops[k].notification, alertState[r], raised)
        BY <2>1, <2>5 DEF Once
      <4>2. \A k \in Loops : SendsTo(loops[k], r) => Differ(loops[k].notification, n)
        BY <1>8, <4>1
      <4>3. QED
        BY <4>2 DEF Differ
    <3>3. ASSUME NEW k \in Loops, SendsTo(loops'[k], r)
          PROVE  /\ Fitting(loops'[k].notification, alertState'[r], raised')
                 /\ \A i \in DOMAIN told[r] : Differ(loops'[k].notification, told[r][i])
                 /\ \A m \in Loops \ {k} : SendsTo(loops'[m], r) =>
                       Differ(loops'[k].notification, loops'[m].notification)
      <4>1. CASE k = l
        BY <1>2, <3>1, <3>2, <4>1
      <4>2. CASE k # l
        <5>1. loops'[k] = loops[k] /\ SendsTo(loops[k], r)
          BY <1>2, <3>3, <4>2
        <5>2. \A m \in Loops \ {k, l} : SendsTo(loops'[m], r) =>
                 Differ(loops'[k].notification, loops'[m].notification)
          BY <1>2, <2>1, <2>5, <5>1 DEF Once
        <5>3. Differ(loops'[k].notification, loops'[l].notification)
          BY <1>2, <3>2, <4>2, <5>1
        <5>4. \A i \in DOMAIN told[r] : Differ(loops'[k].notification, told[r][i])
          BY <2>1, <2>5, <5>1 DEF Once
        <5>5. QED
          BY <2>3, <2>5, <5>1, <5>2, <5>3, <5>4
      <4>3. QED
        BY <4>1, <4>2
    <3>4. QED
      BY <2>1, <2>2, <2>5, <3>3 DEF Once
  <2>6. QED
    BY <2>4, <2>5
<1>10. ASSUME NEW k \in Loops PROVE TellsStory(k)'
  <2>1. CASE k # l
    <3>1. ~OnlyLoop(k)'
      BY <1>2, <2>1 DEF OnlyLoop, SendsTo
    <3>2. QED
      BY <3>1 DEF TellsStory
  <2>2. CASE k = l
    <3>1. SUFFICES ASSUME OnlyLoop(l)', NEW id \in RuleIds
                   PROVE  /\ Story(Said(told[id], y, id))
                          /\ EndsAs(Said(told[id], y, id), alertState'[id])
      BY <1>2, <2>2 DEF TellsStory, SendsTo
    <3>2. OnlyLoop(l)
      BY <1>2, <3>1 DEF OnlyLoop
    <3>3. Said(told[id], loops[l], id) = told[id]
      BY DEF Said, SendsTo, Evaluating
    <3>4. Story(told[id]) /\ EndsAs(told[id], alertState[id])
      BY <1>1, <3>2, <3>3 DEF TellsStory
    <3>5. CASE id # r
      <4>1. Said(told[id], y, id) = told[id]
        BY <3>5 DEF Said, SendsTo
      <4>2. QED
        BY <3>4, <3>5, <4>1
    <3>6. CASE id = r
      <4>1. Said(told[id], y, id) = Append(told[r], n)
        BY <3>6 DEF Said
      <4>2. told[r] = <<>> \/ Follows(Last(told[r]), n)
        <5>1. SUFFICES ASSUME told[r] # <<>> PROVE Follows(Last(told[r]), n)
          OBVIOUS
        <5>2. Len(told[r]) \in DOMAIN told[r]
          <6>1. Len(told[r]) \in Nat \ {0} /\ DOMAIN told[r] = 1..Len(told[r])
            BY <1>7, <5>1, EmptySeq, LenProperties
          <6>2. QED
            BY <6>1
        <5>3. Last(told[r]) \in Notes /\ Fitting(Last(told[r]), alertState[r], raised)
          BY <1>1, <1>7, <5>2 DEF Once, Last
        <5>4. EndsWith(Last(told[r]), alertState[r])
          BY <3>4, <3>6, <5>1 DEF EndsAs
        <5>5. QED
          BY <3>2, <5>3, <5>4
      <4>3. Story(Append(told[r], n)) /\ Append(told[r], n) # <<>> /\ Last(Append(told[r], n)) = n
        BY <1>7, <3>4, <3>6, <4>2, StoryGrows
      <4>4. EndsAs(Append(told[r], n), alertState'[r])
        BY <4>3 DEF EndsAs
      <4>5. QED
        BY <3>6, <4>1, <4>3, <4>4
    <3>7. QED
      BY <3>5, <3>6
  <2>3. QED
    BY <2>1, <2>2
<1>11. QED
  BY <1>5, <1>9, <1>10 DEF AlertInv

\* The channels are told what the loop had to say, and it goes on.
LEMMA SendStep ==
  ASSUME AlertInv, NEW l \in Loops, send_notification(l)
  PROVE  AlertInv'
<1>1. AlertTypes /\ (\A id \in RuleIds : Once(id)) /\ \A k \in Loops : TellsStory(k)
  BY DEF AlertInv
<1>2. PICK x : x = loops[l]
  OBVIOUS
<1>3. x.at = "send" /\ LoopFits(x)
  BY <1>1, <1>2 DEF send_notification, AlertTypes
<1>4. x.todo \in Seq(AlertRules) /\ x.todo # <<>> /\ x.now \in Nat
  BY <1>3 DEF LoopFits
<1>5. PICK r \in RuleIds : r = Head(x.todo).id
  BY <1>4, HeadTailProperties DEF RuleIds
<1>6. PICK n \in Notes : n = x.notification
  BY <1>3 DEF LoopFits
<1>7. PICK y : y = IF Len(x.todo) = 1 THEN [at |-> "waiting"]
                   ELSE [at |-> "look", todo |-> Tail(x.todo), snapshot |-> x.snapshot,
                         now |-> x.now]
  OBVIOUS
<1>8. LoopFits(y) /\ y.at \in {"waiting", "look"}
  <2>1. CASE Len(x.todo) = 1
    BY <1>7, <2>1 DEF LoopFits, Evaluating
  <2>2. CASE Len(x.todo) # 1
    <3>1. Tail(x.todo) \in Seq(AlertRules) /\ Tail(x.todo) # <<>>
      <4>1. Tail(x.todo) \in Seq(AlertRules) /\ Len(Tail(x.todo)) = Len(x.todo) - 1
        BY <1>4, HeadTailProperties
      <4>2. Len(x.todo) \in Nat
        BY <1>4, LenProperties
      <4>3. Len(Tail(x.todo)) # 0
        BY <2>2, <4>1, <4>2
      <4>4. QED
        BY <4>1, <4>3, EmptySeq
    <3>2. /\ y.at = "look" /\ y.todo = Tail(x.todo) /\ y.now = x.now
          /\ DOMAIN y = {"at", "todo", "snapshot", "now"}
      BY <1>7, <2>2
    <3>3. QED
      BY <1>4, <3>1, <3>2 DEF LoopFits, Evaluating
  <2>3. QED
    BY <2>1, <2>2
<1>9. /\ told' = [told EXCEPT ![r] = Append(told[r], n)]
      /\ loops' = [loops EXCEPT ![l] = y]
      /\ UNCHANGED <<rules, alertState, clock, raised>>
  BY <1>2, <1>5, <1>6, <1>7 DEF send_notification, Rule
<1>10. /\ \A k \in Loops : loops'[k] = IF k = l THEN y ELSE loops[k]
       /\ loops' = [k \in Loops |-> loops'[k]]
  <2>1. loops = [k \in Loops |-> loops[k]]
    BY <1>1 DEF AlertTypes
  <2>2. QED
    BY <1>9, <2>1
<1>11. \A id \in RuleIds : told'[id] = IF id = r THEN Append(told[r], n) ELSE told[id]
  BY <1>1, <1>9 DEF AlertTypes
<1>12. told[r] \in Seq(Notes)
  BY <1>1 DEF AlertTypes
<1>13. PICK more \in Seq(Notes) : more = Append(told[r], n)
  BY <1>12, LastOne
<1>14. AlertTypes'
  <2>1. \A k \in Loops : LoopFits(loops'[k])
    BY <1>1, <1>8, <1>10 DEF AlertTypes
  <2>2. told' \in [RuleIds -> Seq(Notes)]
    BY <1>1, <1>9, <1>13 DEF AlertTypes
  <2>3. QED
    BY <1>1, <1>9, <1>10, <2>1, <2>2 DEF AlertTypes
<1>15. \A k \in Loops : \A id : SendsTo(loops'[k], id) =>
          k # l /\ loops'[k] = loops[k] /\ SendsTo(loops[k], id)
  BY <1>8, <1>10 DEF SendsTo
<1>16. SendsTo(x, r) /\ \A id : SendsTo(x, id) => id = r
  BY <1>3, <1>5 DEF SendsTo
<1>17. ASSUME NEW id \in RuleIds PROVE Once(id)'
  <2>1. Once(id)
    BY <1>1
  <2>2. CASE id # r
    BY <1>9, <1>11, <1>15, <2>1, <2>2 DEF Once
  <2>3. CASE id = r
    <3>1. /\ DOMAIN more = 1..Len(told[r]) + 1 /\ DOMAIN told[r] = 1..Len(told[r])
          /\ Len(told[r]) \in Nat
          /\ \A i \in 1..Len(told[r]) : more[i] = told[r][i]
          /\ more[Len(told[r]) + 1] = n
      BY <1>12, <1>13, LastOne
    <3>2. \A i \in DOMAIN more :
             \/ more[i] = n /\ i = Len(told[r]) + 1
             \/ i \in DOMAIN told[r] /\ more[i] = told[r][i]
      BY <3>1
    <3>3. /\ Fitting(n, alertState[r], raised)
          /\ \A i \in DOMAIN told[r] : Differ(n, told[r][i]) /\ Differ(told[r][i], n)
      BY <1>2, <1>6, <1>16, <2>1, <2>3 DEF Once, Differ
    <3>4. \A i \in DOMAIN more : Fitting(more[i], alertState[r], raised)
      BY <2>1, <2>3, <3>2, <3>3 DEF Once
    <3>5. \A i, j \in DOMAIN more : i # j => Differ(more[i], more[j])
      BY <2>1, <2>3, <3>2, <3>3 DEF Once
    <3>6. ASSUME NEW k \in Loops, SendsTo(loops'[k], r)
          PROVE  /\ Fitting(loops'[k].notification, alertState[r], raised)
                 /\ \A i \in DOMAIN more : Differ(loops'[k].notification, more[i])
                 /\ \A m \in Loops \ {k} : SendsTo(loops'[m], r) =>
                       Differ(loops'[k].notification, loops'[m].notification)
      <4>1. k # l /\ loops'[k] = loops[k] /\ SendsTo(loops[k], r)
        BY <1>15, <3>6
      <4>2. Differ(loops[k].notification, n)
        BY <1>2, <1>6, <1>16, <2>1, <2>3, <4>1 DEF Once
      <4>3. \A i \in DOMAIN more : Differ(loops[k].notification, more[i])
        BY <2>1, <2>3, <3>2, <4>1, <4>2 DEF Once
      <4>4. \A m \in Loops \ {k} : SendsTo(loops'[m], r) =>
               Differ(loops[k].notification, loops'[m].notification)
        BY <1>15, <2>1, <2>3, <4>1 DEF Once
      <4>5. QED
        BY <2>1, <2>3, <4>1, <4>3, <4>4 DEF Once
    <3>7. told'[id] = more
      BY <1>11, <1>13, <2>3
    <3>8. QED
      BY <1>9, <2>3, <3>4, <3>5, <3>6, <3>7 DEF Once
  <2>4. QED
    BY <2>2, <2>3
<1>18. ASSUME NEW k \in Loops PROVE TellsStory(k)'
  <2>1. CASE k # l
    <3>1. ~OnlyLoop(k)'
      BY <1>8, <1>10, <2>1 DEF OnlyLoop
    <3>2. QED
      BY <3>1 DEF TellsStory
  <2>2. CASE k = l
    <3>1. SUFFICES ASSUME OnlyLoop(l)', NEW id \in RuleIds
                   PROVE  /\ Story(Said(told'[id], y, id))
                          /\ EndsAs(Said(told'[id], y, id), alertState[id])
      BY <1>8, <1>9, <1>10, <2>2 DEF TellsStory
    <3>2. OnlyLoop(l)
      BY <1>10, <3>1 DEF OnlyLoop
    <3>3. Story(Said(told[id], x, id)) /\ EndsAs(Said(told[id], x, id), alertState[id])
      BY <1>1, <1>2, <3>2 DEF TellsStory
    <3>4. Said(told[id], x, id) = told'[id]
      BY <1>6, <1>11, <1>16 DEF Said
    <3>5. Said(told'[id], y, id) = told'[id]
      BY <1>8 DEF Said, SendsTo
    <3>6. QED
      BY <3>3, <3>4, <3>5
  <2>3. QED
    BY <2>1, <2>2
<1>19. QED
  BY <1>14, <1>17, <1>18 DEF AlertInv

\* What is known of a loop that evaluates a rule.
LEMMA Evaluator ==
  ASSUME AlertInv, NEW l \in Loops, loops[l].at \in Evaluating
  PROVE  /\ DOMAIN loops[l] = {"at", "todo", "snapshot", "now"}
         /\ loops[l].todo \in Seq(AlertRules) /\ loops[l].todo # <<>> /\ loops[l].now \in Nat
         /\ Rule(l) \in AlertRules /\ Rule(l).id \in RuleIds /\ Rule(l) = Head(loops[l].todo)
         /\ State(l) \in States /\ State(l) = alertState[Rule(l).id]
         /\ StateFits(State(l), raised)
         /\ LoopFits(NextRule(l)) /\ NextRule(l).at \in {"waiting", "look"}
<1>1. AlertTypes
  BY DEF AlertInv
<1>2. /\ DOMAIN loops[l] = {"at", "todo", "snapshot", "now"}
      /\ loops[l].todo \in Seq(AlertRules) /\ loops[l].todo # <<>> /\ loops[l].now \in Nat
  BY <1>1 DEF AlertTypes, LoopFits
<1>3. Rule(l) \in AlertRules /\ Rule(l).id \in RuleIds /\ Rule(l) = Head(loops[l].todo)
  BY <1>2, HeadTailProperties DEF Rule, RuleIds
<1>4. State(l) \in States /\ State(l) = alertState[Rule(l).id] /\ StateFits(State(l), raised)
  BY <1>1, <1>3 DEF AlertTypes, State
<1>5. LoopFits(NextRule(l)) /\ NextRule(l).at \in {"waiting", "look"}
  <2>1. CASE Len(loops[l].todo) = 1
    BY <2>1 DEF LoopFits, Evaluating, NextRule
  <2>2. CASE Len(loops[l].todo) # 1
    <3>1. Tail(loops[l].todo) \in Seq(AlertRules) /\ Tail(loops[l].todo) # <<>>
      <4>1. /\ Tail(loops[l].todo) \in Seq(AlertRules)
            /\ Len(Tail(loops[l].todo)) = Len(loops[l].todo) - 1
        BY <1>2, HeadTailProperties
      <4>2. Len(loops[l].todo) \in Nat
        BY <1>2, LenProperties
      <4>3. Len(Tail(loops[l].todo)) # 0
        BY <2>2, <4>1, <4>2
      <4>4. QED
        BY <4>1, <4>3, EmptySeq
    <3>2. PICK mid : mid = [loops[l] EXCEPT !.at = "look"]
      OBVIOUS
    <3>3. /\ mid.at = "look" /\ mid.todo = loops[l].todo /\ mid.now = loops[l].now
          /\ DOMAIN mid = {"at", "todo", "snapshot", "now"}
      BY <1>2, <3>2
    <3>4. NextRule(l) = [mid EXCEPT !.todo = Tail(loops[l].todo)]
      BY <2>2, <3>2, <3>3 DEF NextRule
    <3>5. /\ NextRule(l).at = "look" /\ NextRule(l).todo = Tail(loops[l].todo)
          /\ NextRule(l).now = loops[l].now
          /\ DOMAIN NextRule(l) = {"at", "todo", "snapshot", "now"}
      BY <3>3, <3>4
    <3>6. QED
      BY <1>2, <3>1, <3>5 DEF LoopFits, Evaluating
  <2>3. QED
    BY <2>1, <2>2
<1>6. QED
  BY <1>2, <1>3, <1>4, <1>5

\* Nothing is said when the clock, the rules or the status of an alert change.
LEMMA WorldSteps ==
  ASSUME AlertInv,
         \/ clock_ticks
         \/ \E r \in AlertRules : add_rule(r)
         \/ \E id \in RuleIds : remove_rule(id)
         \/ \E a \in 1..raised : acknowledge_alert(a)
  PROVE  AlertInv'
<1>1. AlertTypes
  BY DEF AlertInv
<1>2. UNCHANGED <<loops, told, raised>>
  BY DEF clock_ticks, add_rule, remove_rule, acknowledge_alert
<1>3. clock' \in Nat
  <2>1. clock_ticks => clock' = clock + 1
    BY DEF clock_ticks
  <2>2. clock_ticks \/ clock' = clock
    BY DEF add_rule, remove_rule, acknowledge_alert
  <2>3. QED
    BY <1>1, <2>1, <2>2 DEF AlertTypes
<1>4. rules' \in Seq(AlertRules)
  <2>1. rules \in Seq(AlertRules)
    BY <1>1 DEF AlertTypes
  <2>2. ASSUME NEW r \in AlertRules, add_rule(r) PROVE rules' \in Seq(AlertRules)
    BY <2>1, <2>2, LastOne DEF add_rule
  <2>3. ASSUME NEW id \in RuleIds, remove_rule(id) PROVE rules' \in Seq(AlertRules)
    <3> DEFINE found == {i \in 1..Len(rules) : rules[i].id = id}
    <3>1. Len(rules) \in Nat /\ DOMAIN rules = 1..Len(rules)
      BY <2>1, LenProperties
    <3>2. found # {} /\ found \subseteq Nat
      BY <2>3, <3>1 DEF remove_rule
    <3>3. Min(found) \in found
      <4> HIDE DEF found
      <4>1. QED
        BY <3>2, MinIsOne
    <3>4. Min(found) \in 1..Len(rules)
      BY <3>3
    <3>5. rules' = RemoveAt(rules, Min(found))
      BY <2>3, <3>2 DEF remove_rule, SelectInSeq
    <3>6. QED
      <4> HIDE DEF found
      <4>1. QED
        BY <2>1, <3>1, <3>4, <3>5, RemoveOne
  <2>4. QED
    BY <2>1, <2>2, <2>3 DEF clock_ticks, acknowledge_alert
<1>5. /\ alertState' \in [RuleIds -> States]
      /\ \A id \in RuleIds : StateKept(alertState[id], alertState'[id])
  <2>1. alertState \in [RuleIds -> States]
    BY <1>1 DEF AlertTypes
  <2>2. CASE alertState' = alertState
    BY <2>1, <2>2 DEF StateKept
  <2>3. ASSUME NEW a \in 1..raised, acknowledge_alert(a)
        PROVE  /\ alertState' \in [RuleIds -> States]
               /\ \A id \in RuleIds : StateKept(alertState[id], alertState'[id])
    <3>1. alertState' = [id \in RuleIds |->
             IF alertState[id].alert = a THEN [alertState[id] EXCEPT !.status = "Acknowledged"]
             ELSE alertState[id]]
      BY <2>3 DEF acknowledge_alert
    <3>2. ASSUME NEW s \in States
          PROVE  /\ [s EXCEPT !.status = "Acknowledged"] \in States
                 /\ StateKept(s, [s EXCEPT !.status = "Acknowledged"]) /\ StateKept(s, s)
      BY DEF States, AlertStatus, StateKept
    <3>3. QED
      BY <2>1, <3>1, <3>2
  <2>4. QED
    BY <2>2, <2>3 DEF clock_ticks, add_rule, remove_rule
<1>6. QED
  BY <1>2, <1>3, <1>4, <1>5, WorldMoves

\* A loop starts, or a round of one.
LEMMA RoundStep ==
  ASSUME AlertInv, NEW l \in Loops,
         start_alerting(l) \/ \E s \in Snapshots : evaluate_rules(l, s)
  PROVE  AlertInv'
<1>1. AlertTypes
  BY DEF AlertInv
<1>2. /\ UNCHANGED <<rules, clock, told, raised, alertState>>
      /\ loops[l].at \in {"none", "waiting"}
  BY DEF start_alerting, evaluate_rules
<1>3. /\ alertState' \in [RuleIds -> States]
      /\ \A id \in RuleIds : StateKept(alertState[id], alertState'[id])
  BY <1>1, <1>2 DEF AlertTypes, StateKept
<1>4. PICK y : /\ LoopFits(y) /\ y.at \in {"waiting", "look"}
               /\ loops' = [loops EXCEPT ![l] = y]
  <2>1. CASE start_alerting(l)
    <3>1. PICK y : y = [at |-> "waiting"]
      OBVIOUS
    <3>2. LoopFits(y) /\ y.at = "waiting"
      BY <3>1 DEF LoopFits, Evaluating
    <3>3. QED
      BY <2>1, <3>1, <3>2 DEF start_alerting
  <2>2. ASSUME NEW s \in Snapshots, evaluate_rules(l, s)
        PROVE  \E y : /\ LoopFits(y) /\ y.at \in {"waiting", "look"}
                      /\ loops' = [loops EXCEPT ![l] = y]
    <3>1. PICK y : y = [at |-> "look", todo |-> rules, snapshot |-> s, now |-> clock]
      OBVIOUS
    <3>2. /\ y.at = "look" /\ y.todo = rules /\ y.now = clock
          /\ DOMAIN y = {"at", "todo", "snapshot", "now"}
      BY <3>1
    <3>3. LoopFits(y)
      BY <1>1, <2>2, <3>2 DEF LoopFits, Evaluating, AlertTypes, evaluate_rules
    <3>4. QED
      BY <2>2, <3>1, <3>2, <3>3 DEF evaluate_rules
  <2>3. QED
    BY <2>1, <2>2
<1>5. QED
  BY <1>2, <1>3, <1>4, LoopMoves

\* A rule is looked at: it needs something, or the loop goes on.
LEMMA LookStep ==
  ASSUME AlertInv, NEW l \in Loops, process_rule_evaluation(l)
  PROVE  AlertInv'
<1>1. AlertTypes
  BY DEF AlertInv
<1>2. loops[l].at = "look" /\ loops[l].at \in Evaluating
  BY DEF process_rule_evaluation, Evaluating
<1>3. UNCHANGED <<rules, clock, told, raised>>
  BY DEF process_rule_evaluation
<1>4. /\ LoopFits(NextRule(l)) /\ NextRule(l).at \in {"waiting", "look"}
      /\ Rule(l).id \in RuleIds /\ loops[l].now \in Nat /\ State(l) = alertState[Rule(l).id]
      /\ State(l) \in States /\ StateFits(State(l), raised) /\ Rule(l) = Head(loops[l].todo)
  BY <1>2, Evaluator
<1>5. alertState \in [RuleIds -> States]
  BY <1>1 DEF AlertTypes
<1>6. CASE ~Rule(l).enabled
  <2>1. alertState' = alertState /\ loops' = [loops EXCEPT ![l] = NextRule(l)]
    BY <1>6 DEF process_rule_evaluation
  <2>2. \A id \in RuleIds : StateKept(alertState[id], alertState'[id])
    BY <2>1 DEF StateKept
  <2>3. QED
    BY <1>2, <1>3, <1>4, <1>5, <2>1, <2>2, LoopMoves
<1>7. CASE Rule(l).enabled
  <2>1. PICK fresh : fresh = [Unseen EXCEPT !.first = loops[l].now, !.level = 0]
    OBVIOUS
  <2>2. fresh \in States /\ fresh.alert = NoAlert
    <3>1. PICK mid : mid = [Unseen EXCEPT !.first = loops[l].now]
      OBVIOUS
    <3>2. mid = [alert |-> NoAlert, status |-> "Firing", first |-> loops[l].now, level |-> -1]
      BY <3>1 DEF Unseen
    <3>3. fresh = [mid EXCEPT !.level = 0]
      BY <2>1, <3>1, <3>2 DEF Unseen
    <3>4. fresh = [alert |-> NoAlert, status |-> "Firing", first |-> loops[l].now, level |-> 0]
      BY <3>2, <3>3
    <3>5. QED
      BY <1>4, <3>4 DEF States, AlertStatus, NoAlert
  <2>3. /\ alertState' = IF State(l).level >= 0 THEN alertState
                         ELSE [alertState EXCEPT ![Rule(l).id] = fresh]
        /\ loops' = [loops EXCEPT ![l] = IF needs(l) = "next" THEN NextRule(l)
                                         ELSE [loops[l] EXCEPT !.at = needs(l)]]
    BY <1>7, <2>1 DEF process_rule_evaluation
  <2>4. ~(State(l).level >= 0) => State(l).alert = NoAlert
    BY <1>4 DEF StateFits
  <2>5. alertState' \in [RuleIds -> States]
    BY <1>5, <2>2, <2>3
  <2>6. \A id \in RuleIds : StateKept(alertState[id], alertState'[id])
    BY <1>4, <1>5, <2>2, <2>3, <2>4 DEF StateKept
  <2>7. CASE needs(l) = "next"
    <3>1. loops' = [loops EXCEPT ![l] = NextRule(l)]
      BY <2>3, <2>7
    <3>2. QED
      BY <1>2, <1>3, <1>4, <2>5, <2>6, <3>1, LoopMoves
  <2>8. CASE needs(l) # "next"
    <3>1. /\ needs(l) \in {"raise", "escalate", "resolve"}
          /\ needs(l) = "raise" => State(l).alert = NoAlert
      BY <2>8 DEF needs
    <3>2. PICK y : y = [loops[l] EXCEPT !.at = needs(l)]
      OBVIOUS
    <3>3. DOMAIN loops[l] = {"at", "todo", "snapshot", "now"}
      BY <1>2, Evaluator
    <3>4. /\ y.at = needs(l) /\ y.todo = loops[l].todo /\ y.now = loops[l].now
          /\ DOMAIN y = {"at", "todo", "snapshot", "now"}
      BY <3>2, <3>3
    <3>5. LoopFits(y)
      <4>1. loops[l].todo \in Seq(AlertRules) /\ loops[l].todo # <<>>
        BY <1>2, Evaluator
      <4>2. QED
        BY <1>4, <3>1, <3>4, <4>1 DEF LoopFits, Evaluating
    <3>6. y.at = "raise" => alertState'[Head(y.todo).id].alert = NoAlert
      BY <1>4, <2>6, <3>1, <3>4 DEF StateKept
    <3>7. loops' = [loops EXCEPT ![l] = y]
      BY <2>3, <2>8, <3>2
    <3>8. y.at \notin {"send", "none"}
      BY <3>1, <3>4
    <3>9. QED
      BY <1>2, <1>3, <2>5, <2>6, <3>5, <3>6, <3>7, <3>8, LoopMoves
  <2>9. QED
    BY <2>7, <2>8
<1>8. QED
  BY <1>6, <1>7

\* What a loop is about to send is the note made for its rule.
LEMMA SendsNote ==
  ASSUME AlertInv, NEW l \in Loops, loops[l].at \in Evaluating,
         NEW kind \in {"AlertTriggered", "AlertResolved", "AlertEscalated"},
         NEW a \in Nat, NEW level \in Nat, NEW names
  PROVE  \E n \in Notes : /\ n.kind = kind /\ n.alert = a /\ n.level = level
                          /\ Sends(l, kind, a, level, names).notification = n
                          /\ LoopFits(Sends(l, kind, a, level, names))
                          /\ SendsTo(Sends(l, kind, a, level, names), Rule(l).id)
<1>1. PICK n : n = [kind |-> kind, alert |-> a, level |-> level,
                    to |-> (IF names = {} THEN DefaultChannels ELSE names) \cap Registered]
  OBVIOUS
<1>2. n \in Notes /\ n.kind = kind /\ n.alert = a /\ n.level = level
  BY <1>1 DEF Notes
<1>3. PICK y : y = Sends(l, kind, a, level, names)
  OBVIOUS
<1>4. /\ y.at = "send" /\ y.todo = loops[l].todo /\ y.now = loops[l].now
      /\ y.notification = n
  BY <1>1, <1>3 DEF Sends
<1>5. /\ loops[l].todo \in Seq(AlertRules) /\ loops[l].todo # <<>> /\ loops[l].now \in Nat
      /\ Rule(l) = Head(loops[l].todo)
  BY Evaluator
<1>6. LoopFits(y) /\ SendsTo(y, Rule(l).id)
  BY <1>2, <1>4, <1>5 DEF LoopFits, SendsTo, Evaluating
<1>7. QED
  BY <1>2, <1>3, <1>4, <1>6

\* A new alert is one that nobody has spoken of.
LEMMA RaiseStep ==
  ASSUME AlertInv, NEW l \in Loops, raise(l)
  PROVE  AlertInv'
<1>1. AlertTypes /\ \A k \in Loops : TellsStory(k)
  BY DEF AlertInv
<1>2. loops[l].at = "raise" /\ loops[l].at \in Evaluating
  BY DEF raise, Evaluating
<1>3. /\ Rule(l).id \in RuleIds /\ loops[l].now \in Nat /\ State(l) = alertState[Rule(l).id]
      /\ State(l) \in States /\ Rule(l) = Head(loops[l].todo)
  BY <1>2, Evaluator
<1>4. PICK r \in RuleIds : r = Rule(l).id
  BY <1>3
<1>5. PICK new : new = [alert |-> raised + 1, status |-> "Firing", first |-> loops[l].now,
                        level |-> 0]
  OBVIOUS
<1>6. raised \in Nat /\ alertState \in [RuleIds -> States]
  BY <1>1 DEF AlertTypes
<1>7. new \in States /\ new.alert = raised + 1 /\ new.level = 0
  BY <1>3, <1>5, <1>6 DEF States, AlertStatus
<1>8. PICK kind : kind = "AlertTriggered"
  OBVIOUS
<1>9. PICK y : y = Sends(l, kind, raised + 1, 0, Rule(l).channels)
  OBVIOUS
<1>10. PICK n \in Notes : /\ n.kind = kind /\ n.alert = raised + 1 /\ n.level = 0
                          /\ y.notification = n /\ LoopFits(y) /\ SendsTo(y, r)
  <2>1. PICK a \in Nat : a = raised + 1
    BY <1>6
  <2>2. PICK level \in Nat : level = 0
    OBVIOUS
  <2>3. y = Sends(l, kind, a, level, Rule(l).channels)
    BY <1>9, <2>1, <2>2
  <2>4. kind \in {"AlertTriggered", "AlertResolved", "AlertEscalated"}
    BY <1>8
  <2>5. \E n \in Notes : /\ n.kind = kind /\ n.alert = a /\ n.level = level
                        /\ y.notification = n /\ LoopFits(y) /\ SendsTo(y, Rule(l).id)
    BY <1>2, <2>3, <2>4, SendsNote
  <2>6. QED
    BY <1>4, <2>1, <2>2, <2>5
<1>11. /\ alertState' = [alertState EXCEPT ![r] = new]
       /\ loops' = [loops EXCEPT ![l] = y] /\ raised' = raised + 1
       /\ UNCHANGED <<rules, clock, told>>
  BY <1>4, <1>5, <1>8, <1>9 DEF raise
<1>12. /\ alertState' \in [RuleIds -> States] /\ alertState'[r] = new
       /\ \A id \in RuleIds \ {r} : alertState'[id] = alertState[id]
  BY <1>6, <1>7, <1>11
<1>13. raised' \in Nat /\ raised <= raised' /\ StateFits(alertState'[r], raised')
  BY <1>6, <1>7, <1>11, <1>12 DEF StateFits
<1>14. Fitting(n, alertState'[r], raised') /\ EndsWith(n, alertState'[r])
  BY <1>6, <1>7, <1>8, <1>10, <1>11, <1>12 DEF Fitting, EndsWith, NoAlert
<1>15. \A m \in Notes : Fitting(m, alertState[r], raised) =>
          Differ(m, n) /\ Fitting(m, alertState'[r], raised')
  BY <1>6, <1>7, <1>10, <1>11, <1>12 DEF Fitting, Differ
<1>16. OnlyLoop(l) => \A m \in Notes :
          EndsWith(m, alertState[r]) /\ Fitting(m, alertState[r], raised) => Follows(m, n)
  <2>1. OnlyLoop(l) => alertState[r].alert = NoAlert
    BY <1>1, <1>2, <1>3, <1>4 DEF TellsStory
  <2>2. QED
    BY <1>6, <1>8, <1>10, <2>1 DEF EndsWith, Fitting, Follows
<1>17. QED
  BY <1>2, <1>10, <1>11, <1>12, <1>13, <1>14, <1>15, <1>16, Speaks

\* The end of an alert has not been spoken of while a rule has it.
LEMMA ResolveStep ==
  ASSUME AlertInv, NEW l \in Loops, resolve_alert(l)
  PROVE  AlertInv'
<1>1. AlertTypes
  BY DEF AlertInv
<1>2. loops[l].at = "resolve" /\ loops[l].at \in Evaluating
  BY DEF resolve_alert, Evaluating
<1>3. /\ Rule(l).id \in RuleIds /\ State(l) = alertState[Rule(l).id]
      /\ State(l) \in States /\ StateFits(State(l), raised)
      /\ LoopFits(NextRule(l)) /\ NextRule(l).at \in {"waiting", "look"}
  BY <1>2, Evaluator
<1>4. PICK r \in RuleIds : r = Rule(l).id
  BY <1>3
<1>5. raised \in Nat /\ alertState \in [RuleIds -> States]
  BY <1>1 DEF AlertTypes
<1>6. PICK old \in States : old = alertState[r] /\ old = State(l)
  BY <1>3, <1>4
<1>7. PICK new : new = [old EXCEPT !.alert = NoAlert]
  OBVIOUS
<1>8. new \in States /\ new.alert = NoAlert /\ new.level = old.level
  BY <1>7 DEF States, NoAlert
<1>9. alertState' = [alertState EXCEPT ![r] = new] /\ UNCHANGED <<rules, clock, told, raised>>
  BY <1>4, <1>6, <1>7 DEF resolve_alert
<1>10. /\ alertState' \in [RuleIds -> States] /\ alertState'[r] = new
       /\ \A id \in RuleIds \ {r} : alertState'[id] = alertState[id]
  BY <1>5, <1>8, <1>9
<1>11. CASE old.alert = NoAlert
  <2>1. loops' = [loops EXCEPT ![l] = NextRule(l)]
    BY <1>6, <1>11 DEF resolve_alert
  <2>2. \A id \in RuleIds : StateKept(alertState[id], alertState'[id])
    BY <1>6, <1>8, <1>10, <1>11 DEF StateKept
  <2>3. QED
    BY <1>2, <1>3, <1>9, <1>10, <2>1, <2>2, LoopMoves
<1>12. CASE old.alert # NoAlert
  <2>1. PICK kind : kind = "AlertResolved"
    OBVIOUS
  <2>2. PICK y : y = Sends(l, kind, old.alert, 0, Rule(l).channels)
    OBVIOUS
  <2>3. old.alert \in Nat /\ old.alert <= raised /\ old.alert >= 1
    BY <1>3, <1>6, <1>12 DEF States, StateFits, NoAlert
  <2>4. PICK n \in Notes : /\ n.kind = kind /\ n.alert = old.alert /\ n.level = 0
                           /\ y.notification = n /\ LoopFits(y) /\ SendsTo(y, r)
    <3>1. PICK level \in Nat : level = 0
      OBVIOUS
    <3>2. y = Sends(l, kind, old.alert, level, Rule(l).channels)
      BY <2>2, <3>1
    <3>3. kind \in {"AlertTriggered", "AlertResolved", "AlertEscalated"}
      BY <2>1
    <3>4. \E n \in Notes : /\ n.kind = kind /\ n.alert = old.alert /\ n.level = level
                          /\ y.notification = n /\ LoopFits(y) /\ SendsTo(y, Rule(l).id)
      BY <1>2, <2>3, <3>2, <3>3, SendsNote
    <3>5. QED
      BY <1>4, <3>1, <3>4
  <2>5. loops' = [loops EXCEPT ![l] = y]
    BY <1>6, <1>12, <2>1, <2>2 DEF resolve_alert
  <2>6. raised' \in Nat /\ raised <= raised' /\ StateFits(alertState'[r], raised')
    BY <1>5, <1>8, <1>9, <1>10 DEF StateFits, NoAlert
  <2>7. Fitting(n, alertState'[r], raised') /\ EndsWith(n, alertState'[r])
    BY <1>5, <1>8, <1>9, <1>10, <2>1, <2>3, <2>4 DEF Fitting, EndsWith, NoAlert
  <2>8. \A m \in Notes : Fitting(m, alertState[r], raised) =>
           Differ(m, n) /\ Fitting(m, alertState'[r], raised')
    BY <1>5, <1>6, <1>8, <1>9, <1>10, <2>1, <2>4 DEF Fitting, Differ, NoAlert
  <2>9. \A m \in Notes :
           EndsWith(m, alertState[r]) /\ Fitting(m, alertState[r], raised) => Follows(m, n)
    BY <1>6, <1>12, <2>1, <2>4 DEF EndsWith, Follows
  <2>10. QED
    BY <1>2, <1>9, <1>10, <2>4, <2>5, <2>6, <2>7, <2>8, <2>9, Speaks
<1>13. QED
  BY <1>11, <1>12

\* A level that is due lies above all that were spoken of.
LEMMA EscalateStep ==
  ASSUME AlertInv, NEW l \in Loops, check_escalation_async(l)
  PROVE  AlertInv'
<1>1. AlertTypes
  BY DEF AlertInv
<1>2. loops[l].at = "escalate" /\ loops[l].at \in Evaluating
  BY DEF check_escalation_async, Evaluating
<1>3. /\ Rule(l).id \in RuleIds /\ State(l) = alertState[Rule(l).id] /\ Rule(l) \in AlertRules
      /\ State(l) \in States /\ StateFits(State(l), raised)
      /\ LoopFits(NextRule(l)) /\ NextRule(l).at \in {"waiting", "look"}
  BY <1>2, Evaluator
<1>4. PICK r \in RuleIds : r = Rule(l).id
  BY <1>3
<1>5. raised \in Nat /\ alertState \in [RuleIds -> States]
  BY <1>1 DEF AlertTypes
<1>6. PICK old \in States : old = alertState[r] /\ old = State(l)
  BY <1>3, <1>4
<1>7. UNCHANGED <<rules, clock, told, raised>>
  BY DEF check_escalation_async
<1>8. CASE old.alert = NoAlert \/ old.status = "Acknowledged" \/ escalation_due(l) = {}
  <2>1. alertState' = alertState /\ loops' = [loops EXCEPT ![l] = NextRule(l)]
    BY <1>6, <1>8 DEF check_escalation_async
  <2>2. \A id \in RuleIds : StateKept(alertState[id], alertState'[id])
    BY <2>1 DEF StateKept
  <2>3. QED
    BY <1>2, <1>3, <1>5, <1>7, <2>1, <2>2, LoopMoves
<1>9. CASE ~(old.alert = NoAlert \/ old.status = "Acknowledged" \/ escalation_due(l) = {})
  <2>1. PICK kind : kind = "AlertEscalated"
    OBVIOUS
  <2>2. PICK level \in Nat : level = Min(escalation_due(l)) /\ level > old.level
    <3>1. PICK count \in Nat : count = Len(Rule(l).escalations)
      BY <1>3, AlertAssumption
    <3>2. escalation_due(l) \subseteq {k \in 0..count - 1 : k > old.level}
      BY <1>6, <3>1 DEF escalation_due
    <3>3. escalation_due(l) \subseteq Nat
      BY <3>1, <3>2
    <3>4. Min(escalation_due(l)) \in escalation_due(l)
      BY <1>9, <3>3, MinIsOne
    <3>5. QED
      BY <3>2, <3>3, <3>4
  <2>3. PICK names : names = Rule(l).escalations[level + 1].channels
    OBVIOUS
  <2>4. PICK y : y = Sends(l, kind, old.alert, level, names)
    OBVIOUS
  <2>5. old.alert \in Nat /\ old.alert <= raised /\ old.alert >= 1 /\ old.level \in Int
    BY <1>3, <1>6, <1>9 DEF States, StateFits, NoAlert
  <2>6. PICK n \in Notes : /\ n.kind = kind /\ n.alert = old.alert /\ n.level = level
                           /\ y.notification = n /\ LoopFits(y) /\ SendsTo(y, r)
    BY <1>2, <1>4, <2>1, <2>4, <2>5, SendsNote
  <2>7. PICK new : new = [old EXCEPT !.level = level]
    OBVIOUS
  <2>8. new \in States /\ new.alert = old.alert /\ new.level = level
    BY <2>7 DEF States
  <2>9. /\ alertState' = [alertState EXCEPT ![r] = new]
        /\ loops' = [loops EXCEPT ![l] = y]
    BY <1>4, <1>6, <1>9, <2>1, <2>2, <2>3, <2>4, <2>7 DEF check_escalation_async
  <2>10. /\ alertState' \in [RuleIds -> States] /\ alertState'[r] = new
         /\ \A id \in RuleIds \ {r} : alertState'[id] = alertState[id]
    BY <1>5, <2>8, <2>9
  <2>11. raised' \in Nat /\ raised <= raised' /\ StateFits(alertState'[r], raised')
    BY <1>5, <1>7, <2>5, <2>8, <2>10 DEF StateFits
  <2>12. Fitting(n, alertState'[r], raised') /\ EndsWith(n, alertState'[r])
    BY <1>5, <1>7, <2>1, <2>5, <2>6, <2>8, <2>10 DEF Fitting, EndsWith, NoAlert
  <2>13. \A m \in Notes : Fitting(m, alertState[r], raised) =>
            Differ(m, n) /\ Fitting(m, alertState'[r], raised')
    BY <1>5, <1>6, <1>7, <2>1, <2>2, <2>5, <2>6, <2>8, <2>10 DEF Fitting, Differ, Notes
  <2>14. \A m \in Notes :
            EndsWith(m, alertState[r]) /\ Fitting(m, alertState[r], raised) => Follows(m, n)
    BY <1>6, <1>9, <2>1, <2>2, <2>6 DEF EndsWith, Follows
  <2>15. QED
    BY <1>2, <1>7, <2>6, <2>9, <2>10, <2>11, <2>12, <2>13, <2>14, Speaks
<1>10. QED
  BY <1>8, <1>9

\* Before the start nothing is known of any rule, and nothing is said.
LEMMA AlertInitInv ==
  AlertInit => AlertInv
<1> SUFFICES ASSUME AlertInit PROVE AlertInv
  OBVIOUS
<1>1. Unseen \in States /\ Unseen.alert = NoAlert
  BY DEF Unseen, States, AlertStatus, NoAlert
<1>2. PICK idle : idle = [at |-> "none"]
  OBVIOUS
<1>3. LoopFits(idle) /\ idle.at = "none"
  BY <1>2 DEF LoopFits, Evaluating
<1>4. \A l \in Loops : loops[l] = idle
  BY <1>2 DEF AlertInit
<1>5. \A id \in RuleIds : told[id] = <<>> /\ alertState[id] = Unseen
  BY DEF AlertInit
<1>6. AlertTypes
  <2>1. /\ rules \in Seq(AlertRules) /\ raised = 0 /\ clock = 0
        /\ alertState \in [RuleIds -> States] /\ told \in [RuleIds -> Seq(Notes)]
        /\ loops = [l \in Loops |-> loops[l]]
    BY <1>1, EmptySeq DEF AlertInit
  <2>2. \A id \in RuleIds : StateFits(alertState[id], raised)
    BY <1>1, <1>5, <2>1 DEF StateFits, NoAlert
  <2>3. QED
    BY <1>3, <1>4, <2>1, <2>2 DEF AlertTypes
<1>7. \A id \in RuleIds : Once(id)
  <2>1. DOMAIN <<>> = {}
    OBVIOUS
  <2>2. \A l \in Loops, id \in RuleIds : ~SendsTo(loops[l], id)
    BY <1>3, <1>4 DEF SendsTo
  <2>3. QED
    BY <1>5, <2>1, <2>2 DEF Once
<1>8. \A l \in Loops : TellsStory(l)
  <2>1. \A l \in Loops, id \in RuleIds : Said(told[id], loops[l], id) = <<>>
    BY <1>3, <1>4, <1>5 DEF Said, SendsTo
  <2>2. Story(<<>>)
    BY DEF Story
  <2>3. EndsAs(<<>>, Unseen)
    BY <1>1 DEF EndsAs
  <2>4. QED
    BY <1>3, <1>4, <1>5, <2>1, <2>2, <2>3 DEF TellsStory
<1>9. QED
  BY <1>6, <1>7, <1>8 DEF AlertInv

\* Every step keeps the account of the alerts true.
LEMMA AlertNextInv ==
  AlertInv /\ [AlertNext]_alertVars => AlertInv'
<1> SUFFICES ASSUME AlertInv, [AlertNext]_alertVars PROVE AlertInv'
  OBVIOUS
<1>1. CASE \/ clock_ticks
           \/ \E r \in AlertRules : add_rule(r)
           \/ \E id \in RuleIds : remove_rule(id)
           \/ \E a \in 1..raised : acknowledge_alert(a)
  BY <1>1, WorldSteps
<1>2. ASSUME NEW l \in Loops, start_alerting(l) \/ \E s \in Snapshots : evaluate_rules(l, s)
      PROVE  AlertInv'
  BY <1>2, RoundStep
<1>3. ASSUME NEW l \in Loops, process_rule_evaluation(l) PROVE AlertInv'
  BY <1>3, LookStep
<1>4. ASSUME NEW l \in Loops, raise(l) PROVE AlertInv'
  BY <1>4, RaiseStep
<1>5. ASSUME NEW l \in Loops, resolve_alert(l) PROVE AlertInv'
  BY <1>5, ResolveStep
<1>6. ASSUME NEW l \in Loops, check_escalation_async(l) PROVE AlertInv'
  BY <1>6, EscalateStep
<1>7. ASSUME NEW l \in Loops, send_notification(l) PROVE AlertInv'
  BY <1>7, SendStep
<1>8. CASE UNCHANGED alertVars
  <2>1. UNCHANGED <<loops, told, raised, rules, clock, alertState>>
    BY <1>8 DEF alertVars
  <2>2. /\ rules' \in Seq(AlertRules) /\ clock' \in Nat
        /\ alertState' \in [RuleIds -> States]
        /\ \A id \in RuleIds : StateKept(alertState[id], alertState'[id])
    BY <2>1 DEF AlertInv, AlertTypes, StateKept
  <2>3. QED
    BY <2>1, <2>2, WorldMoves
<1>9. QED
  BY <1>1, <1>2, <1>3, <1>4, <1>5, <1>6, <1>7, <1>8 DEF AlertNext

\* What is told or about to be sent of a rule fits the state of the rule, is said once, and
\* with one loop is a story that ends where the rule is.
THEOREM AlertInvariant == AlertSpec => []AlertInv
<1>1. QED
  BY AlertInitInv, AlertNextInv, PTL DEF AlertSpec

\* Whatever the values compared, a condition that is met shows a value past its threshold.
LEMMA MetIsShown ==
  AlertJustified
<1>1. SUFFICES ASSUME NEW c \in Conditions, NEW s \in Snapshots, evaluate_condition(c, s)
               PROVE  IF c.kind = "MetricThreshold" /\ c.operator = "LessThan"
                      THEN get_current_value(c, s) < get_threshold_value(c)
                      ELSE get_current_value(c, s) > get_threshold_value(c)
  BY DEF AlertJustified
<1>2. c.kind \in {"ErrorRate", "ResponseTime", "ResourceUsage", "TestFailureRate",
                  "MetricThreshold"}
  BY AlertAssumption
<1>3. CASE c.kind = "ErrorRate"
  BY <1>1, <1>3 DEF evaluate_condition, get_current_value, get_threshold_value
<1>4. CASE c.kind = "ResponseTime"
  BY <1>1, <1>4 DEF evaluate_condition, get_current_value, get_threshold_value
<1>5. CASE c.kind = "ResourceUsage"
  BY <1>1, <1>5 DEF evaluate_condition, get_current_value, get_threshold_value
<1>6. CASE c.kind = "TestFailureRate"
  BY <1>1, <1>6 DEF evaluate_condition, get_current_value, get_threshold_value
<1>7. CASE c.kind = "MetricThreshold"
  BY <1>1, <1>7 DEF evaluate_condition, get_current_value, get_threshold_value
<1>8. QED
  BY <1>2, <1>3, <1>4, <1>5, <1>6, <1>7

\* What the channels were told is what the property asks for.
LEMMA ToldWell ==
  AlertInv => AlertsTold
<1> SUFFICES ASSUME AlertInv PROVE AlertsTold
  OBVIOUS
<1>1. AlertTypes /\ (\A id \in RuleIds : Once(id)) /\ \A l \in Loops : TellsStory(l)
  BY DEF AlertInv
<1>2. ToldOnce
  <2>1. \A id \in RuleIds : DOMAIN told[id] = 1..Len(told[id]) /\ Len(told[id]) \in Nat
    BY <1>1, LenProperties DEF AlertTypes
  <2>2. ASSUME NEW id \in RuleIds, NEW i \in DOMAIN told[id], NEW j \in DOMAIN told[id], i < j
        PROVE  <<told[id][i].kind, told[id][i].alert, told[id][i].level>>
               # <<told[id][j].kind, told[id][j].alert, told[id][j].level>>
    <3>1. i # j
      BY <2>1, <2>2
    <3>2. Differ(told[id][i], told[id][j])
      BY <1>1, <3>1 DEF Once
    <3>3. QED
      BY <3>2 DEF Differ
  <2>3. QED
    BY <2>2 DEF ToldOnce
<1>3. ToldInOrder
  <2>1. SUFFICES ASSUME Cardinality(Started) = 1, NEW id \in RuleIds,
                        NEW i \in 1..Len(told[id]) - 1
                 PROVE  Follows(told[id][i], told[id][i + 1])
    BY DEF ToldInOrder, Follows
  <2>2. Started \subseteq Loops /\ IsFiniteSet(Started)
    BY AlertAssumption, FS_Subset DEF Started
  <2>3. PICK l : Started = {l}
    BY <2>1, <2>2, FS_Singleton
  <2>4. l \in Loops /\ OnlyLoop(l)
    BY <2>2, <2>3 DEF Started, OnlyLoop
  <2>5. Story(Said(told[id], loops[l], id))
    BY <1>1, <2>4 DEF TellsStory
  <2>6. told[id] \in Seq(Notes) /\ Len(told[id]) \in Nat
    BY <1>1, LenProperties DEF AlertTypes
  <2>7. CASE ~SendsTo(loops[l], id)
    BY <2>5, <2>7 DEF Said, Story
  <2>8. CASE SendsTo(loops[l], id)
    <3>1. PICK n \in Notes : n = loops[l].notification
      BY <1>1, <2>4, <2>8 DEF AlertTypes, LoopFits, SendsTo
    <3>2. PICK more \in Seq(Notes) : more = Append(told[id], n)
      BY <2>6, LastOne
    <3>3. Len(more) = Len(told[id]) + 1 /\ \A j \in 1..Len(told[id]) : more[j] = told[id][j]
      BY <2>6, <3>2, LastOne
    <3>4. Story(more)
      BY <2>5, <2>8, <3>1, <3>2 DEF Said
    <3>5. i \in 1..Len(more) - 1 /\ i \in 1..Len(told[id]) /\ i + 1 \in 1..Len(told[id])
      BY <2>6, <3>3
    <3>6. Follows(more[i], more[i + 1])
      BY <3>4, <3>5 DEF Story
    <3>7. QED
      BY <3>3, <3>5, <3>6
  <2>9. QED
    BY <2>7, <2>8
<1>4. QED
  BY <1>2, <1>3, MetIsShown DEF AlertsTold

\* However many loops evaluate the rules, nobody is told the same of an alert twice; with one
\* loop the notifications of a rule are whole stories; a raised alert shows its reason.
THEOREM ChannelsAreToldTruly == AlertSpec => []AlertsTold
<1>1. QED
  BY AlertInvariant, ToldWell, PTL

-----------------------------------------------------------------------------
(***************************************************************************)
(* Results: the inductive invariant                                        *)
(***************************************************************************)
\* The entry of an index for a result that is newer than all others of its id.
LastFor(index, id, n) ==
    n \in DOMAIN index /\ index[n].id = id /\ \A m \in DOMAIN index : index[m].id = id => m <= n

Indexed ==
    \A by \in Indices :
        /\ indices[by] \in Seq(Range(indices[by]))
        /\ \A n \in DOMAIN indices[by] : indices[by][n].id \in DOMAIN results
        /\ \A id \in DOMAIN results :
              by # "by_error_type" \/ results[id].analysis # <<>> =>
                  \E n \in DOMAIN indices[by] :
                      LastFor(indices[by], id, n) /\ indices[by][n].key = KeyIn(by, results[id])

Analysed(r) == r \in Added \/ (r.analysis # <<>> <=> r.status = "Failed")

Stored ==
    /\ DOMAIN results \in SUBSET Nat /\ IsFiniteSet(DOMAIN results)
    /\ \A id \in DOMAIN results : results[id].duration \in Nat /\ Analysed(results[id])
    /\ Cardinality(DOMAIN results) <= Len(indices.by_status)

Viewed ==
    /\ browser = [filter |-> browser.filter, sort |-> browser.sort, shown |-> browser.shown,
                  of |-> browser.of, views |-> browser.views]
    /\ browser.shown \in Seq(Range(browser.shown))
    /\ \A r \in Range(browser.shown) : r.duration \in Nat
    /\ browser.of.size \in Nat /\ browser.of.size <= Cardinality(DOMAIN results)

ResultInv == Indexed /\ Stored /\ Viewed /\ ViewTrue

-----------------------------------------------------------------------------
\* A result is entered at the end of the indices it belongs to.
LEMMA Entered ==
    ASSUME NEW result, NEW id, NEW by \in Indices, add_result(result, id)
    PROVE  indices'[by] = IF by = "by_error_type" /\ result.analysis = <<>> THEN indices[by]
                          ELSE Append(indices[by], [key |-> KeyIn(by, result), id |-> id])
<1>1. indices' = index_result(result, id)
  BY DEF add_result
<1>2. CASE by = "by_test_name"
  BY <1>1, <1>2 DEF index_result, enter, KeyIn
<1>3. CASE by = "by_status"
  BY <1>1, <1>3 DEF index_result, enter, KeyIn
<1>4. CASE by = "by_execution_time"
  BY <1>1, <1>4 DEF index_result, enter, KeyIn
<1>5. CASE by = "by_duration"
  BY <1>1, <1>5 DEF index_result, enter, KeyIn
<1>6. CASE by = "by_error_type"
  BY <1>1, <1>6 DEF index_result, enter, KeyIn
<1>7. QED
  BY <1>2, <1>3, <1>4, <1>5, <1>6 DEF Indices

\* What is stored after a result was added.
LEMMA NowStored ==
    ASSUME NEW result, NEW id, add_result(result, id)
    PROVE  /\ DOMAIN results' = DOMAIN results \cup {id} /\ results'[id] = result
           /\ \A i \in DOMAIN results : i # id => results'[i] = results[i]
           /\ browser' = browser
BY DEF add_result

\* Adding a result leaves every index with the key of what is stored.
LEMMA AddedIndexed ==
    ASSUME Indexed, NEW result, NEW id, add_result(result, id)
    PROVE  Indexed'
<1> SUFFICES ASSUME NEW by \in Indices
             PROVE  /\ indices'[by] \in Seq(Range(indices'[by]))
                    /\ \A n \in DOMAIN indices'[by] : indices'[by][n].id \in DOMAIN results'
                    /\ \A i \in DOMAIN results' :
                          by # "by_error_type" \/ results'[i].analysis # <<>> =>
                              \E n \in DOMAIN indices'[by] :
                                  /\ LastFor(indices'[by], i, n)
                                  /\ indices'[by][n].key = KeyIn(by, results'[i])
  BY DEF Indexed
<1>1. PICK index, grown : index = indices[by] /\ grown = indices'[by]
  OBVIOUS
<1>2. /\ index \in Seq(Range(index)) /\ \A n \in DOMAIN index : index[n].id \in DOMAIN results
      /\ \A i \in DOMAIN results : by # "by_error_type" \/ results[i].analysis # <<>> =>
            \E n \in DOMAIN index : LastFor(index, i, n) /\ index[n].key = KeyIn(by, results[i])
  BY <1>1 DEF Indexed
<1>3. PICK k \in Nat : k = Len(index) /\ DOMAIN index = 1..k
  BY <1>2, LenProperties
<1>4. /\ DOMAIN results' = DOMAIN results \cup {id} /\ results'[id] = result
      /\ \A i \in DOMAIN results : i # id => results'[i] = results[i]
  BY NowStored
<1>5. CASE by = "by_error_type" /\ result.analysis = <<>>
  <2>1. grown = index
    BY <1>1, <1>5, Entered
  <2>2. \A i \in DOMAIN results' :
           results'[i].analysis # <<>> => i # id /\ i \in DOMAIN results /\ results'[i] = results[i]
    BY <1>4, <1>5
  <2>3. QED
    BY <1>1, <1>2, <1>4, <1>5, <2>1, <2>2
<1>6. CASE ~(by = "by_error_type" /\ result.analysis = <<>>)
  <2>1. PICK entry : entry = [key |-> KeyIn(by, result), id |-> id]
    OBVIOUS
  <2>2. grown = Append(index, entry) /\ entry.id = id /\ entry.key = KeyIn(by, result)
    BY <1>1, <1>6, <2>1, Entered
  <2>3. index \in Seq(Range(index) \cup {entry})
    BY <1>2, SeqMonotonic
  <2>4. /\ grown \in Seq(Range(index) \cup {entry}) /\ Len(grown) = k + 1 /\ grown[k + 1] = entry
        /\ \A n \in 1..k : grown[n] = index[n]
        /\ Range(grown) = Range(index) \cup {entry}
    BY <1>3, <2>2, <2>3, RangeAppend
  <2>5. grown \in Seq(Range(grown)) /\ DOMAIN grown = 1..k + 1
    BY <2>4, LenProperties
  <2>6. \A n \in 1..k + 1 : IF n = k + 1 THEN grown[n] = entry ELSE n \in 1..k /\ grown[n] = index[n]
    BY <2>4
  <2>7. \A n \in DOMAIN grown : grown[n].id \in DOMAIN results'
    BY <1>2, <1>3, <1>4, <2>2, <2>5, <2>6
  <2>8. ASSUME NEW i \in DOMAIN results', by # "by_error_type" \/ results'[i].analysis # <<>>
        PROVE  \E n \in DOMAIN grown : LastFor(grown, i, n) /\ grown[n].key = KeyIn(by, results'[i])
    <3>1. CASE i = id
      <4>1. k + 1 \in DOMAIN grown
        BY <2>5
      <4>2. LastFor(grown, i, k + 1)
        BY <2>2, <2>4, <2>5, <3>1, <4>1 DEF LastFor
      <4>3. grown[k + 1].key = KeyIn(by, results'[i])
        BY <1>4, <2>2, <2>4, <3>1
      <4>4. QED
        BY <4>1, <4>2, <4>3
    <3>2. CASE i # id
      <4>1. i \in DOMAIN results /\ results'[i] = results[i]
        BY <1>4, <3>2
      <4>2. PICK n \in 1..k : LastFor(index, i, n) /\ index[n].key = KeyIn(by, results[i])
        BY <1>2, <1>3, <2>8, <4>1
      <4>3. n \in DOMAIN grown /\ grown[n] = index[n]
        BY <2>5, <2>6
      <4>4. \A m \in 1..k + 1 : grown[m].id = i => m \in 1..k /\ index[m].id = i
        BY <2>2, <2>6, <3>2
      <4>5. LastFor(grown, i, n)
        BY <1>3, <2>5, <4>2, <4>3, <4>4 DEF LastFor
      <4>6. QED
        BY <4>1, <4>2, <4>3, <4>5
    <3>3. QED
      BY <3>1, <3>2
  <2>9. QED
    BY <1>1, <2>5, <2>7, <2>8
<1>7. QED
  BY <1>5, <1>6

\* Adding a sound result keeps what is stored sound, and what is shown.
LEMMA AddedStored ==
    ASSUME ResultInv, NEW result, NEW id \in Nat, add_result(result, id),
           result.duration \in Nat, Analysed(result)
    PROVE  ResultInv'
<1>1. Indexed /\ Stored /\ Viewed /\ ViewTrue
  BY DEF ResultInv
<1>2. /\ DOMAIN results' = DOMAIN results \cup {id} /\ results'[id] = result
      /\ \A i \in DOMAIN results : i # id => results'[i] = results[i]
      /\ browser' = browser
  BY NowStored
<1>3. PICK c \in Nat, n \in Nat :
        c = Cardinality(DOMAIN results) /\ n = Len(indices.by_status) /\ c <= n
  <2>1. "by_status" \in Indices
    BY DEF Indices
  <2>2. indices["by_status"] \in Seq(Range(indices["by_status"]))
    BY <1>1, <2>1 DEF Indexed
  <2>3. Len(indices.by_status) \in Nat
    BY <2>2, LenProperties
  <2>4. QED
    BY <1>1, <2>3, FS_CardinalityType DEF Stored
<1>4. Len(indices'.by_status) = n + 1
  <2>1. "by_status" \in Indices
    BY DEF Indices
  <2>2. PICK list : list = indices.by_status /\ list \in Seq(Range(list))
    BY <1>1, <2>1 DEF Indexed
  <2>3. PICK entry : indices'.by_status = Append(list, entry)
    BY <2>1, <2>2, Entered
  <2>4. list \in Seq(Range(list) \cup {entry})
    BY <2>2, SeqMonotonic
  <2>5. QED
    BY <1>3, <2>2, <2>3, <2>4, RangeAppend
<1>5. /\ IsFiniteSet(DOMAIN results')
      /\ Cardinality(DOMAIN results') \in {c, c + 1}
  <2>1. PICK S : S = DOMAIN results /\ IsFiniteSet(S) /\ Cardinality(S) = c
    BY <1>1, <1>3 DEF Stored
  <2>2. IsFiniteSet(S \cup {id}) /\ Cardinality(S \cup {id}) \in {c, c + 1}
    BY <1>3, <2>1, FS_AddElement
  <2>3. QED
    BY <1>2, <2>1, <2>2
<1>6. Stored'
  <2>1. \A i \in DOMAIN results' : results'[i].duration \in Nat /\ Analysed(results'[i])
    BY <1>1, <1>2 DEF Stored
  <2>2. DOMAIN results' \in SUBSET Nat
    BY <1>1, <1>2 DEF Stored
  <2>3. Cardinality(DOMAIN results') <= Len(indices'.by_status)
    BY <1>3, <1>4, <1>5
  <2>4. QED
    BY <1>5, <2>1, <2>2, <2>3 DEF Stored, Analysed
<1>7. Viewed'
  <2>1. browser.of.size <= c /\ c <= Cardinality(DOMAIN results')
    BY <1>1, <1>3, <1>5 DEF Viewed
  <2>2. browser.of.size <= Cardinality(DOMAIN results')
    BY <1>1, <1>3, <1>5, <2>1 DEF Viewed
  <2>3. QED
    BY <1>1, <1>2, <2>2 DEF Viewed
<1>8. ViewTrue'
  <2>1. browser.of.size \in Nat /\ browser.of.size <= c
    BY <1>1, <1>3 DEF Viewed
  <2>2. ~(browser'.of.size = Cardinality(DOMAIN results') /\ Len(indices'.by_status) = browser'.of.size)
    BY <1>2, <1>3, <1>4, <2>1
  <2>3. QED
    BY <1>1, <1>2, <2>2 DEF ViewTrue
<1>9. Indexed'
  BY <1>1, AddedIndexed
<1>10. QED
  BY <1>6, <1>7, <1>8, <1>9 DEF ResultInv

\* A new filter or sort changes nothing that is shown.
LEMMA SetKeeps ==
    ASSUME ResultInv, UNCHANGED <<results, indices>>,
           browser'.shown = browser.shown, browser'.of = browser.of,
           browser' = [filter |-> browser'.filter, sort |-> browser'.sort,
                       shown |-> browser'.shown, of |-> browser'.of, views |-> browser'.views]
    PROVE  ResultInv'
<1>1. Indexed /\ Stored /\ Viewed /\ ViewTrue
  BY DEF ResultInv
<1>2. Indexed' /\ Stored'
  BY <1>1 DEF Indexed, Stored, Analysed
<1>3. Viewed'
  BY <1>1 DEF Viewed
<1>4. ViewTrue'
  BY <1>1 DEF ViewTrue, apply_filter
<1>5. QED
  BY <1>2, <1>3, <1>4 DEF ResultInv

\* What is looked up is what the filter lets through, in the order of the sort.
LEMMA BrowseTrue ==
    ASSUME ResultInv, browse_results
    PROVE  ResultInv'
<1>1. Indexed /\ Stored /\ Viewed
  BY DEF ResultInv
<1>2. UNCHANGED <<results, indices>>
  BY DEF browse_results
<1>3. PICK ids, sort : ids = apply_filter(browser.filter) /\ sort = browser.sort
  OBVIOUS
<1>4. ids \subseteq DOMAIN results /\ IsFiniteSet(ids)
  <2>1. ids \subseteq DOMAIN results
    BY <1>3 DEF apply_filter
  <2>2. QED
    BY <1>1, <2>1, FS_Subset DEF Stored
<1>5. PICK view \in sort_results_by(ids, sort) :
        browser' = [browser EXCEPT !.shown = [n \in DOMAIN view |-> results[view[n]]],
                                   !.of = [filter |-> browser.filter, sort |-> browser.sort,
                                           size |-> Cardinality(DOMAIN results)],
                                   !.views = @ + 1]
  BY <1>3 DEF browse_results
<1>6. PICK N \in Nat : N = Cardinality(ids)
  BY <1>4, FS_CardinalityType
<1>7. view \in [1..N -> ids] /\ DOMAIN view = 1..N
  BY <1>5, <1>6 DEF sort_results_by, SetToSeqs
<1>8. \A m, n \in 1..N : m < n =>
         IF sort.descending
         THEN SortKey(results[view[m]], sort.field) >= SortKey(results[view[n]], sort.field)
         ELSE SortKey(results[view[m]], sort.field) <= SortKey(results[view[n]], sort.field)
  BY <1>5, <1>7 DEF sort_results_by
<1>9. PICK shown, of : /\ shown = [n \in 1..N |-> results[view[n]]]
                       /\ of = [filter |-> browser.filter, sort |-> browser.sort,
                                size |-> Cardinality(DOMAIN results)]
  OBVIOUS
<1>10. browser' = [filter |-> browser.filter, sort |-> browser.sort, shown |-> shown, of |-> of,
                   views |-> browser.views + 1]
  <2>1. PICK b : b = browser /\ b = [filter |-> b.filter, sort |-> b.sort, shown |-> b.shown,
                                     of |-> b.of, views |-> b.views]
    BY <1>1 DEF Viewed
  <2>2. QED
    BY <1>5, <1>7, <1>9, <2>1
<1>11. shown \in Seq(Range(shown)) /\ DOMAIN shown = 1..N /\ Len(shown) = N
  BY <1>9 DEF Range
<1>12. Viewed'
  <2>1. \A r \in Range(shown) : r.duration \in Nat
    BY <1>1, <1>4, <1>7, <1>9 DEF Range, Stored
  <2>2. of.size \in Nat /\ of.size <= Cardinality(DOMAIN results)
    BY <1>1, <1>9, FS_CardinalityType DEF Stored
  <2>3. QED
    BY <1>2, <1>10, <1>11, <2>1, <2>2 DEF Viewed
<1>13. ViewTrue'
  <2>1. \A n \in 1..N : matches_result(shown[n], of.filter)
    BY <1>3, <1>7, <1>9 DEF apply_filter
  <2>2. \A m, n \in 1..N : m < n =>
           IF of.sort.descending
           THEN SortKey(shown[m], of.sort.field) >= SortKey(shown[n], of.sort.field)
           ELSE SortKey(shown[m], of.sort.field) <= SortKey(shown[n], of.sort.field)
    BY <1>3, <1>8, <1>9
  <2>3. Len(shown) = Cardinality(apply_filter(of.filter))
    BY <1>3, <1>6, <1>9, <1>11
  <2>4. browser'.shown = shown /\ browser'.of = of
    BY <1>10
  <2>5. apply_filter(of.filter)' = apply_filter(of.filter)
    BY <1>2 DEF apply_filter
  <2>6. QED
    BY <1>2, <1>11, <2>1, <2>2, <2>3, <2>4, <2>5 DEF ViewTrue
<1>14. Indexed' /\ Stored'
  BY <1>1, <1>2 DEF Indexed, Stored, Analysed
<1>15. QED
  BY <1>12, <1>13, <1>14 DEF ResultInv

-----------------------------------------------------------------------------
\* The inductive invariant of the results.
THEOREM ResultInvariant == ResultSpec => []ResultInv
<1>1. ResultInit => ResultInv
  <2> SUFFICES ASSUME ResultInit PROVE ResultInv
    OBVIOUS
  <2>1. /\ results = <<>> /\ indices = [by \in Indices |-> <<>>] /\ DOMAIN results = {}
        /\ browser = [filter |-> AnyResult, sort |-> NewestFirst, shown |-> <<>>, views |-> 0,
                      of |-> [filter |-> AnyResult, sort |-> NewestFirst, size |-> 0]]
    BY EmptySeq DEF ResultInit
  <2>2. <<>> \in Seq(Range(<<>>)) /\ DOMAIN <<>> = {} /\ Len(<<>>) = 0 /\ Range(<<>>) = {}
    BY EmptySeq DEF Range
  <2>3. IsFiniteSet({}) /\ Cardinality({}) = 0
    BY FS_EmptySet
  <2>4. Indexed
    BY <2>1, <2>2 DEF Indexed
  <2>5. Stored
    BY <2>1, <2>2, <2>3 DEF Stored, Indices
  <2>6. Viewed
    BY <2>1, <2>2, <2>3 DEF Viewed
  <2>7. apply_filter(AnyResult) = {}
    BY <2>1 DEF apply_filter
  <2>8. ViewTrue
    BY <2>1, <2>2, <2>3, <2>7 DEF ViewTrue
  <2>9. QED
    BY <2>4, <2>5, <2>6, <2>8 DEF ResultInv
<1>2. ResultInv /\ [ResultNext]_resultVars => ResultInv'
  <2> SUFFICES ASSUME ResultInv, [ResultNext]_resultVars PROVE ResultInv'
    OBVIOUS
  <2>0. NewId \in Nat /\ 1..NewId \subseteq Nat
    BY FS_CardinalityType DEF NewId, ResultInv, Stored
  <2>1. ASSUME NEW executed \in Executed, NEW time \in 1..2,
               add_interactive_result(executed, NewId, time)
        PROVE  ResultInv'
    <3>1. PICK result : /\ add_result(result, NewId) /\ result.duration = executed.duration
                        /\ result.status = IF executed.success THEN "Passed" ELSE "Failed"
                        /\ result.analysis = IF executed.success THEN <<>>
                                             ELSE <<analyze_failure(executed)>>
      BY <2>1 DEF add_interactive_result
    <3>2. Analysed(result)
      BY <3>1 DEF Analysed
    <3>3. QED
      BY <2>0, <3>1, <3>2, AddedStored, ResultAssumption
  <2>2. ASSUME NEW result \in Added, NEW id \in 1..NewId, add_result(result, id)
        PROVE  ResultInv'
    BY <2>0, <2>2, AddedStored, ResultAssumption DEF Analysed
  <2>3. ASSUME NEW filter \in Filters, set_filter(filter)
        PROVE  ResultInv'
    BY <2>3, SetKeeps DEF set_filter, ResultInv, Viewed
  <2>4. ASSUME NEW sort \in Sorts, set_sort(sort)
        PROVE  ResultInv'
    BY <2>4, SetKeeps DEF set_sort, ResultInv, Viewed
  <2>5. CASE UNCHANGED resultVars
    BY <2>5, SetKeeps DEF resultVars, ResultInv, Viewed
  <2>6. QED
    BY <2>1, <2>2, <2>3, <2>4, <2>5, BrowseTrue DEF ResultNext
<1>3. QED
  BY <1>1, <1>2, PTL DEF ResultSpec
-----------------------------------------------------------------------------
(***************************************************************************)
(* Results: what a summary says of the results that are shown              *)
(***************************************************************************)
Sums(sum, millis, N) ==
    sum = [n \in 0..N |-> IF n = 0 THEN 0 ELSE sum[n - 1] + millis[n]]

\* Numbers can be added up one after the other.
LEMMA SumsExist ==
    ASSUME NEW N \in Nat, NEW millis \in [1..N -> Nat]
    PROVE  \E sum \in [0..N -> Nat] : Sums(sum, millis, N)
<1> DEFINE step == [n \in 1..N |-> [a \in Nat |-> a + millis[n]]]
<1>1. step \in [1..N -> [Nat -> Nat]] /\ 0 \in Nat
  OBVIOUS
<1>2. PICK g : Iterates(g, Nat, 0, N, step)
  <2> HIDE DEF step
  <2> QED
    BY <1>1, Iteration
<1>3. g \in [0..N -> Nat] /\ g[0] = 0
  BY <1>2 DEF Iterates
<1>4. ASSUME NEW n \in 1..N
      PROVE  g[n] = g[n - 1] + millis[n]
  <2>1. n - 1 \in 0..N
    OBVIOUS
  <2>2. g[n - 1] \in Nat
    BY <1>3, <2>1
  <2>3. g[n] = step[n][g[n - 1]]
    <3> HIDE DEF step
    <3> QED
      BY <1>2 DEF Iterates
  <2>4. QED
    BY <2>2, <2>3
<1>5. \A n \in 0..N : g[n] = IF n = 0 THEN 0 ELSE g[n - 1] + millis[n]
  BY <1>3, <1>4
<1>6. QED
  BY <1>3, <1>5 DEF Sums

\* The sum of N numbers between two bounds is between N times the bounds.
LEMMA SumBounds ==
    ASSUME NEW N \in Nat, NEW millis \in [1..N -> Nat], NEW sum, Sums(sum, millis, N),
           NEW least \in Nat, NEW most \in Nat,
           \A n \in 1..N : least <= millis[n] /\ millis[n] <= most
    PROVE  sum[N] \in Nat /\ N * least <= sum[N] /\ sum[N] <= N * most
<1> DEFINE P == {n \in 0..N : sum[n] \in Nat /\ n * least <= sum[n] /\ sum[n] <= n * most}
<1>1. \A n \in 0..N : sum[n] = IF n = 0 THEN 0 ELSE sum[n - 1] + millis[n]
  BY DEF Sums
<1>2. 0 \in P
  <2>1. 0 \in 0..N /\ 0 * least = 0 /\ 0 * most = 0
    OBVIOUS
  <2>2. QED
    BY <1>1, <2>1
<1>3. ASSUME NEW n \in 1..N, n - 1 \in P
      PROVE  n \in P
  <2>0. n - 1 \in Nat /\ sum[n - 1] \in Nat
    BY <1>3
  <2>1. PICK k \in Nat, before \in Nat : k = n - 1 /\ before = sum[n - 1]
    BY <2>0
  <2>2. PICK low \in Nat, high \in Nat :
           low = k * least /\ high = k * most /\ low <= before /\ before <= high
    BY <1>3, <2>1
  <2>3. PICK m \in Nat : m = millis[n] /\ sum[n] = before + m /\ least <= m /\ m <= most
    BY <1>1, <2>1
  <2>4. n * least = low + least /\ n * most = high + most
    <3>1. n = k + 1
      BY <2>1
    <3>2. (k + 1) * least = k * least + least /\ (k + 1) * most = k * most + most
      BY <2>1
    <3>3. QED
      BY <2>2, <3>1, <3>2
  <2>5. low + least <= before + m /\ before + m <= high + most /\ before + m \in Nat
    BY <2>2, <2>3
  <2>6. n * least <= sum[n] /\ sum[n] <= n * most /\ sum[n] \in Nat
    BY <2>3, <2>4, <2>5
  <2>7. QED
    BY <2>6
<1>4. 0..N \subseteq P
  <2> HIDE DEF P
  <2> QED
    BY <1>2, <1>3, SetInduction
<1>5. N \in 0..N
  OBVIOUS
<1>6. QED
  BY <1>4, <1>5

\* So is the average, rounded down.
LEMMA DivBounds ==
    ASSUME NEW N \in Nat, N > 0, NEW a \in Nat, NEW least \in Nat, NEW most \in Nat,
           N * least <= a, a <= N * most
    PROVE  a \div N \in Nat /\ least <= a \div N /\ a \div N <= most
<1>1. PICK q \in Nat, r \in Nat : q = a \div N /\ a = N * q + r /\ r < N
  OBVIOUS
<1>2. least <= q
  <2> SUFFICES ASSUME q + 1 <= least PROVE FALSE
    OBVIOUS
  <2>1. PICK d \in Nat : least = q + 1 + d
    <3>1. least - (q + 1) \in Nat /\ least = q + 1 + (least - (q + 1))
      OBVIOUS
    <3>2. QED
      BY <3>1
  <2>2. N * least = N * q + N + N * d /\ N * d \in Nat /\ N * q \in Nat
    BY <2>1
  <2>3. QED
    BY <1>1, <2>2
<1>3. q <= most
  <2> SUFFICES ASSUME most + 1 <= q PROVE FALSE
    OBVIOUS
  <2>1. PICK d \in Nat : q = most + 1 + d
    <3>1. q - (most + 1) \in Nat /\ q = most + 1 + (q - (most + 1))
      OBVIOUS
    <3>2. QED
      BY <3>1
  <2>2. N * q = N * most + N + N * d /\ N * d \in Nat /\ N * most \in Nat
    BY <2>1
  <2>3. QED
    BY <1>1, <2>2
<1>4. QED
  BY <1>1, <1>2, <1>3

\* The rate is 100 only when all passed.
LEMMA RateFull ==
    ASSUME NEW N \in Nat, N > 0, NEW p \in Nat, p <= N
    PROVE  (100 * p) \div N = 100 <=> p = N
<1>0. PICK a \in Nat : a = 100 * p
  OBVIOUS
<1>1. PICK q \in Nat, r \in Nat : q = a \div N /\ a = N * q + r /\ r < N
  OBVIOUS
<1>2. ASSUME q = 100 PROVE p = N
  BY <1>0, <1>1, <1>2
<1>3. ASSUME p = N PROVE q = 100
  <2>1. N * 100 <= a /\ a <= N * 100
    BY <1>0, <1>3
  <2>2. 100 <= a \div N /\ a \div N <= 100
    BY <2>1, DivBounds
  <2>3. QED
    BY <1>1, <2>2
<1>4. QED
  BY <1>0, <1>1, <1>2, <1>3

\* Numbers have a least and a greatest one.
LEMMA Extremes ==
    ASSUME NEW N \in Nat, N > 0, NEW millis \in [1..N -> Nat]
    PROVE  LET all == {millis[n] : n \in 1..N}
           IN  /\ Min(all) \in all /\ Max(all) \in all
               /\ \A n \in 1..N : Min(all) <= millis[n] /\ millis[n] <= Max(all)
<1> DEFINE all == {millis[n] : n \in 1..N}
<1>1. all \subseteq Nat /\ all # {} /\ \A n \in 1..N : millis[n] \in all
  <2>1. 1 \in 1..N
    OBVIOUS
  <2>2. QED
    BY <2>1
<1>2. PICK S : S = all
  OBVIOUS
<1>3. Min(S) \in S /\ \A n \in S : Min(S) <= n
  BY <1>1, <1>2, LeastNatural DEF Min
<1>4. \E most \in S : \A n \in S : most >= n
  <2> DEFINE P == {n \in 0..N : n = 0 \/ \E k \in 1..N : \A m \in 1..n : millis[k] >= millis[m]}
  <2>1. 0 \in P
    OBVIOUS
  <2>2. ASSUME NEW n \in 1..N, n - 1 \in P
        PROVE  n \in P
    <3>1. CASE n = 1
      <4>1. \A m \in 1..n : millis[n] >= millis[m]
        BY <3>1
      <4>2. QED
        BY <4>1
    <3>2. CASE n # 1
      <4>1. PICK k \in 1..N : \A m \in 1..n - 1 : millis[k] >= millis[m]
        BY <2>2, <3>2
      <4>2. \A m \in 1..n : m = n \/ m \in 1..n - 1
        OBVIOUS
      <4>3. CASE millis[n] >= millis[k]
        <5>1. \A m \in 1..n : millis[n] >= millis[m]
          <6>1. \A m \in 1..n : millis[m] \in Nat
            OBVIOUS
          <6>2. QED
            BY <4>1, <4>2, <4>3, <6>1
        <5>2. QED
          BY <5>1
      <4>4. CASE ~(millis[n] >= millis[k])
        <5>1. \A m \in 1..n : millis[k] >= millis[m]
          <6>1. \A m \in 1..n : millis[m] \in Nat
            OBVIOUS
          <6>2. QED
            BY <4>1, <4>2, <4>4, <6>1
        <5>2. QED
          BY <5>1
      <4>5. QED
        BY <4>3, <4>4
    <3>3. QED
      BY <3>1, <3>2
  <2>3. 0..N \subseteq P
    <3> HIDE DEF P
    <3> QED
      BY <2>1, <2>2, SetInduction
  <2>4. N \in P
    <3>1. N \in 0..N
      OBVIOUS
    <3> HIDE DEF P
    <3> QED
      BY <2>3, <3>1
  <2>5. PICK k \in 1..N : \A m \in 1..N : millis[k] >= millis[m]
    BY <2>4
  <2>6. QED
    BY <1>2, <2>5
<1>5. Max(S) \in S /\ \A n \in S : Max(S) >= n
  BY <1>4 DEF Max
<1>6. \A n \in S : n \in Nat
  BY <1>1, <1>2
<1>7. \A n \in 1..N : Min(S) <= millis[n] /\ millis[n] <= Max(S)
  BY <1>1, <1>2, <1>3, <1>5, <1>6
<1>8. QED
  BY <1>2, <1>3, <1>5, <1>7
\* Positions are counted by what they hold.
LEMMA CountsFit ==
    ASSUME NEW N \in Nat, NEW A, NEW B, NEW C, A \subseteq 1..N, B \subseteq 1..N, C \subseteq 1..N,
           A \cap B = {}, A \cap C = {}, B \cap C = {}
    PROVE  /\ Cardinality(A) \in Nat /\ Cardinality(B) \in Nat /\ Cardinality(C) \in Nat
           /\ Cardinality(A) <= N
           /\ Cardinality(A) + Cardinality(B) + Cardinality(C) <= N
           /\ A \cup B \cup C = 1..N => Cardinality(A) + Cardinality(B) + Cardinality(C) = N
<1>1. PICK all : all = 1..N /\ IsFiniteSet(all) /\ Cardinality(all) = N
  BY FS_Interval
<1>2. \A S \in SUBSET all : /\ IsFiniteSet(S) /\ Cardinality(S) \in Nat /\ Cardinality(S) <= N
                            /\ Cardinality(S) = N => S = all
  <2>1. ASSUME NEW S \in SUBSET all
        PROVE  /\ IsFiniteSet(S) /\ Cardinality(S) \in Nat /\ Cardinality(S) <= N
               /\ Cardinality(S) = N => S = all
    <3>1. IsFiniteSet(S) /\ Cardinality(S) <= Cardinality(all)
      BY <1>1, FS_Subset
    <3>2. Cardinality(S) = Cardinality(all) => S = all
      BY <1>1, FS_Subset
    <3>3. QED
      BY <1>1, <3>1, <3>2, FS_CardinalityType
  <2>2. QED
    BY <2>1
<1>3. A \in SUBSET all /\ B \in SUBSET all /\ C \in SUBSET all /\ A \cup B \cup C \in SUBSET all
  BY <1>1
<1>4. Cardinality(A \cup B) = Cardinality(A) + Cardinality(B)
  <2>1. Cardinality(A \cup B) = Cardinality(A) + Cardinality(B) - Cardinality({})
    <3>1. Cardinality(A \cup B) = Cardinality(A) + Cardinality(B) - Cardinality(A \cap B)
      BY <1>2, <1>3, FS_Union
    <3>2. QED
      BY <3>1
  <2>2. Cardinality({}) = 0
    BY FS_EmptySet
  <2>3. QED
    BY <1>2, <1>3, <2>1, <2>2
<1>5. Cardinality(A \cup B \cup C) = Cardinality(A) + Cardinality(B) + Cardinality(C)
  <2>0. PICK D : D = A \cup B
    OBVIOUS
  <2>1. D \in SUBSET all /\ D \cap C = {}
    BY <1>3, <2>0
  <2>2. Cardinality(D \cup C) = Cardinality(D) + Cardinality(C) - Cardinality(D \cap C)
    BY <1>2, <1>3, <2>1, FS_Union
  <2>3. Cardinality(D \cap C) = 0
    BY <2>1, FS_EmptySet
  <2>4. Cardinality(D) \in Nat /\ Cardinality(C) \in Nat
    BY <1>2, <1>3, <2>1
  <2>5. Cardinality(D \cup C) = Cardinality(D) + Cardinality(C)
    BY <2>2, <2>3, <2>4
  <2>6. QED
    BY <1>4, <2>0, <2>5
<1>6. QED
  BY <1>1, <1>2, <1>3, <1>5

\* What a summary says, of any results with a duration.
LEMMA SummaryOfAny ==
    ASSUME NEW shown, shown \in Seq(Range(shown)), \A r \in Range(shown) : r.duration \in Nat
    PROVE  LET s == generate_summary(shown)
               millis == {as_millis(r.duration) : r \in Range(shown)}
           IN  /\ s.passed + s.failed + s.errors <= s.total
               /\ (\A r \in Range(shown) : r.status \in {"Passed", "Failed", "Error"})
                     => s.passed + s.failed + s.errors = s.total
               /\ s.success_rate = 100 <=> s.total > 0 /\ s.passed = s.total
               /\ s.total > 0 => Min(millis) <= s.average /\ s.average <= Max(millis)
<1>1. PICK N \in Nat : N = Len(shown) /\ DOMAIN shown = 1..N
  BY LenProperties
<1>2. PICK A, B, C : /\ A = {n \in 1..N : shown[n].status = "Passed"}
                     /\ B = {n \in 1..N : shown[n].status = "Failed"}
                     /\ C = {n \in 1..N : shown[n].status = "Error"}
  OBVIOUS
<1>3. PICK millis : millis = [n \in 1..N |-> as_millis(shown[n].duration)]
  OBVIOUS
<1>4. \A n \in 1..N : shown[n] \in Range(shown) /\ shown[n].duration \in Nat
  BY <1>1 DEF Range
<1>5. millis \in [1..N -> Nat]
  <2>1. \A d \in Nat : as_millis(d) \in Nat
    BY DEF as_millis
  <2>2. QED
    BY <1>3, <1>4, <2>1
<1>6. PICK sum \in [0..N -> Nat] : Sums(sum, millis, N)
  BY <1>5, SumsExist
<1> DEFINE Added_up(g) ==
             g = [n \in 0..N |-> IF n = 0 THEN 0 ELSE g[n - 1] + as_millis(shown[n].duration)]
<1>7. PICK f : f = (CHOOSE g : Added_up(g)) /\ Sums(f, millis, N)
  <2>1. \A g : Added_up(g) <=> Sums(g, millis, N)
    <3>1. \A n \in 0..N : n # 0 => millis[n] = as_millis(shown[n].duration)
      BY <1>3
    <3>2. ASSUME NEW g
          PROVE  [n \in 0..N |-> IF n = 0 THEN 0 ELSE g[n - 1] + millis[n]]
                 = [n \in 0..N |-> IF n = 0 THEN 0 ELSE g[n - 1] + as_millis(shown[n].duration)]
      BY <3>1
    <3>3. QED
      BY <3>2 DEF Sums
  <2> HIDE DEF Added_up
  <2>2. Added_up(CHOOSE g : Added_up(g))
    BY <1>6, <2>1
  <2>3. QED
    BY <2>1, <2>2
<1>8. PICK s : s = generate_summary(shown)
  OBVIOUS
<1>9. /\ s.total = N /\ s.passed = Cardinality(A) /\ s.failed = Cardinality(B)
      /\ s.errors = Cardinality(C)
      /\ s.average = IF N = 0 THEN 0 ELSE f[N] \div N
      /\ s.success_rate = IF N = 0 THEN 0 ELSE (100 * Cardinality(A)) \div N
  <2>1. shown = <<>> <=> N = 0
    BY <1>1, EmptySeq
  <2>2. QED
    BY <1>1, <1>2, <1>7, <1>8, <2>1 DEF generate_summary
<1>10. /\ A \subseteq 1..N /\ B \subseteq 1..N /\ C \subseteq 1..N
       /\ A \cap B = {} /\ A \cap C = {} /\ B \cap C = {}
  BY <1>2
<1>11. PICK p \in Nat, b \in Nat, c \in Nat :
         /\ p = Cardinality(A) /\ b = Cardinality(B) /\ c = Cardinality(C)
         /\ p <= N /\ p + b + c <= N /\ (A \cup B \cup C = 1..N => p + b + c = N)
  <2>1. /\ Cardinality(A) \in Nat /\ Cardinality(B) \in Nat /\ Cardinality(C) \in Nat
        /\ Cardinality(A) <= N
        /\ Cardinality(A) + Cardinality(B) + Cardinality(C) <= N
        /\ A \cup B \cup C = 1..N => Cardinality(A) + Cardinality(B) + Cardinality(C) = N
    <3>1. Cardinality(A) \in Nat /\ Cardinality(B) \in Nat /\ Cardinality(C) \in Nat
      BY <1>10, CountsFit, Zenon
    <3>2. Cardinality(A) <= N
      BY <1>10, CountsFit, Zenon
    <3>3. Cardinality(A) + Cardinality(B) + Cardinality(C) <= N
      BY <1>10, CountsFit, Zenon
    <3>4. A \cup B \cup C = 1..N => Cardinality(A) + Cardinality(B) + Cardinality(C) = N
      BY <1>10, CountsFit, Zenon
    <3>5. QED
      BY <3>1, <3>2, <3>3, <3>4
  <2>2. PICK p \in Nat, b \in Nat, c \in Nat :
           p = Cardinality(A) /\ b = Cardinality(B) /\ c = Cardinality(C)
    BY <2>1
  <2>3. p <= N /\ p + b + c <= N /\ (A \cup B \cup C = 1..N => p + b + c = N)
    BY <2>1, <2>2
  <2>4. QED
    BY <2>2, <2>3
<1>12. ASSUME \A r \in Range(shown) : r.status \in {"Passed", "Failed", "Error"}
       PROVE  A \cup B \cup C = 1..N
  BY <1>2, <1>4, <1>12
<1>13. s.success_rate = 100 <=> N > 0 /\ p = N
  <2>1. CASE N = 0
    BY <1>9, <2>1
  <2>2. CASE N > 0
    <3>0. PICK rate : rate = (100 * p) \div N
      OBVIOUS
    <3>1. rate = (100 * p) \div N /\ (rate = 100 <=> p = N)
      <4>1. p <= N
        BY <1>11
      <4>2. (100 * p) \div N = 100 <=> p = N
        BY <2>2, <4>1, RateFull
      <4>3. QED
        BY <3>0, <4>2
    <3>2. s.success_rate = rate
      BY <1>9, <1>11, <2>2, <3>1
    <3>3. QED
      BY <2>2, <3>1, <3>2
  <2>3. QED
    BY <2>1, <2>2
<1>14. PICK all : all = {as_millis(r.duration) : r \in Range(shown)}
  OBVIOUS
<1>15. ASSUME N > 0
       PROVE  Min(all) <= s.average /\ s.average <= Max(all)
  <2>1. all = {millis[n] : n \in 1..N}
    BY <1>1, <1>3, <1>4, <1>14 DEF Range
  <2>2. PICK least \in Nat, most \in Nat :
           /\ least = Min(all) /\ most = Max(all)
           /\ \A n \in 1..N : least <= millis[n] /\ millis[n] <= most
    <3>1. \A x \in all : x \in Nat
      BY <1>5, <2>1
    <3>2. QED
      BY <1>5, <1>15, <2>1, <3>1, Extremes
  <2>3. PICK a \in Nat : a = f[N] /\ N * least <= a /\ a <= N * most
    BY <1>5, <1>7, <2>2, SumBounds
  <2>4. least <= a \div N /\ a \div N <= most
    BY <1>15, <2>3, DivBounds
  <2>5. QED
    BY <1>9, <1>15, <2>2, <2>3, <2>4
<1>16. s.passed = p /\ s.failed = b /\ s.errors = c /\ s.total = N
  BY <1>9, <1>11
<1>17. /\ s.passed + s.failed + s.errors <= s.total
       /\ (\A r \in Range(shown) : r.status \in {"Passed", "Failed", "Error"})
             => s.passed + s.failed + s.errors = s.total
       /\ s.success_rate = 100 <=> s.total > 0 /\ s.passed = s.total
       /\ s.total > 0 => Min(all) <= s.average /\ s.average <= Max(all)
  <2>1. s.passed + s.failed + s.errors <= s.total
    BY <1>11, <1>16
  <2>2. (\A r \in Range(shown) : r.status \in {"Passed", "Failed", "Error"})
           => s.passed + s.failed + s.errors = s.total
    BY <1>11, <1>12, <1>16
  <2>3. s.success_rate = 100 <=> s.total > 0 /\ s.passed = s.total
    BY <1>13, <1>16
  <2>4. s.total > 0 => Min(all) <= s.average /\ s.average <= Max(all)
    BY <1>15, <1>16
  <2>5. QED
    BY <2>1, <2>2, <2>3, <2>4
<1>18. QED
  BY <1>8, <1>14, <1>17, Zenon

-----------------------------------------------------------------------------
\* Durations that are 100 milliseconds apart or less do not count as different.
LEMMA Compares ==
    ASSUME NEW r, NEW t, NEW m \in Nat, NEW n \in Nat,
           m = as_millis(r.duration), n = as_millis(t.duration)
    PROVE  IF m <= n + 100 /\ n <= m + 100 THEN compare_performance(r, t) = <<>>
           ELSE \E x : compare_performance(r, t) = <<x>> /\ x.slower = (n > m)
<1>1. PICK apart \in Nat : apart = IF m > n THEN m - n ELSE n - m
  OBVIOUS
<1>2. apart <= 100 <=> m <= n + 100 /\ n <= m + 100
  BY <1>1
<1>3. PICK x : x = [value1 |-> m, value2 |-> n, slower |-> n > m,
                    percentage_change |-> IF m = 0 THEN -1 ELSE (100 * apart) \div m]
  OBVIOUS
<1>4. x.slower = (n > m)
  BY <1>3
<1>5. compare_performance(r, t) = IF apart <= 100 THEN <<>> ELSE <<x>>
  BY <1>1, <1>3 DEF compare_performance
<1>6. QED
  BY <1>2, <1>4, <1>5

Fully == [compare_performance |-> TRUE, ignore_timing_differences |-> FALSE]

\* Results compare alike from both sides, and a result with itself not at all.
LEMMA ComparedAlike ==
    ASSUME NEW a \in DOMAIN results, NEW b \in DOMAIN results,
           results[a].duration \in Nat, results[b].duration \in Nat,
           NEW ab, ab = compare_results(a, b, Fully), NEW ba, ba = compare_results(b, a, Fully)
    PROVE  /\ ab.total = ba.total /\ (a = b => ab.total = 0)
           /\ ab.total > 0 => ab.performance[1].slower # ba.performance[1].slower
<1>1. PICK m \in Nat, n \in Nat :
        m = as_millis(results[a].duration) /\ n = as_millis(results[b].duration) /\ (a = b => m = n)
  BY DEF as_millis
<1> DEFINE r == results[a]
           t == results[b]
<1>2. PICK there, back : there = compare_performance(r, t) /\ back = compare_performance(t, r)
  OBVIOUS
<1>3. /\ ab.performance = there /\ ab.total = Len(there)
      /\ ba.performance = back /\ ba.total = Len(back)
  BY <1>2 DEF compare_results, Fully
<1>4. m = as_millis(r.duration) /\ n = as_millis(t.duration)
  BY <1>1
<1> HIDE DEF r, t
<1>5. CASE m <= n + 100 /\ n <= m + 100
  <2>1. there = <<>> /\ back = <<>>
    BY <1>2, <1>4, <1>5, Compares
  <2>2. Len(<<>>) = 0
    BY EmptySeq
  <2>3. QED
    BY <1>3, <2>1, <2>2
<1>6. CASE ~(m <= n + 100 /\ n <= m + 100)
  <2>1. m # n
    BY <1>6
  <2>2. PICK x, y : there = <<x>> /\ x.slower = (n > m) /\ back = <<y>> /\ y.slower = (m > n)
    <3>1. PICK x : there = <<x>> /\ x.slower = (n > m)
      BY <1>2, <1>4, <1>6, Compares
    <3>2. PICK y : back = <<y>> /\ y.slower = (m > n)
      BY <1>2, <1>4, <1>6, Compares
    <3>3. QED
      BY <3>1, <3>2
  <2>3. Len(there) = 1 /\ Len(back) = 1 /\ there[1] = x /\ back[1] = y
    BY <2>2
  <2>4. (n > m) # (m > n)
    BY <2>1
  <2>5. QED
    BY <1>1, <1>3, <2>1, <2>2, <2>3, <2>4
<1>7. QED
  BY <1>5, <1>6

\* What is stored, found, shown and said of results, whatever is added and asked for.
THEOREM ResultsAreSound == ResultSpec => []ResultsSound
<1>1. ResultInv => ResultsSound
  <2> SUFFICES ASSUME ResultInv PROVE ResultsSound
    OBVIOUS
  <2>1. Indexed /\ Stored /\ Viewed /\ ViewTrue
    BY DEF ResultInv
  <2>2. IndicesTell
    <3>1. ASSUME NEW by \in Indices
          PROVE  /\ \A n \in DOMAIN indices[by] : indices[by][n].id \in DOMAIN results
                 /\ \A id \in DOMAIN results :
                       by # "by_error_type" \/ results[id].analysis # <<>> =>
                          /\ {n \in DOMAIN indices[by] : indices[by][n].id = id} # {}
                          /\ indices[by][Max({n \in DOMAIN indices[by] : indices[by][n].id = id})].key
                                = KeyIn(by, results[id])
      <4>1. PICK index : index = indices[by]
        OBVIOUS
      <4>2. /\ index \in Seq(Range(index))
            /\ \A n \in DOMAIN index : index[n].id \in DOMAIN results
            /\ \A id \in DOMAIN results :
                  by # "by_error_type" \/ results[id].analysis # <<>> =>
                     \E n \in DOMAIN index :
                        LastFor(index, id, n) /\ index[n].key = KeyIn(by, results[id])
        BY <2>1, <4>1 DEF Indexed
      <4>3. PICK k \in Nat : DOMAIN index = 1..k
        BY <4>2, LenProperties
      <4>4. ASSUME NEW id \in DOMAIN results,
                   by # "by_error_type" \/ results[id].analysis # <<>>,
                   NEW of, of = {n \in DOMAIN index : index[n].id = id}
            PROVE  of # {} /\ index[Max(of)].key = KeyIn(by, results[id])
        <5>1. PICK n \in 1..k : LastFor(index, id, n) /\ index[n].key = KeyIn(by, results[id])
          BY <4>2, <4>3, <4>4
        <5>2. n \in of /\ (\A m \in of : m \in 1..k /\ n >= m)
          BY <4>3, <4>4, <5>1 DEF LastFor
        <5>3. PICK top : top = Max(of) /\ top \in of /\ \A m \in of : top >= m
          BY <5>2 DEF Max
        <5>4. top >= n /\ n >= top /\ top \in 1..k
          BY <5>2, <5>3
        <5>5. QED
          BY <5>1, <5>2, <5>3, <5>4
      <4>5. QED
        BY <4>1, <4>2, <4>4
    <3>2. QED
      BY <3>1 DEF IndicesTell
  <2>3. SummaryTrue
    BY <2>1, SummaryOfAny DEF SummaryTrue, Viewed
  <2>4. AnalysisTrue
    <3>2. ASSUME NEW a \in DOMAIN results, NEW b \in DOMAIN results
          PROVE  /\ compare_results(a, b, Fully).total = compare_results(b, a, Fully).total
                 /\ compare_results(a, a, Fully).total = 0
                 /\ compare_results(a, b, Fully).total > 0 =>
                       compare_results(a, b, Fully).performance[1].slower
                          # compare_results(b, a, Fully).performance[1].slower
      <4>1. results[a].duration \in Nat /\ results[b].duration \in Nat
        BY <2>1 DEF Stored
      <4>2. PICK ab, ba, aa : /\ ab = compare_results(a, b, Fully)
                              /\ ba = compare_results(b, a, Fully)
                              /\ aa = compare_results(a, a, Fully)
        OBVIOUS
      <4>3. ab.total = ba.total
        BY <4>1, <4>2, ComparedAlike
      <4>4. ab.total > 0 => ab.performance[1].slower # ba.performance[1].slower
        BY <4>1, <4>2, ComparedAlike
      <4>5. aa.total = 0
        BY <4>1, <4>2, ComparedAlike
      <4>6. QED
        BY <4>2, <4>3, <4>4, <4>5
    <3>3. ASSUME NEW id \in DOMAIN results
          PROVE  /\ results[id] \in Added
                       \/ (results[id].analysis # <<>> <=> results[id].status = "Failed")
                 /\ get_failure_analysis(id).ok
      BY <2>1 DEF Stored, Analysed, get_failure_analysis
    <3>4. QED
      BY <3>2, <3>3, Zenon DEF AnalysisTrue, Fully
  <2>5. QED
    BY <2>1, <2>2, <2>3, <2>4 DEF ResultsSound
<1>2. QED
  BY <1>1, ResultInvariant, PTL
=============================================================================
