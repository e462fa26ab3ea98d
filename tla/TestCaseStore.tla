--------------------------- MODULE TestCaseStore ---------------------------
(***************************************************************************)
(* Test cases on disk: TestCaseManager of src/test_case_manager.rs over    *)
(* FileSystemStorage of src/storage/filesystem.rs.                         *)
(*                                                                         *)
(* A test case is a file, and what a list shows of it is a second one.     *)
(* Both are opened with File::create, which empties them, and written      *)
(* without a flush: write_all of tokio returns once it has handed the      *)
(* text to a thread, so a call may return before its text is in the file,  *)
(* and an error of the write itself is seen by nobody.                     *)
(*                                                                         *)
(* A test case is its change log, each entry being the number of the call  *)
(* that made it; the version is the length of the log.                     *)
(***************************************************************************)
EXTENDS Naturals, SequencesExt

CONSTANTS Ids, Callers,
          MaxEdits,     \* bound on the calls that create or update
          MaxFaults     \* bound on the crashes and the errors of the file system

ASSUME StoreAssumption == MaxEdits \in Nat /\ MaxFaults \in Nat

VARIABLES cases,        \* the file of each test case
          metadata,     \* and its metadata file
          writes,       \* the texts handed to a thread and not yet in their file
          calls,        \* what each caller is inside
          acknowledged, \* history: the log as of the last call that returned Ok
          disturbed,    \* history: the test cases whose calls overlapped or met a fault
          edits, faults

storeVars == <<cases, metadata, writes, calls, acknowledged, disturbed, edits, faults>>

Gone == [kind |-> "gone"]
Empty == [kind |-> "empty"]
Garbled == [kind |-> "garbled"]    \* a text over a longer one
Text(log) == [kind |-> "text", log |-> log]
Idle == [op |-> "idle"]

CallsOn(id) == {c \in Callers : calls[c] # Idle /\ calls[c].id = id}
WritesTo(dir, id) == {w \in writes : w.dir = dir /\ w.id = id}

-----------------------------------------------------------------------------
(***************************************************************************)
(* Calls                                                                   *)
(***************************************************************************)
\* A call on id starts: after its first check, call is what it is inside.
Start(c, id, call) ==
    /\ calls[c] = Idle
    /\ calls' = [calls EXCEPT ![c] = call]
    /\ disturbed' = IF CallsOn(id) = {} THEN disturbed ELSE disturbed \cup {id}

Edit(c, id, log) ==
    /\ edits < MaxEdits
    /\ edits' = edits + 1
    /\ Start(c, id, [op |-> "save", id |-> id, at |-> "case", log |-> log])
    /\ UNCHANGED <<cases, metadata, writes, acknowledged, faults>>

\* Both checks that the file is not there, before it is opened.
create_test_case(c, id) ==
    /\ cases[id] = Gone
    /\ Edit(c, id, <<edits + 1>>)

\* An update reads the file first, and fails when it cannot be parsed.
update_test_case(c, id) ==
    /\ cases[id].kind = "text"
    /\ Edit(c, id, Append(cases[id].log, edits + 1))

\* File::create, then write_all, which does not wait for the text to be in the file.
save_test_case(c) ==
    LET call == calls[c]
    IN  /\ call.op = "save" /\ call.at = "case"
        /\ cases' = [cases EXCEPT ![call.id] = Empty]
        /\ writes' = writes \cup {[dir |-> "cases", id |-> call.id, log |-> call.log]}
        /\ calls' = [calls EXCEPT ![c].at = "metadata"]
        /\ UNCHANGED <<metadata, acknowledged, disturbed, edits, faults>>

save_metadata(c) ==
    LET call == calls[c]
    IN  /\ call.op = "save" /\ call.at = "metadata"
        /\ metadata' = [metadata EXCEPT ![call.id] = Empty]
        /\ writes' = writes \cup {[dir |-> "metadata", id |-> call.id, log |-> call.log]}
        /\ calls' = [calls EXCEPT ![c] = Idle]
        /\ acknowledged' = [acknowledged EXCEPT ![call.id] = call.log]
        /\ UNCHANGED <<cases, disturbed, edits, faults>>

delete_test_case(c, id) ==
    /\ cases[id] # Gone
    /\ Start(c, id, [op |-> "delete", id |-> id, at |-> "case"])
    /\ UNCHANGED <<cases, metadata, writes, acknowledged, edits, faults>>

\* The name is gone, and what is still to be written goes with the nameless file.
remove_case(c) ==
    LET call == calls[c]
    IN  /\ call.op = "delete" /\ call.at = "case"
        /\ cases' = [cases EXCEPT ![call.id] = Gone]
        /\ writes' = writes \ WritesTo("cases", call.id)
        /\ calls' = [calls EXCEPT ![c] = IF cases[call.id] = Gone THEN Idle
                                         ELSE [call EXCEPT !.at = "metadata"]]
        /\ UNCHANGED <<metadata, acknowledged, disturbed, edits, faults>>

\* Broken variant: the metadata stays.
metadata_stays(c) ==
    LET call == calls[c]
    IN  /\ call.op = "delete" /\ call.at = "metadata"
        /\ calls' = [calls EXCEPT ![c] = Idle]
        /\ acknowledged' = [acknowledged EXCEPT ![call.id] = <<>>]
        /\ UNCHANGED <<cases, metadata, writes, disturbed, edits, faults>>

remove_metadata(c) ==
    LET call == calls[c]
    IN  /\ call.op = "delete" /\ call.at = "metadata"
        /\ metadata' = [metadata EXCEPT ![call.id] = Gone]
        /\ writes' = writes \ WritesTo("metadata", call.id)
        /\ calls' = [calls EXCEPT ![c] = Idle]
        /\ acknowledged' = [acknowledged EXCEPT ![call.id] = <<>>]
        /\ UNCHANGED <<cases, disturbed, edits, faults>>

-----------------------------------------------------------------------------
(***************************************************************************)
(* The file system                                                         *)
(***************************************************************************)
\* A text starts at the first byte: over an earlier one it may leave a tail of that.
Overwrite(file, log) ==
    IF file = Empty THEN {Text(log)} ELSE {Text(log), Garbled}

land(w) ==
    /\ w \in writes
    /\ writes' = writes \ {w}
    /\ IF w.dir = "cases"
       THEN /\ \E f \in Overwrite(cases[w.id], w.log) : cases' = [cases EXCEPT ![w.id] = f]
            /\ UNCHANGED metadata
       ELSE /\ \E f \in Overwrite(metadata[w.id], w.log) :
                  metadata' = [metadata EXCEPT ![w.id] = f]
            /\ UNCHANGED cases
    /\ UNCHANGED <<calls, acknowledged, disturbed, edits, faults>>

Fault(ids) ==
    /\ faults < MaxFaults
    /\ faults' = faults + 1
    /\ disturbed' = disturbed \cup ids
    /\ UNCHANGED <<cases, metadata, acknowledged, edits>>

write_fails(w) ==
    /\ w \in writes
    /\ writes' = writes \ {w}
    /\ Fault({w.id})
    /\ UNCHANGED calls

\* A file cannot be opened or removed, and the call returns the error.  When that is the
\* case's own file nothing has been touched.
call_fails(c) ==
    /\ calls[c] # Idle
    /\ calls' = [calls EXCEPT ![c] = Idle]
    /\ Fault(IF calls[c].at = "case" THEN {} ELSE {calls[c].id})
    /\ UNCHANGED writes

\* The program is killed and started again on the same directory.
crash ==
    /\ Fault({id \in Ids : CallsOn(id) # {} \/ \E w \in writes : w.id = id})
    /\ calls' = [c \in Callers |-> Idle]
    /\ writes' = {}

-----------------------------------------------------------------------------
StoreInit ==
    /\ cases = [id \in Ids |-> Gone] /\ metadata = [id \in Ids |-> Gone]
    /\ writes = {}
    /\ calls = [c \in Callers |-> Idle]
    /\ acknowledged = [id \in Ids |-> <<>>]
    /\ disturbed = {}
    /\ edits = 0 /\ faults = 0

StoreNext ==
    \/ \E c \in Callers, id \in Ids :
          create_test_case(c, id) \/ update_test_case(c, id) \/ delete_test_case(c, id)
    \/ \E c \in Callers :
          save_test_case(c) \/ save_metadata(c) \/ remove_case(c) \/ remove_metadata(c)
             \/ call_fails(c)
    \/ \E w \in writes : land(w) \/ write_fails(w)
    \/ crash

StoreSpec == StoreInit /\ [][StoreNext]_storeVars

-----------------------------------------------------------------------------
(***************************************************************************)
(* Properties                                                              *)
(***************************************************************************)
\* Type invariant; a text is only ever on its way to a file that is there.
StoreTypeOK ==
    /\ \A id \in Ids : {cases[id].kind, metadata[id].kind}
                          \subseteq {"gone", "empty", "garbled", "text"}
    /\ \A w \in writes : IF w.dir = "cases" THEN cases[w.id] # Gone ELSE metadata[w.id] # Gone
    /\ \A c \in Callers : calls[c].op \in {"idle", "save", "delete"}
    /\ disturbed \subseteq Ids
    /\ edits \in 0..MaxEdits /\ faults \in 0..MaxFaults

\* A test case whose calls came one after the other and met no fault is on disk, once its
\* writes have landed, as the last call that returned Ok left it, and has metadata if and
\* only if it is there: although calls return before their text is written, and although
\* the program may crash or the disk fail under the other test cases.
StoreSettles ==
    \A id \in Ids \ disturbed :
        CallsOn(id) = {} /\ (\A w \in writes : w.id # id) =>
            /\ cases[id] = IF acknowledged[id] = <<>> THEN Gone ELSE Text(acknowledged[id])
            /\ metadata[id] = Gone <=> cases[id] = Gone

=============================================================================
