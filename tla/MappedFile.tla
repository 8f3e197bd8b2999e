------------------------------ MODULE MappedFile ------------------------------
(***************************************************************************)
(* 2024/src/IpcMmap_And_semaphore/mmap3_w.cc, started several times with   *)
(* the same file: each process empties the file, gives it the size of      *)
(* file_struct_cnt records, maps room for more and stores all of them, and *)
(* may be killed anywhere.  All the records lie in one page, of which only *)
(* the part below the file's size belongs to the file.                     *)
(***************************************************************************)
EXTENDS Naturals

CONSTANTS Processes, Nobody,
          file_struct_cnt,   \* 5
          mem_struct_cnt     \* 10

VARIABLES size,              \* of the file, in records
          named, aged,       \* the records in the page with their name, their age
          step,              \* control point of each process
          record,            \* its loop counter
          truncated          \* the process that emptied the file last

vars == <<size, named, aged, step, record, truncated>>

Init == /\ size = 0
        /\ named = {} /\ aged = {}
        /\ step = [p \in Processes |-> "open"]
        /\ record = [p \in Processes |-> 0]
        /\ truncated = Nobody

Goto(p, from, to) == step[p] = from /\ step' = [step EXCEPT ![p] = to]

\* O_TRUNC takes the page away from those who have mapped it.
Open(p) == /\ Goto(p, "open", "extend")
           /\ size' = 0
           /\ named' = {} /\ aged' = {}
           /\ truncated' = p
           /\ UNCHANGED record

\* Defect: lseek goes one record less far.
ExtendLess(p) == /\ Goto(p, "extend", "name")
                 /\ size' = file_struct_cnt - 1
                 /\ UNCHANGED <<named, aged, record, truncated>>

\* lseek, the write of one byte, and mmap.  That byte is the last of a record's
\* age, which is 0 in every record.
Extend(p) == /\ Goto(p, "extend", "name")
             /\ size' = file_struct_cnt
             /\ UNCHANGED <<named, aged, record, truncated>>

Store(p, from, to) == /\ size > 0 /\ record[p] < mem_struct_cnt
                      /\ Goto(p, from, to)
                      /\ UNCHANGED <<size, truncated>>

StoreName(p) == /\ Store(p, "name", "age")
                /\ named' = named \cup {record[p]}
                /\ UNCHANGED <<aged, record>>

StoreAge(p) == /\ Store(p, "age", "name")
               /\ aged' = aged \cup {record[p]}
               /\ record' = [record EXCEPT ![p] = @ + 1]
               /\ UNCHANGED named

\* A file without size has no page: SIGBUS.
Fault(p) == /\ size = 0
            /\ \/ step[p] = "name" /\ record[p] < mem_struct_cnt
               \/ step[p] = "age"
            /\ step' = [step EXCEPT ![p] = "fault"]
            /\ UNCHANGED <<size, named, aged, record, truncated>>

\* munmap, and the end of main.
Unmap(p) == /\ record[p] = mem_struct_cnt
            /\ Goto(p, "name", "end")
            /\ UNCHANGED <<size, named, aged, record, truncated>>

Kill(p) == /\ step[p] \notin {"end", "fault", "killed"}
           /\ step' = [step EXCEPT ![p] = "killed"]
           /\ UNCHANGED <<size, named, aged, record, truncated>>

Process(p) == Open(p) \/ Extend(p) \/ StoreName(p) \/ StoreAge(p) \/ Fault(p) \/ Unmap(p)

Next == \E p \in Processes: Process(p) \/ Kill(p)

-----------------------------------------------------------------------------
(* Properties.                                                             *)

InFile == {k \in 0 .. mem_struct_cnt - 1: k < size}

\* The process that emptied the file last leaves it complete if it comes to its
\* end, whatever the others still store, and as far as it got if it is killed:
\* each of the first file_struct_cnt records is there once it has stored it,
\* although the records beyond the file's end are lost (lines 18-30).
LastOneStands == LET p == truncated
                 IN  p # Nobody /\ step[p] \in {"end", "killed"} /\ size > 0
                       => \A k \in 0 .. file_struct_cnt - 1:
                            k < record[p] => k \in InFile \cap named \cap aged

-----------------------------------------------------------------------------
(* The inductive invariant behind LastOneStands.                           *)

\* Every variable ranges over what its C++ type and use allow.
TypeOK == /\ size \in {0, file_struct_cnt}
          /\ named \subseteq 0 .. mem_struct_cnt - 1
          /\ aged \subseteq 0 .. mem_struct_cnt - 1
          /\ step \in [Processes -> {"open", "extend", "name", "age", "end", "fault", "killed"}]
          /\ record \in [Processes -> 0 .. mem_struct_cnt]
          /\ truncated \in Processes \cup {Nobody}

\* Nobody has emptied the file since the last one did, so that all it has stored
\* is in the page, also the name of the record it is at.
StoredInv == /\ \A p \in Processes: step[p] = "open" => record[p] = 0
             /\ LET p == truncated
                IN  p # Nobody => /\ \A k \in 0 .. mem_struct_cnt - 1:
                                       k < record[p] => k \in named \cap aged
                                  /\ step[p] = "age" => record[p] \in named

IndInv == TypeOK /\ StoredInv
=============================================================================
