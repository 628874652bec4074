-------------------------- MODULE AbstractNamespace --------------------------
(***************************************************************************)
(* What the FoxOS namespace promises its callers (spec.md 4.2, 7, 8),     *)
(* with no table, no indices and no compaction: the namespace is a map    *)
(* from canonical paths (sequences of names, the root being <<>>) to an   *)
(* entry.  Every operation is atomic, fails with -1 and leaves the        *)
(* namespace unchanged exactly when its precondition is false, and        *)
(* reports in ret/buf what the caller receives.                           *)
(*                                                                         *)
(* A path argument is the '/'-separated segments of the C string, so      *)
(* "/a//b/" is <<"", "a", "", "b", "">>; empty segments are the runs of   *)
(* separators the resolver skips.                                          *)
(***************************************************************************)
EXTENDS Integers, Sequences, SequencesExt, FiniteSets, Functions

CONSTANTS Names, Bytes, MAX_FILES, MAX_FILE_SIZE, Paths, Inputs, ReadSizes

VARIABLES ns, op, ret, buf

vars == <<ns, op, ret, buf>>

FILE == "file"
DIR  == "dir"

Canon(p) == SelectSeq(p, LAMBDA s : s # "")

\* Queries on a namespace value n.
IsDir(n, q) == q = <<>> \/ (q \in DOMAIN n /\ n[q].type = DIR)
IsFile(n, q) == q \in DOMAIN n /\ n[q].type = FILE
Children(n, q) == {r \in DOMAIN n : Len(r) > 0 /\ Front(r) = q}

TypeOK ==
    /\ \A q \in DOMAIN ns : q \in Seq(Names) /\ ns[q].type \in {FILE, DIR}
                             /\ Len(ns[q].data) <= MAX_FILE_SIZE
    /\ op \in {"init", "mkdir", "create", "rm", "write", "read", "ls"}
    /\ ret \in Int

Init ==
    /\ ns = [q \in {} |-> [type |-> DIR, data |-> <<>>]]
    /\ op = "init"
    /\ ret = 0
    /\ buf = <<>>

(* Each action is a step from the namespace n = ns. *)

\* Creating the last segment of p inside the directory its front names.
\* The root counts as one of the MAX_FILES entries.
Create(n, p, type, name) ==
    LET q    == Canon(Front(p))
        leaf == Last(p)
        ok   == /\ leaf # ""
                /\ IsDir(n, q)
                /\ Append(q, leaf) \notin DOMAIN n
                /\ Cardinality(DOMAIN n) + 1 < MAX_FILES
    IN /\ op' = name
       /\ buf' = <<>>
       /\ \/ /\ ok
             /\ ret' = 0
             /\ ns' = n @@ (Append(q, leaf) :> [type |-> type, data |-> <<>>])
          \/ /\ ~ok
             /\ ret' = -1
             /\ ns' = n

Mkdir(n, p) == Create(n, p, DIR, "mkdir")
Touch(n, p) == Create(n, p, FILE, "create")

Delete(n, p) ==
    LET q  == Canon(p)
        ok == q # <<>> /\ q \in DOMAIN n /\ Children(n, q) = {}
    IN /\ op' = "rm"
       /\ buf' = <<>>
       /\ \/ ok /\ ret' = 0 /\ ns' = Restrict(n, DOMAIN n \ {q})
          \/ ~ok /\ ret' = -1 /\ ns' = n

\* A write stores the first MAX_FILE_SIZE bytes and reports how many.
Write(n, p, in) ==
    LET q    == Canon(p)
        size == IF Len(in) > MAX_FILE_SIZE THEN MAX_FILE_SIZE ELSE Len(in)
    IN /\ op' = "write"
       /\ buf' = <<>>
       /\ \/ /\ IsFile(n, q)
             /\ ret' = size
             /\ ns' = [n EXCEPT ![q].data = SubSeq(in, 1, size)]
          \/ ~IsFile(n, q) /\ ret' = -1 /\ ns' = n

\* A read delivers the first min(k, size) stored bytes.
Read(n, p, k) ==
    LET q == Canon(p)
    IN /\ op' = "read"
       /\ ns' = n
       /\ \/ /\ IsFile(n, q)
             /\ LET m == IF k > Len(n[q].data) THEN Len(n[q].data) ELSE k
                IN ret' = m /\ buf' = SubSeq(n[q].data, 1, m)
          \/ ~IsFile(n, q) /\ ret' = -1 /\ buf' = <<>>

\* A listing delivers every child of the directory, as (name, type).
List(n, p) ==
    LET q == Canon(p)
        out == {[name |-> Last(r), type |-> n[r].type] : r \in Children(n, q)}
    IN /\ op' = "ls"
       /\ ns' = n
       /\ \/ IsDir(n, q) /\ ret' = Cardinality(out) /\ buf' = out
          \/ ~IsDir(n, q) /\ ret' = -1 /\ buf' = {}

Next ==
    LET n == ns
    IN \E p \in Paths :
          \/ Mkdir(n, p) \/ Touch(n, p) \/ Delete(n, p) \/ List(n, p)
          \/ \E in \in Inputs : Write(n, p, in)
          \/ \E k \in ReadSizes : Read(n, p, k)

Spec == Init /\ [][Next]_vars
=============================================================================
