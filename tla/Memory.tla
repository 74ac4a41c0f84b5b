------------------------------- MODULE Memory -------------------------------
(***************************************************************************)
(* The memory store (memory_server/): one SQLite file, opened by the MCP   *)
(* server of every session that works in the project and by the commands   *)
(* that extract from a transcript and migrate MEMORY.md.                   *)
(*                                                                         *)
(* A statement that reads takes no lock, and the first one that writes     *)
(* begins a transaction that the next commit ends.  So what a process      *)
(* read, it uses stale: between the lookup of a store and its insert,      *)
(* between clusters found and the sources given up, between the            *)
(* contradictions read and written.  A step here is the code from one      *)
(* commit, or answer of the Qwen sidecar, to the next statement that       *)
(* another process can come before.                                        *)
(*                                                                         *)
(* A text is a model value; what the store tells apart about texts are     *)
(* their normal forms, of which Python and SQLite have one each, and which *)
(* of them are near each other.                                            *)
(***************************************************************************)
EXTENDS Naturals, Sequences, FiniteSets

CONSTANTS
  Procs,       \* processes with a connection
  Texts,       \* contents of memories
  PyForm,      \* the normal form that is looked up: strip().lower() of Python
  SqlForm,     \* the one it is compared with: LOWER(TRIM()) of SQLite, for which
               \* only spaces are blank and only ASCII has capitals
  Near,        \* pairs of texts: cosine above 0.90
  Similar,     \* pairs of texts: cosine above similarity_threshold
  MinCluster,  \* min_cluster_size
  Answers,     \* what Qwen makes of a cluster
  Files,       \* sequences of texts: files to import, migrate or extract from
  MaxRows,     \* bound: rows of the table
  MaxCalls     \* bound: tool calls, commands and crashes

Row == 1..MaxRows

ASSUME RowsAssumption == MaxRows \in Nat /\ MaxCalls \in Nat
ASSUME TextsAssumption == Answers \subseteq Texts /\ Files \subseteq Seq(Texts)

VARIABLES
  mem,       \* memories, by rowid
  job,       \* what each process has in hand
  raced,     \* history: normal forms stored by two processes at a time
  echoed,    \* history: memories a merge was answered with, instead of a new one
  clashed,   \* history: memories marked by two processes at a time
  calls      \* what is left of MaxCalls

memoryVars == <<mem, job, raced, echoed, clashed, calls>>

\* gone: history of an inactive row: merged (by a consolidation), or asked for
\* (forgotten, pruned, replaced by an import).
Memo == [text : Texts, active : BOOLEAN, embedded : BOOLEAN, strength : Nat,
         supersededBy : 0..MaxRows, contradicts : SUBSET Row, gone : {"no", "merged", "asked"}]
Rows == 1..Len(mem)
Active == {i \in Rows : mem[i].active}

\* todo: texts to store; looked, found: the lookup of the first and the memory it
\* hit; clusters: those not yet merged; sources: those of the merge under way;
\* target: what they are superseded by; pair, seen: the contradiction to mark and
\* what its two memories said; doomed: the candidates of a prune.
Job == [todo : Seq(Texts), looked : BOOLEAN, found : 0..MaxRows, embedded : BOOLEAN,
        clusters : SUBSET SUBSET Row, sources : SUBSET Row, target : 0..MaxRows,
        pair : {<<>>} \union (Row \X Row), seen : {<<>>} \union ((SUBSET Row) \X (SUBSET Row)),
        doomed : SUBSET Row]
NoJob == [todo |-> <<>>, looked |-> FALSE, found |-> 0, embedded |-> FALSE,
          clusters |-> {}, sources |-> {}, target |-> 0,
          pair |-> <<>>, seen |-> <<>>, doomed |-> {}]
Idle(p) == job[p] = NoJob

Least(S) == CHOOSE i \in S : \A j \in S : i <= j
Settled(j) ==
  IF j.todo = <<>> /\ j.clusters = {} /\ j.sources = {} THEN NoJob ELSE j

Call(p, j) ==
  /\ Idle(p) /\ calls > 0
  /\ calls' = calls - 1
  /\ job' = [job EXCEPT ![p] = j]

-----------------------------------------------------------------------------
(* store *)

\* Mutant of Lookup: only the very same text counts as a duplicate.
LookupVerbatim(p) ==
  LET text == Head(job[p].todo)
      same == {i \in Active : mem[i].text = text}
      near == {i \in Active : job[p].embedded /\ mem[i].embedded /\ <<text, mem[i].text>> \in Near}
  IN  /\ job[p].todo # <<>> /\ ~job[p].looked
      /\ job' = [job EXCEPT ![p].looked = TRUE,
                            ![p].found = IF same # {} THEN Least(same)
                                         ELSE IF near # {} THEN Least(near) ELSE 0]
      /\ raced' = raced \union {PyForm[text] : q \in {q \in Procs \ {p} :
                    job[q].looked /\ PyForm[Head(job[q].todo)] = PyForm[text]}}
      /\ UNCHANGED <<mem, echoed, clashed, calls>>

\* The lookup of store: an active memory whose text, as SQLite brings it into
\* normal form, is the text looked up, as Python does; else one whose embedding
\* is near. (Word overlap only warns.)
Lookup(p) ==
  LET text == Head(job[p].todo)
      same == {i \in Active : SqlForm[mem[i].text] = PyForm[text]}
      near == {i \in Active : job[p].embedded /\ mem[i].embedded /\ <<text, mem[i].text>> \in Near}
  IN  /\ job[p].todo # <<>> /\ ~job[p].looked
      /\ job' = [job EXCEPT ![p].looked = TRUE,
                            ![p].found = IF same # {} THEN Least(same)
                                         ELSE IF near # {} THEN Least(near) ELSE 0]
      /\ raced' = raced \union {PyForm[text] : q \in {q \in Procs \ {p} :
                    job[q].looked /\ PyForm[Head(job[q].todo)] = PyForm[text]}}
      /\ UNCHANGED <<mem, echoed, clashed, calls>>

\* reinforce: both statements in one transaction, whatever became of the memory
\* since it was found.
Reinforce(i) == mem' = [mem EXCEPT ![i].strength = @ + 1]

Insert(p, text) ==
  /\ Len(mem) < MaxRows
  /\ mem' = Append(mem, [text |-> text, active |-> TRUE, embedded |-> job[p].embedded,
                         strength |-> 1, supersededBy |-> 0, contradicts |-> {}, gone |-> "no"])

\* What is left to do once the first text is stored; a merge has its target.
Stored(p) ==
  [job[p] EXCEPT !.todo = Tail(@), !.looked = FALSE, !.found = 0,
                 !.target = IF job[p].sources = {} THEN 0
                            ELSE IF job[p].found # 0 THEN job[p].found ELSE Len(mem) + 1]

\* The rest of store, to its commit, and its result.
Commit(p) ==
  /\ job[p].looked
  /\ IF job[p].found # 0 THEN Reinforce(job[p].found) ELSE Insert(p, Head(job[p].todo))
  /\ job' = [job EXCEPT ![p] = Settled(Stored(p))]
  /\ echoed' = IF job[p].sources # {} /\ job[p].found # 0 THEN echoed \union {job[p].found}
               ELSE echoed
  /\ UNCHANGED <<raced, clashed, calls>>

\* memory_store; the embedding provider may have nothing to offer.
StoreMemory(p, text, embedded) ==
  /\ Call(p, [NoJob EXCEPT !.todo = <<text>>, !.embedded = embedded])
  /\ UNCHANGED <<mem, raced, echoed, clashed>>

\* migrate.py: every entry of the file with a known type. (Trust, which prune alone
\* looks at, is left out.)
Migrate(p, file) ==
  /\ file # <<>>
  /\ Call(p, [NoJob EXCEPT !.todo = file])
  /\ UNCHANGED <<mem, raced, echoed, clashed>>

\* extract_cli.py: what Qwen proposes; nothing when it fails.
Extract(p, file) ==
  /\ file # <<>>
  /\ Call(p, [NoJob EXCEPT !.todo = file])
  /\ UNCHANGED <<mem, raced, echoed, clashed>>

Asked(m) == [m EXCEPT !.active = FALSE, !.gone = "asked"]

\* memory_import: in replace mode everything is deactivated, and committed, before
\* the first entry is stored, also when the text turns out to have none.
Import(p, file, replace) ==
  /\ Call(p, [NoJob EXCEPT !.todo = file])
  /\ mem' = IF replace THEN [i \in Rows |-> IF mem[i].active THEN Asked(mem[i]) ELSE mem[i]]
            ELSE mem
  /\ UNCHANGED <<raced, echoed, clashed>>

-----------------------------------------------------------------------------
(* consolidate *)

\* find_clusters: single-link clusters of the active memories with an embedding.
Linked(i, j) ==
  /\ mem[i].embedded /\ mem[j].embedded
  /\ i = j \/ <<mem[i].text, mem[j].text>> \in Similar \/ <<mem[j].text, mem[i].text>> \in Similar

Cluster(i) ==
  {j \in Active : \A S \in SUBSET Active :
     i \in S /\ (\A k \in S, l \in Active : Linked(k, l) => l \in S) => j \in S}

Clusters ==
  {c \in {Cluster(i) : i \in {j \in Active : mem[j].embedded}} : Cardinality(c) >= MinCluster}

\* memory_consolidate: the clusters are found once, before the first Qwen call.
Consolidate(p) ==
  /\ Clusters # {}
  /\ Call(p, [NoJob EXCEPT !.clusters = Clusters])
  /\ UNCHANGED <<mem, raced, echoed, clashed>>

\* Qwen fails for a cluster, which is skipped.
QwenFails(p, cluster) ==
  /\ cluster \in job[p].clusters /\ job[p].sources = {}
  /\ job' = [job EXCEPT ![p] = Settled([job[p] EXCEPT !.clusters = @ \ {cluster}])]
  /\ UNCHANGED <<mem, raced, echoed, clashed, calls>>

\* Mutant of Merge: the sources are given up before the merged text is stored.
MergeLast(p, cluster, text) ==
  /\ cluster \in job[p].clusters /\ job[p].sources = {}
  /\ job' = [job EXCEPT ![p].clusters = @ \ {cluster}, ![p].todo = <<text>>]
  /\ mem' = [i \in Rows |-> IF i \in cluster
               THEN [mem[i] EXCEPT !.active = FALSE, !.gone = "merged",
                                   !.supersededBy = Len(mem) + 1]
               ELSE mem[i]]
  /\ UNCHANGED <<raced, echoed, clashed, calls>>

\* It answers with a text, which is stored without an embedding.
Merge(p, cluster, text) ==
  /\ cluster \in job[p].clusters /\ job[p].sources = {}
  /\ job' = [job EXCEPT ![p].clusters = @ \ {cluster},
                        ![p].sources = cluster, ![p].todo = <<text>>]
  /\ UNCHANGED <<mem, raced, echoed, clashed, calls>>

\* forget for the next source, whatever became of it since; a commit each.
Supersede(p) ==
  LET i == Least(job[p].sources) IN
  /\ job[p].sources # {} /\ job[p].todo = <<>>
  /\ mem' = [mem EXCEPT ![i] = [@ EXCEPT !.active = FALSE, !.supersededBy = job[p].target,
                                  !.gone = IF mem[i].gone = "asked" THEN "asked" ELSE "merged"]]
  /\ job' = [job EXCEPT ![p] = Settled([job[p] EXCEPT !.sources = @ \ {i}])]
  /\ UNCHANGED <<raced, echoed, clashed, calls>>

-----------------------------------------------------------------------------
(* The other calls that write *)

\* memory_forget. (The replacement a caller may name is left out: MergedKept
\* follows those of merges only.)
Forget(p, i) ==
  /\ i \in Rows
  /\ Call(p, NoJob)
  /\ mem' = [mem EXCEPT ![i] = Asked(@)]
  /\ UNCHANGED <<raced, echoed, clashed>>

\* mark_contradiction reads both memories.
ReadPair(p, a, b) ==
  /\ a \in Rows /\ b \in Rows /\ a # b
  /\ Call(p, [NoJob EXCEPT !.pair = <<a, b>>, !.seen = <<mem[a].contradicts, mem[b].contradicts>>])
  /\ clashed' = clashed \union {i \in {a, b} : \E q \in Procs \ {p} :
                                  \E k \in DOMAIN job[q].pair : job[q].pair[k] = i}
  /\ UNCHANGED <<mem, raced, echoed>>

\* Mutant of WritePair: the first memory only.
WriteFirst(p) ==
  LET pair == job[p].pair
      seen == job[p].seen
  IN  /\ pair # <<>>
      /\ mem' = [mem EXCEPT ![pair[1]].contradicts = seen[1] \union {pair[2]}]
      /\ job' = [job EXCEPT ![p] = NoJob]
      /\ UNCHANGED <<raced, echoed, clashed, calls>>

\* It writes back what it read with the other one added, unless it was there
\* already, in one transaction.
WritePair(p) ==
  LET pair == job[p].pair
      seen == job[p].seen
      add(m, k) == IF pair[3 - k] \in seen[k] THEN m
                   ELSE [m EXCEPT !.contradicts = seen[k] \union {pair[3 - k]}]
  IN  /\ pair # <<>>
      /\ mem' = [mem EXCEPT ![pair[1]] = add(@, 1), ![pair[2]] = add(@, 2)]
      /\ job' = [job EXCEPT ![p] = NoJob]
      /\ UNCHANGED <<raced, echoed, clashed, calls>>

\* prune selects among the active and never reinforced; that trust is low, and the
\* memory old or rarely read, is left open.
Candidates(p, doomed) ==
  /\ doomed # {}
  /\ doomed \subseteq {i \in Active : mem[i].strength = 1}
  /\ Call(p, [NoJob EXCEPT !.doomed = doomed])
  /\ UNCHANGED <<mem, raced, echoed, clashed>>

\* And archives what it selected.
Prune(p) ==
  /\ job[p].doomed # {}
  /\ mem' = [i \in Rows |-> IF i \in job[p].doomed THEN Asked(mem[i]) ELSE mem[i]]
  /\ job' = [job EXCEPT ![p] = NoJob]
  /\ UNCHANGED <<raced, echoed, clashed, calls>>

\* The process ends; what it committed stays.
Crash(p) ==
  /\ ~Idle(p) /\ calls > 0
  /\ calls' = calls - 1
  /\ job' = [job EXCEPT ![p] = NoJob]
  /\ UNCHANGED <<mem, raced, echoed, clashed>>

-----------------------------------------------------------------------------
MemoryInit ==
  /\ mem = <<>>
  /\ job = [p \in Procs |-> NoJob]
  /\ raced = {} /\ echoed = {} /\ clashed = {} /\ calls = MaxCalls

MemoryNext ==
  \E p \in Procs :
    \/ \E text \in Texts, embedded \in BOOLEAN : StoreMemory(p, text, embedded)
    \/ \E file \in Files : Migrate(p, file) \/ Extract(p, file)
    \/ \E file \in Files, replace \in BOOLEAN : Import(p, file, replace)
    \/ Lookup(p) \/ Commit(p)
    \/ Consolidate(p) \/ Supersede(p)
    \/ \E c \in job[p].clusters : QwenFails(p, c) \/ \E text \in Answers : Merge(p, c, text)
    \/ \E i \in Rows : Forget(p, i)
    \/ \E a, b \in Rows : ReadPair(p, a, b)
    \/ \E doomed \in SUBSET Rows : Candidates(p, doomed)
    \/ WritePair(p) \/ Prune(p) \/ Crash(p)

MemorySpec == MemoryInit /\ [][MemoryNext]_memoryVars

-----------------------------------------------------------------------------
(* Properties *)

MemoryTypeOK ==
  /\ mem \in Seq(Memo) /\ Len(mem) <= MaxRows
  /\ job \in [Procs -> Job]
  /\ raced \subseteq {PyForm[t] : t \in Texts} /\ echoed \subseteq Row /\ clashed \subseteq Row
  /\ calls \in 0..MaxCalls

\* Merging loses nothing, whatever fails, ends or comes between the clusters found,
\* the answer, the store and the forgets ("every original is superseded by it"):
\* what a memory was merged into is in the store, and following that, through any
\* number of merges, one comes to a memory that is there still or was given up on
\* request. The exception is what the code does when Qwen answers with a text
\* that is there already: it is reinforced instead of a new entry stored, and may
\* be given up itself, by this merge or by another one at the same time, so that
\* one goes round in a circle.
MergedKept ==
  LET merged == {i \in Rows : mem[i].gone = "merged"}
  IN  /\ \A i \in Rows : mem[i].active <=> mem[i].gone = "no"
      /\ \A i \in merged : mem[i].supersededBy \in Rows
      /\ \A circle \in SUBSET merged :
           circle # {} /\ (\A i \in circle : mem[i].supersededBy \in circle) =>
             circle \intersect echoed # {}

\* A text that no lookup finds once it is stored: with a capital beyond ASCII, or a
\* newline at its end.
Unfound(text) == SqlForm[text] # PyForm[text]

\* Two active memories say the same only if two processes were storing it at the
\* same time; in particular an import or a migration that crashed can be run
\* again. ("exact-text dedup makes re-runs idempotent") The exception is a text that
\* SQLite and Python bring into different forms: it is stored once more each time.
TwinsRaced ==
  \A i, j \in Active : i < j /\ PyForm[mem[i].text] = PyForm[mem[j].text] =>
    PyForm[mem[i].text] \in raced \/ Unfound(mem[i].text)

\* A contradiction is known to both memories, unless two processes marked one of
\* them at the same time. ("bidirectional")
ContradictionMutual ==
  \A i, j \in Rows : j \in mem[i].contradicts /\ i \notin mem[j].contradicts =>
    {i, j} \intersect clashed # {}
=============================================================================
