----------------------------- MODULE AgentMemory -----------------------------
(***************************************************************************)
(* packages/agent-memory/src: the memories of one agent. vault-manager.ts  *)
(* adds, archives and promotes, learning-recorder.ts adds lessons one      *)
(* after the other, memory-decay.ts prunes; memory-store.ts is the table.  *)
(* Projects, areas and resources are treated alike, so that one category   *)
(* beside the archive stands for them. Relevance is counted in twentieths. *)
(***************************************************************************)
EXTENDS Integers, FiniteSets, Sequences

CONSTANTS MaxMemories,           \* entries that may ever be created
          Adder,                 \* calls of addToVault or recordOutcome under way
          MaxEntriesPerCategory,
          MaxPromotions          \* bounds the calls of promoteEntry

ASSUME MemoryAssumption == MaxMemories \in Nat /\ MaxPromotions \in Nat

VARIABLES memories,  \* entry -> its row of agent_memories; archived: it has been there
          adding,    \* adder -> the entries it has yet to add, and where it is
          promotions \* calls of promoteEntry so far

memoryVars == <<memories, adding, promotions>>

Memory == 1..MaxMemories

MemoryCategory == {"resource", "archive"}

FullRelevance == 20

NotStored == [at |-> "unused", category |-> "archive", relevance |-> 0, archived |-> FALSE]

Forgotten == [NotStored EXCEPT !.at = "gone"]

Entry == [category : MemoryCategory, relevance : 0..FullRelevance]

NotAdding == [at |-> "idle", todo |-> <<>>, victim |-> 0, relevance |-> 0]

MemoryRow == [at : {"unused", "stored", "expired", "gone"}, category : MemoryCategory,
              relevance : 0..FullRelevance, archived : BOOLEAN]

Adding == [at : {"idle", "read", "evict", "create"}, todo : Seq(Entry),
           victim : Memory \cup {0}, relevance : 0..FullRelevance]

MemoryTypeOK ==
    /\ memories \in [Memory -> MemoryRow]
    /\ adding \in [Adder -> Adding]
    /\ \A a \in Adder : adding[a].at # "idle" => adding[a].todo # <<>>
    /\ promotions \in 0..MaxPromotions

MemoryInit ==
    /\ memories = [m \in Memory |-> NotStored]
    /\ adding = [a \in Adder |-> NotAdding]
    /\ promotions = 0

InStore(m) == memories[m].at \in {"stored", "expired"}

\* getByAgent does not look at expiresAt.
HeldIn(category) == {m \in Memory : InStore(m) /\ memories[m].category = category}

LeastRelevant(held) ==
    {m \in held : \A n \in held : memories[m].relevance <= memories[n].relevance}

----------------------------------------------------------------------------
Lesson(relevance) == [category |-> "resource", relevance |-> relevance]

\* extractLessons: an error or a performance note, of a failure that has messages or a
\* success that took time, then where the work was.
Lessons(success, noted, changedFiles) ==
    (IF noted THEN <<Lesson(IF success THEN 12 ELSE 18)>> ELSE <<>>)
        \o (IF changedFiles THEN <<Lesson(8)>> ELSE <<>>)

StartAdding(a, todo) ==
    /\ adding[a].at = "idle"
    /\ \E m \in Memory : memories[m].at = "unused"
    /\ adding' = [adding EXCEPT ![a] = [NotAdding EXCEPT !.at = "read", !.todo = todo]]
    /\ UNCHANGED <<memories, promotions>>

\* An outcome with nothing to learn from adds nothing.
RecordOutcome(a) ==
    \E success, noted, changedFiles \in BOOLEAN :
        LET lessons == Lessons(success, noted, changedFiles)
        IN  lessons # <<>> /\ StartAdding(a, lessons)

\* addToVault reads the category, makes room when it is full, and creates.
ReadCategory(a) ==
    LET held == HeldIn(Head(adding[a].todo).category) IN
    /\ adding[a].at = "read"
    /\ IF Cardinality(held) >= MaxEntriesPerCategory
         THEN \E oldest \in LeastRelevant(held) :
                  adding' = [adding EXCEPT ![a].at = "evict", ![a].victim = oldest,
                                           ![a].relevance = memories[oldest].relevance]
         ELSE adding' = [adding EXCEPT ![a].at = "create"]
    /\ UNCHANGED <<memories, promotions>>

\* A defect: divided by a half.
ArchiveEntryRaised(m, relevance) ==
    IF InStore(m)
      THEN memories' = [memories EXCEPT ![m].category = "archive", ![m].archived = TRUE,
                                        ![m].relevance = relevance * 2]
      ELSE UNCHANGED memories

ArchiveEntry(m, relevance) ==
    IF InStore(m)
      THEN memories' = [memories EXCEPT ![m].category = "archive", ![m].archived = TRUE,
                                        ![m].relevance = relevance \div 2]
      ELSE UNCHANGED memories

Forget(m) == memories' = [memories EXCEPT ![m] = Forgotten]

EvictForgets(a) == Forget(adding[a].victim)   \* a defect: whatever is full is forgotten from

MakeRoom(a) ==
    IF Head(adding[a].todo).category = "archive"
      THEN Forget(adding[a].victim)
      ELSE ArchiveEntry(adding[a].victim, adding[a].relevance)

Evict(a) ==
    /\ adding[a].at = "evict"
    /\ MakeRoom(a)
    /\ adding' = [adding EXCEPT ![a].at = "create"]
    /\ UNCHANGED promotions

CreateMemory(a, m) ==
    LET entry == Head(adding[a].todo)
        rest == Tail(adding[a].todo) IN
    /\ adding[a].at = "create"
    /\ memories[m].at = "unused"
    /\ \A n \in 1..(m - 1) : memories[n].at # "unused"
    /\ memories' = [memories EXCEPT ![m] =
           [at |-> "stored", category |-> entry.category, relevance |-> entry.relevance,
            archived |-> entry.category = "archive"]]
    /\ adding' = [adding EXCEPT ![a] =
           IF rest = <<>> THEN NotAdding
                          ELSE [NotAdding EXCEPT !.at = "read", !.todo = rest]]
    /\ UNCHANGED promotions

PromoteEntry(m, category) ==
    /\ InStore(m)
    /\ promotions < MaxPromotions
    /\ promotions' = promotions + 1
    /\ memories' = [memories EXCEPT ![m].category = category,
                                    ![m].archived = @ \/ category = "archive"]
    /\ UNCHANGED adding

----------------------------------------------------------------------------
ReachExpiry(m) ==
    /\ memories[m].at = "stored"
    /\ memories' = [memories EXCEPT ![m].at = "expired"]
    /\ UNCHANGED <<adding, promotions>>

RunDecayCycle ==
    /\ memories' = [m \in Memory |->
           IF memories[m].at = "expired" THEN Forgotten ELSE memories[m]]
    /\ UNCHANGED <<adding, promotions>>

MemoryNext ==
    \/ \E a \in Adder :
           \/ \E c \in MemoryCategory :
                  StartAdding(a, <<[category |-> c, relevance |-> FullRelevance]>>)
           \/ RecordOutcome(a)
           \/ ReadCategory(a)
           \/ Evict(a)
           \/ \E m \in Memory : CreateMemory(a, m)
    \/ \E m \in Memory : ReachExpiry(m) \/ \E c \in MemoryCategory : PromoteEntry(m, c)
    \/ RunDecayCycle

MemorySpec == MemoryInit /\ [][MemoryNext]_memoryVars

----------------------------------------------------------------------------
\* A full category makes room by archiving: an entry is forgotten before it
\* expires only when it has been in the archive, however the calls that add,
\* archive and promote interleave between reading a category and changing it.
ForgottenFromTheArchive ==
    \A m \in Memory : (memories[m].at = "stored" /\ memories'[m].at = "gone") => memories[m].archived

ForgottenOnlyFromTheArchive == [][ForgottenFromTheArchive]_memoryVars
=============================================================================
