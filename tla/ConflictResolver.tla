--------------------------- MODULE ConflictResolver ---------------------------
(***************************************************************************)
(* packages/jarvis-runtime/src/conflict-resolver.ts: which agent edits     *)
(* which file.  Nothing in the repository calls it yet; the caller here    *)
(* registers the files of an agent, resolves what conflicts it is told of, *)
(* and releases them.                                                      *)
(*                                                                         *)
(* resolveConflicts takes the conflicts one after the other and awaits a   *)
(* publish in each.                                                        *)
(***************************************************************************)
EXTENDS Naturals, FiniteSets

CONSTANTS
    Editor,         \* agents that edit files
    NoEditor,
    File,
    Priority,       \* the highest is the lowest number
    MaxConflicts    \* bound on the conflicts that wait

ASSUME ResolverAssumption ==
    /\ NoEditor \notin Editor
    /\ Priority \subseteq Nat
    /\ MaxConflicts \in Nat

VARIABLES
    activeFiles,    \* the access registered last, per file
    conflicts,      \* those found and not yet resolved
    resolving,      \* the one at whose publish resolveConflicts waits
    backOff         \* the notice published last

resolverVars == <<activeFiles, conflicts, resolving, backOff>>

Access == [editor : Editor, priority : Priority]

Free == [editor |-> NoEditor, priority |-> 0]

Conflict == [file : File, holder : Access, comer : Access]

NoConflict == [file |-> "none"]

NoBackOff == [winner |-> Free, loser |-> Free]

ResolverTypeOK ==
    /\ activeFiles \in [File -> Access \cup {Free}]
    /\ conflicts \subseteq Conflict
    /\ resolving \in Conflict \cup {NoConflict}
    /\ backOff \in [winner : Access, loser : Access] \cup {NoBackOff}

ResolverInit ==
    /\ activeFiles = [f \in File |-> Free]
    /\ conflicts = {}
    /\ resolving = NoConflict
    /\ backOff = NoBackOff

\* A defect: the caller's own files are conflicts too.
ConflictsOnOwn(access, files) ==
    {[file |-> f, holder |-> activeFiles[f], comer |-> access] :
        f \in {g \in files : activeFiles[g] # Free}}

Conflicts(access, files) ==
    {[file |-> f, holder |-> activeFiles[f], comer |-> access] :
        f \in {g \in files : activeFiles[g].editor \notin {NoEditor, access.editor}}}

RegisterFileAccess(access, files) ==
    /\ conflicts' = conflicts \cup Conflicts(access, files)
    /\ Cardinality(conflicts') <= MaxConflicts
    /\ activeFiles' = [f \in File |-> IF f \in files THEN access ELSE activeFiles[f]]
    /\ UNCHANGED <<resolving, backOff>>

ReleaseFiles(editor) ==
    /\ activeFiles' = [f \in File |->
                         IF activeFiles[f].editor = editor THEN Free ELSE activeFiles[f]]
    /\ UNCHANGED <<conflicts, resolving, backOff>>

\* The sort is stable: at equal priorities the holder wins.
Winner(c) == IF c.comer.priority < c.holder.priority THEN c.comer ELSE c.holder

Loser(c) == IF c.comer.priority < c.holder.priority THEN c.holder ELSE c.comer

\* resolveConflict up to the publish: the file goes to the winner, whoever has
\* it by now.
ResolveConflict(c) ==
    /\ resolving = NoConflict
    /\ c \in conflicts
    /\ conflicts' = conflicts \ {c}
    /\ activeFiles' = [activeFiles EXCEPT ![c.file] = Winner(c)]
    /\ resolving' = c
    /\ UNCHANGED backOff

NotifyBackOff ==
    /\ resolving # NoConflict
    /\ backOff' = [winner |-> Winner(resolving), loser |-> Loser(resolving)]
    /\ resolving' = NoConflict
    /\ UNCHANGED <<activeFiles, conflicts>>

\* The publish fails and takes the rest of the call's conflicts with it, or
\* the loser is not tracked and is not told.
NotifyFails ==
    /\ resolving # NoConflict
    /\ resolving' = NoConflict
    /\ conflicts' \in {conflicts, {}}
    /\ UNCHANGED <<activeFiles, backOff>>

ResolverNext ==
    \/ \E access \in Access, files \in SUBSET File : RegisterFileAccess(access, files)
    \/ \E editor \in Editor : ReleaseFiles(editor)
    \/ \E c \in conflicts : ResolveConflict(c)
    \/ NotifyBackOff
    \/ NotifyFails

ResolverSpec == ResolverInit /\ [][ResolverNext]_resolverVars

(***************************************************************************)
(* An agent is told to keep off a file only for another agent, and for one *)
(* whose work item is at least as urgent (resolveConflict), however        *)
(* registrations, releases and resolutions mix.                            *)
(***************************************************************************)
BackOffsAreJustified ==
    backOff # NoBackOff => /\ backOff.winner.editor # backOff.loser.editor
                           /\ backOff.winner.priority <= backOff.loser.priority
=============================================================================
