----------------------------- MODULE CliRecords -----------------------------
(***************************************************************************)
(* `cipher-cli group` and `cipher-cli channel` (src/commands/groups.rs,    *)
(* channels.rs): each command reads a whole file, changes one record of    *)
(* it, and writes the whole file again.  Nothing locks the file; fs::write *)
(* empties it first; and a file that cannot be parsed counts as one        *)
(* without records.  Two commands may run at once, and a command may die.  *)
(*                                                                         *)
(* Both files have records of the same form: the members of a group are    *)
(* the subscribers of a channel.  Every record was created here, so we own *)
(* it.  Its id, a hash of the name and of the second, is taken to be new.  *)
(* What a channel's posts say is left out.                                 *)
(***************************************************************************)
EXTENDS Naturals

CONSTANTS
    Editor,       \* the processes that run a command
    Record,       \* the ids of groups or channels
    Self, Friend  \* our address, and those of others

VARIABLES
    file,         \* what was last written
    torn,         \* the file is empty, or a mixture of two writes
    step,         \* where each command is
    copy,         \* the map it has in memory
    edit,         \* what it changes: the record and the members it wants
    late,         \* the commands whose copy, or whose write, another outdated
    told,         \* history: what commands said was stored: <<id, member>>
    raced         \* history: one of these wrote, or a torn file was read

recordsVars == <<file, torn, step, copy, edit, late, told, raced>>

Member == Friend \cup {Self}
NoRecord == [exists |-> FALSE, members |-> {}]
NewRecord == [exists |-> TRUE, members |-> {Self}]
Empty == [r \in Record |-> NoRecord]
NoEdit == [add |-> {}, drop |-> {}]

RecordsInit == /\ file = Empty
               /\ torn = FALSE
               /\ step = [p \in Editor |-> "idle"]
               /\ copy = [p \in Editor |-> Empty]
               /\ edit = [p \in Editor |-> NoEdit]
               /\ late = {}
               /\ told = {}
               /\ raced = FALSE

EditorGoes(p, s) == step' = [step EXCEPT ![p] = s]

\* load_groups, load_channels.
Loaded == IF torn THEN Empty ELSE file

\* The command loads, changes its copy, and goes on to save it.
LoadsAndEdits(p, r, new, e) ==
    /\ step[p] = "idle"
    /\ copy' = [copy EXCEPT ![p] = [Loaded EXCEPT ![r] = new]]
    /\ edit' = [edit EXCEPT ![p] = e]
    /\ raced' = (raced \/ torn)
    /\ EditorGoes(p, "save")
    /\ UNCHANGED <<file, torn, late, told>>

\* Slip: the map that create saves starts empty.
StartsEmpty(p, r) ==
    /\ step[p] = "idle"
    /\ copy' = [copy EXCEPT ![p] = [Empty EXCEPT ![r] = NewRecord]]
    /\ edit' = [edit EXCEPT ![p] = [add |-> {<<r, Self>>}, drop |-> {}]]
    /\ EditorGoes(p, "save")
    /\ UNCHANGED <<file, torn, late, told, raced>>
Create(p, r) ==
    /\ ~file[r].exists /\ \A q \in Editor : ~copy[q][r].exists
    /\ LoadsAndEdits(p, r, NewRecord, [add |-> {<<r, Self>>}, drop |-> {}])

\* group add, whose target was resolved before, and channel sub.
Enlist(p, r, m) ==
       /\ Loaded[r].exists
       /\ m \notin Loaded[r].members
       /\ LoadsAndEdits(p, r, [Loaded[r] EXCEPT !.members = @ \cup {m}],
                        [add |-> {<<r, m>>}, drop |-> {}])

\* group leave, channel unsub.
Leave(p, r) ==
    /\ Loaded[r].exists
    /\ LoadsAndEdits(p, r, [Loaded[r] EXCEPT !.members = @ \ {Self}],
                     [add |-> {}, drop |-> {<<r, Self>>}])

\* channel post: stored first, and then sent to the subscribers of the copy.
Post(p, r) ==
    /\ Loaded[r].exists
    /\ LoadsAndEdits(p, r, Loaded[r], NoEdit)

\* fs::write opens the file, which empties it.
Truncate(p) ==
    /\ step[p] = "save"
    /\ torn' = TRUE
    /\ EditorGoes(p, "write")
    /\ UNCHANGED <<file, copy, edit, late, told, raced>>

\* What is written outdates the copies of the others; where another one wrote
\* after the truncation, the two may mix.
Write(p) ==
    /\ step[p] = "write"
    /\ file' = copy[p]
    /\ torn' \in IF p \in late THEN BOOLEAN ELSE {FALSE}
    /\ told' = (told \cup edit[p].add) \ edit[p].drop
    /\ raced' = (raced \/ p \in late)
    /\ late' = {q \in Editor \ {p} : step[q] # "idle"} \cup (late \ {p})
    /\ EditorGoes(p, "idle")
    /\ copy' = [copy EXCEPT ![p] = Empty]
    /\ edit' = [edit EXCEPT ![p] = NoEdit]

\* The process is killed, or the disk is full; what it has written by then may
\* be mixed with what another one wrote after the truncation.
Die(p) ==
    /\ step[p] # "idle"
    /\ EditorGoes(p, "idle")
    /\ copy' = [copy EXCEPT ![p] = Empty]
    /\ edit' = [edit EXCEPT ![p] = NoEdit]
    /\ torn' \in IF step[p] = "write" /\ p \in late THEN {torn, TRUE}
                 ELSE {torn}
    /\ late' = late \ {p}
    /\ UNCHANGED <<file, told, raced>>

RecordsNext ==
    \E p \in Editor :
        \/ Truncate(p) \/ Write(p) \/ Die(p)
        \/ \E r \in Record : \/ Create(p, r) \/ Leave(p, r) \/ Post(p, r)
                             \/ \E m \in Member : Enlist(p, r, m)

RecordsSpec == RecordsInit /\ [][RecordsNext]_recordsVars

-----------------------------------------------------------------------------
(* Properties *)

Records == [exists : BOOLEAN, members : SUBSET Member]
RecordsTypeOK ==
    /\ file \in [Record -> Records]
    /\ torn \in BOOLEAN
    /\ step \in [Editor -> {"idle", "save", "write"}]
    /\ copy \in [Editor -> [Record -> Records]]
    /\ edit \in [Editor -> [add : SUBSET (Record \X Member),
                            drop : SUBSET (Record \X Member)]]
    /\ late \in SUBSET Editor
    /\ told \in SUBSET (Record \X Member)
    /\ raced \in BOOLEAN

\* What a command said it stored stays stored, through every later command,
\* unless one of them wrote a copy that another had outdated, or found the
\* file torn: a command that was killed while it wrote is enough for the next
\* one to erase every group.
ToldIsKept ==
    ~raced /\ ~torn =>
        \A t \in told : t[2] \in file[t[1]].members
=============================================================================
