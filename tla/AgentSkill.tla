------------------------------ MODULE AgentSkill ------------------------------
(* The instructions for agents that the application installs in the user's      *)
(* own directory (cli/src/skills.rs): two files that the user may edit, and a   *)
(* marker that says which contents are the application's.  An update may be     *)
(* interrupted and the application replaced by a newer one in between.          *)
EXTENDS Naturals

CONSTANTS
    MaxVersion,   \* bound: versions of the application
    MaxEdits      \* bound: edits of the user

VARIABLES
    text,         \* the files: 0 if missing, a version, or what the user wrote
    directory,    \* the directory exists
    journal,      \* the marker: [files, previous] or NoJournal
    version,      \* version of the application
    setup,        \* how far install_at() is
    before,       \* the files read after the decision, those the marker gets
    edits,        \* number of edits
    raced         \* history: edits made where an update under way does not see them

skillVars == <<text, directory, journal, version, setup, before, edits, raced>>

File      == {"skill", "guide"}
Mine(e)   == MaxVersion + e
ByUser(t) == t > MaxVersion
Missing   == [f \in File |-> 0]
NoJournal == [files |-> 0, previous |-> Missing]

\* What the theorems ask of the constants.
SkillConstants == MaxVersion \in Nat \ {0} /\ MaxEdits \in Nat

SkillInit ==
    /\ text = Missing /\ directory = FALSE /\ journal = NoJournal /\ version = 1
    /\ setup = "idle" /\ before = Missing /\ edits = 0 /\ raced = {}

Generated == [f \in File |-> version]

\* Variant: with a marker every file is the application's.
KnownByMarker == journal # NoJournal

\* known_files(): every file that is there is one the marker names, as new or as previous.
Known ==
    /\ journal # NoJournal
    /\ \A f \in File : text[f] # 0 => text[f] \in {journal.files, journal.previous[f]}

\* status_at()
Status ==
    IF ~directory THEN "missing"
    ELSE IF text = Generated THEN "ready"
    ELSE IF Known THEN "updateAvailable" ELSE "conflict"

BeginSetup ==
    /\ setup = "idle" /\ Status \in {"missing", "updateAvailable"}
    /\ setup' = "read"
    /\ UNCHANGED <<text, directory, journal, version, before, edits, raced>>

\* What the marker will name is read anew, after the decision.
ReadFiles ==
    /\ setup = "read"
    /\ setup' = "folder" /\ before' = text
    /\ UNCHANGED <<text, directory, journal, version, edits, raced>>

MakeFolder ==
    /\ setup = "folder"
    /\ directory' = TRUE /\ setup' = IF text = before THEN "journal" ELSE "idle"
    /\ UNCHANGED <<text, journal, version, before, edits, raced>>

\* The marker comes first: it names the new files and those just read.
WriteJournal ==
    /\ setup = "journal"
    /\ journal' = [files |-> version, previous |-> before] /\ setup' = "skill"
    /\ UNCHANGED <<text, directory, version, before, edits, raced>>

WriteFile(f, next) ==
    /\ setup = f
    /\ text' = [text EXCEPT ![f] = version] /\ setup' = next
    /\ UNCHANGED <<directory, journal, version, before, edits, raced>>

ClearJournal ==
    /\ setup = "done"
    /\ journal' = [journal EXCEPT !.previous = Missing] /\ setup' = "idle"
    /\ UNCHANGED <<text, directory, version, before, edits, raced>>

\* A step fails, or the application ends; it may be a newer one that is started next.
Interrupt ==
    /\ setup' = "idle" /\ version' \in {version} \cup ((version + 1)..MaxVersion)
    /\ (setup # "idle" \/ version' # version)
    /\ UNCHANGED <<text, directory, journal, before, edits, raced>>

\* An update does not see what is written into a file between the decision and the second
\* read, or between the last comparison and the file's own replacement.
Unseen(f) == setup \in {"read", "journal", "skill", f}

\* External: the user writes a file, in a directory of his own if need be.
Edit(f) ==
    /\ edits < MaxEdits
    /\ edits' = edits + 1 /\ text' = [text EXCEPT ![f] = Mine(edits')] /\ directory' = TRUE
    /\ raced' = IF Unseen(f) THEN raced \cup {Mine(edits')} ELSE raced
    /\ UNCHANGED <<journal, version, setup, before>>

SkillNext ==
    \/ BeginSetup \/ ReadFiles \/ MakeFolder \/ WriteJournal \/ WriteFile("skill", "guide")
    \/ WriteFile("guide", "done") \/ ClearJournal \/ Interrupt \/ \E f \in File : Edit(f)

SkillSpec == SkillInit /\ [][SkillNext]_skillVars

-----------------------------------------------------------------------------

\* What the user wrote is never replaced, by this update or a later one, whatever was
\* interrupted and retried in between (install_at and known_files): only what he writes where
\* an update under way does not look again can be.
EditsKept ==
    [][\A f \in File : ByUser(text[f]) /\ ~ByUser(text'[f]) => text[f] \in raced]_skillVars

\* An update that was interrupted can be taken up again, by a newer version too, as long
\* as the user wrote nothing: only a first installation that ended between its directory
\* and its marker counts as a conflict.
Retryable == edits = 0 /\ setup = "idle" /\ journal # NoJournal => Status # "conflict"
=============================================================================
