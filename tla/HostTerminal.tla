----------------------------- MODULE HostTerminal -----------------------------
(* Shells of the host computer (host_terminal.rs): the table of sessions, the   *)
(* thread that drains a shell into a bounded buffer, the client that polls the  *)
(* buffer by offset, and the ways a session ends. Output is counted, not kept:  *)
(* a byte of the code is a unit here. The table lock is taken for a whole       *)
(* create, so one that waits for its shell (10 s) holds everyone else back.     *)
EXTENDS Naturals, FiniteSets

CONSTANTS
    Tab,          \* session identifiers the clients choose
    HostOwner,    \* "main" and "cli-host": who may own a session
    MaxShells,    \* bound: shells started in a behaviour
    MaxSessions,  \* MAX_SESSIONS
    BufferLimit,  \* BUFFER_LIMIT
    ChunkLimit,   \* CHUNK_LIMIT
    MaxOutput     \* bound: units all shells write together

VARIABLES
    table,        \* sessions: Tab -> its shell, 0 if there is none
    opening,      \* the create that holds the table: [tab, shell], NoOpening if none
    shell,        \* of a shell's process: "none", "running", "exited" or "reaped"
    owned,        \* the owner recorded in a session
    buffer,       \* OutputBuffer [end, kept, done], and what the shell wrote in all
    polling,      \* shells with a read between its look-up and its answer
    closing,      \* sessions taken out of the table and not closed yet
    client        \* its view of a shell: [offset, lost, told, ended]

terminalVars == <<table, opening, shell, owned, buffer, polling, closing, client>>

Shell == 1..MaxShells
NoOpening == [tab |-> "none", shell |-> 0]
Listed == {table[t] : t \in Tab} \ {0}

HostTerminalType ==
    /\ table \in [Tab -> 0..MaxShells] /\ polling \subseteq Shell /\ closing \subseteq Shell
    /\ opening = NoOpening \/ opening \in [tab : Tab, shell : Shell]
    /\ shell \in [Shell -> {"none", "running", "exited", "reaped"}]
    /\ owned \in [Shell -> HostOwner \cup {"none"}]
    /\ buffer \in [Shell -> [wrote : 0..MaxOutput, end : 0..MaxOutput,
                             kept : 0..BufferLimit, done : BOOLEAN]]
    /\ client \in [Shell -> [offset : 0..MaxOutput, lost : 0..MaxOutput,
                             told : BOOLEAN, ended : BOOLEAN]]

TerminalInit ==
    /\ table = [t \in Tab |-> 0] /\ opening = NoOpening
    /\ shell = [s \in Shell |-> "none"] /\ owned = [s \in Shell |-> "none"]
    /\ buffer = [s \in Shell |-> [wrote |-> 0, end |-> 0, kept |-> 0, done |-> FALSE]]
    /\ polling = {} /\ closing = {}
    /\ client = [s \in Shell |-> [offset |-> 0, lost |-> 0, told |-> FALSE, ended |-> FALSE]]

Unlocked == opening = NoOpening

\* Session::close(): a child that still runs is killed; it is waited for in any case.
CloseSession(s) == IF shell[s] = "running" THEN "reaped" ELSE shell[s]

\* action("create"): the identifier must be new and the table not full; spawn_shell()
\* starts the process. One that cannot be contained in its process scope is killed.
CreateSession(t, s, o) ==
    /\ Unlocked /\ table[t] = 0 /\ shell[s] = "none"
    /\ \A r \in Shell : r < s => shell[r] # "none"
    /\ Cardinality(Listed) < MaxSessions /\ owned' = [owned EXCEPT ![s] = o]
    /\ \/ shell' = [shell EXCEPT ![s] = "running"] /\ opening' = [tab |-> t, shell |-> s]
       \/ shell' = [shell EXCEPT ![s] = "reaped"] /\ UNCHANGED opening
    /\ UNCHANGED <<table, buffer, polling, closing, client>>

\* The output thread reported the shell ready: the session enters the table.
Initialized ==
    /\ ~Unlocked /\ opening' = NoOpening
    /\ table' = [table EXCEPT ![opening.tab] = opening.shell]
    /\ UNCHANGED <<shell, owned, buffer, polling, closing, client>>

\* It did not, or not in ten seconds: the session is dropped, and Drop closes it.
NotInitialized ==
    /\ ~Unlocked /\ opening' = NoOpening
    /\ shell' = [shell EXCEPT ![opening.shell] = CloseSession(opening.shell)]
    /\ UNCHANGED <<table, owned, buffer, polling, closing, client>>

Written == {w \in Shell \X (1..MaxOutput) : w[2] <= buffer[w[1]].wrote}

ShellWrites(s) ==
    /\ shell[s] = "running" /\ Cardinality(Written) < MaxOutput
    /\ buffer' = [buffer EXCEPT ![s].wrote = @ + 1]
    /\ UNCHANGED <<table, opening, shell, owned, polling, closing, client>>

ShellExits(s) ==
    /\ shell[s] = "running" /\ shell' = [shell EXCEPT ![s] = "exited"]
    /\ UNCHANGED <<table, opening, owned, buffer, polling, closing, client>>

\* OutputBuffer::push(): what does not fit is dropped at the front. The thread reads any
\* part of what waits in the terminal.
Push(s) ==
    /\ \E n \in 1..(buffer[s].wrote - buffer[s].end) :
         buffer' = [buffer EXCEPT ![s].end = @ + n,
                    ![s].kept = IF @ + n > BufferLimit THEN BufferLimit ELSE @ + n]
    /\ UNCHANGED <<table, opening, shell, owned, polling, closing, client>>

\* The terminal has no writer left and nothing in it: the thread ends.
Drained(s) ==
    /\ shell[s] \in {"exited", "reaped"} /\ buffer[s].end = buffer[s].wrote
    /\ ~buffer[s].done /\ buffer' = [buffer EXCEPT ![s].done = TRUE]
    /\ UNCHANGED <<table, opening, shell, owned, polling, closing, client>>

\* Any other action looks the session up and checks its owner under the lock, then
\* works without it.
BeginRead(t) ==
    /\ Unlocked /\ table[t] # 0 /\ ~client[table[t]].ended
    /\ polling' = polling \cup {table[t]}
    /\ UNCHANGED <<table, opening, shell, owned, buffer, closing, client>>

\* OutputBuffer::read(offset): from the offset, or from the oldest unit kept.
Base(s) == buffer[s].end - buffer[s].kept
From(s) == IF client[s].offset < Base(s) THEN Base(s) ELSE client[s].offset
Following(s) ==
    IF From(s) + ChunkLimit < buffer[s].end THEN From(s) + ChunkLimit ELSE buffer[s].end
FinishedEarly(s) == buffer[s].done              \* Variant: whatever the chunk reached
Truncated(s) == client[s].offset < Base(s)
Finished(s) == buffer[s].done /\ Following(s) = buffer[s].end

\* Session::read(): a child that exited is reaped first; the client goes on from the
\* offset of the answer, says that output was discarded, and stops at done.
EndRead(s) ==
    /\ s \in polling /\ polling' = polling \ {s}
    /\ shell' = [shell EXCEPT ![s] = IF @ = "exited" THEN "reaped" ELSE @]
    /\ client' = [client EXCEPT ![s] =
         [offset |-> Following(s), lost |-> @.lost + (From(s) - @.offset),
          told |-> @.told \/ Truncated(s), ended |-> Finished(s)]]
    /\ UNCHANGED <<table, opening, owned, buffer, closing>>

\* action("close"), and close_owner() when a window is destroyed: the table is changed
\* under its lock, the sessions are closed after it is released.
TakeOut(tabs) ==
    /\ Unlocked /\ closing' = closing \cup ({table[t] : t \in tabs} \ {0})
    /\ table' = [t \in Tab |-> IF t \in tabs THEN 0 ELSE table[t]]
    /\ UNCHANGED <<opening, shell, owned, buffer, polling, client>>

CloseTab(t) == table[t] # 0 /\ TakeOut({t})

OwnedBy(o) == {t \in Tab : table[t] # 0 /\ owned[table[t]] = o}
CloseOwner(o) == OwnedBy(o) # {} /\ TakeOut(OwnedBy(o))

CloseTaken(s) ==
    /\ s \in closing /\ closing' = closing \ {s}
    /\ shell' = [shell EXCEPT ![s] = CloseSession(s)]
    /\ UNCHANGED <<table, opening, owned, buffer, polling, client>>

\* shutdown(): the whole table, when the application ends.
ShutdownTerminals ==
    /\ Unlocked /\ Listed # {}
    /\ table' = [t \in Tab |-> 0]
    /\ shell' = [s \in Shell |-> IF s \in Listed THEN CloseSession(s) ELSE shell[s]]
    /\ UNCHANGED <<opening, owned, buffer, polling, closing, client>>

TerminalNext ==
    \/ \E t \in Tab, s \in Shell, o \in HostOwner : CreateSession(t, s, o)
    \/ Initialized \/ NotInitialized \/ ShutdownTerminals
    \/ \E s \in Shell : \/ ShellWrites(s) \/ ShellExits(s) \/ Push(s) \/ Drained(s)
                        \/ EndRead(s) \/ CloseTaken(s)
    \/ \E t \in Tab : BeginRead(t) \/ CloseTab(t)
    \/ \E o \in HostOwner : CloseOwner(o)

TerminalSpec == TerminalInit /\ [][TerminalNext]_terminalVars

\* The limits are numbers.
TerminalConstants ==
    MaxShells \in Nat /\ BufferLimit \in Nat /\ ChunkLimit \in Nat /\ MaxOutput \in Nat
-------------------------------------------------------------------------------
(* A client is never shown output with a hole in it that it was not told of:    *)
(* when the buffer dropped what the client had not read, some answer was marked *)
(* truncated, whatever pushes and reads came in between.                        *)
HolesTold == \A s \in Shell : client[s].lost > 0 => client[s].told

(* A client that was told that the session is done has been given the last      *)
(* output of the shell, also when the shell ended while it was still behind.    *)
DoneAfterLast ==
    \A s \in Shell : client[s].ended => client[s].offset = buffer[s].wrote

(* A shell that runs can be reached: it is in the table, being opened, or taken *)
(* out by a call that is about to end it. No failed start, racing close, closed *)
(* window or shutdown leaves one running that nothing can close.                *)
NoStrayShell ==
    \A s \in Shell : shell[s] = "running" => s \in Listed \cup closing \cup {opening.shell}
===============================================================================
