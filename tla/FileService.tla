----------------------------- MODULE FileService -----------------------------
(* runtime/fabric/file_service.rs and runtime/connection_files.rs: the HTTP   *)
(* service through which one environment reaches the folders of its           *)
(* connections.                                                               *)
(*                                                                            *)
(* The service has a fixed number of slots, each with a TCP socket of its own *)
(* and at most one request in work.  A request looks up the share, asks the   *)
(* folder server of the share and looks again whether the share is the same   *)
(* before it answers.  Shares come and go while requests are under way.       *)
(*                                                                            *)
(* The TCP stack is external: a socket listens, is open or is closed.  What   *)
(* is left of a request is the connection it names and whether it writes.     *)
EXTENDS Naturals

CONSTANTS
    Slot,         \* 8 in the code
    Shared,       \* connections
    MaxClients,   \* bound: sockets that are opened
    MaxShares     \* bound: shares that are published

VARIABLES
    serves,       \* the service runs
    socket,       \* "listen", "open" or "closed" for each slot
    asker,        \* the client at the socket of each slot
    work,         \* the request of each slot: task, answer and whose they are
    share,        \* the published share of each connection
    given,        \* shares that were ever published
    clients,      \* clients that ever connected
    written       \* shares through which the environment wrote

filesVars == <<serves, socket, asker, work, share, given, clients, written>>

FileRequest == [conn : Shared, write : BOOLEAN]
NoShare == [id |-> 0, end |-> "none", both |-> FALSE]
NoWork    == [step |-> "receive"]

FilesType ==
    /\ socket \in [Slot -> {"listen", "open", "closed"}]
    /\ asker \in [Slot -> 0..MaxClients]
    /\ given \in 0..MaxShares /\ clients \in 0..MaxClients
    /\ \A s \in Slot : work[s].step \in
         {"receive", "lookup", "call", "check", "done", "respond", "closing"}

FilesConstants == MaxClients \in Nat /\ MaxShares \in Nat

FilesInit ==
    /\ serves = TRUE
    /\ socket = [s \in Slot |-> "listen"] /\ asker = [s \in Slot |-> 0]
    /\ work = [s \in Slot |-> NoWork]
    /\ share = [c \in Shared |-> NoShare]
    /\ given = 0 /\ clients = 0 /\ written = {}

shareVars == <<share, given>>

-----------------------------------------------------------------------------
(* Shares                                                                    *)

\* apply_shared_files(): a share whose ends and direction are the same is kept, any
\* other is stopped and replaced.  The environment of this service is at one end of
\* the connection or at none.
PublishShare(c, end, both) ==
    /\ given < MaxShares
    /\ share[c].id = 0 \/ share[c].end # end \/ share[c].both # both
    /\ given' = given + 1
    /\ share' = [share EXCEPT ![c] = [id |-> given + 1, end |-> end, both |-> both]]
    /\ UNCHANGED <<serves, socket, asker, work, clients, written>>

\* remove_shared_files(): the folder servers of the share are stopped.
WithdrawShare(c) ==
    /\ share[c].id # 0
    /\ share' = [share EXCEPT ![c] = NoShare]
    /\ UNCHANGED <<serves, socket, asker, work, given, clients, written>>

\* The socket of the environment is gone: remove_environment() withdraws its shares,
\* and the service ends when nothing can reach its channel.
End ==
    /\ serves
    /\ serves' = FALSE
    /\ share' = [c \in Shared |-> NoShare]
    /\ work' = [s \in Slot |-> NoWork]
    /\ UNCHANGED <<socket, asker, given, clients, written>>

-----------------------------------------------------------------------------
(* Sockets                                                                   *)

\* External: the stack accepts a client at a socket that listens.
ConnectSlot(s) ==
    /\ serves /\ socket[s] = "listen" /\ clients < MaxClients
    /\ clients' = clients + 1
    /\ socket' = [socket EXCEPT ![s] = "open"]
    /\ asker' = [asker EXCEPT ![s] = clients + 1]
    /\ UNCHANGED <<serves, work, written, shareVars>>

\* External: the client resets its connection, or has taken the whole answer.
Gone(s) ==
    /\ serves /\ socket[s] = "open"
    /\ socket' = [socket EXCEPT ![s] = "closed"]
    /\ UNCHANGED <<serves, asker, work, clients, written, shareVars>>

\* Variant: a client is given up only while its request is incomplete.
StallReceiving(s) ==
    /\ serves /\ socket[s] = "open" /\ work[s].step = "receive"
    /\ socket' = [socket EXCEPT ![s] = "closed"]
    /\ UNCHANGED <<serves, asker, work, clients, written, shareVars>>

\* Nothing was received or sent for 30 s.
Stall(s) ==
    /\ serves /\ socket[s] = "open"
    /\ socket' = [socket EXCEPT ![s] = "closed"]
    /\ UNCHANGED <<serves, asker, work, clients, written, shareVars>>

\* A socket that is not open any more gives up its request and listens again.
Reset(s) ==
    /\ serves /\ socket[s] = "closed"
    /\ socket' = [socket EXCEPT ![s] = "listen"]
    /\ work' = [work EXCEPT ![s] = NoWork]
    /\ UNCHANGED <<serves, asker, clients, written, shareVars>>

-----------------------------------------------------------------------------
(* Requests                                                                  *)

\* request_size(): a request that is complete is handed to a task of its own.
Receive(s, r) ==
    /\ serves /\ socket[s] = "open" /\ work[s] = NoWork
    /\ work' = [work EXCEPT ![s] = [step |-> "lookup", for |-> asker[s], request |-> r]]
    /\ UNCHANGED <<serves, socket, asker, clients, written, shareVars>>

\* request_size(): a request that is too long or ambiguous ends the connection.
Malformed(s) ==
    /\ serves /\ socket[s] = "open" /\ work[s] = NoWork
    /\ socket' = [socket EXCEPT ![s] = "closed"]
    /\ UNCHANGED <<serves, asker, work, clients, written, shareVars>>

Answered(w, a) == [step |-> "done", for |-> w.for, answer |-> a,
                   request |-> w.request, of |-> IF "share" \in DOMAIN w THEN w.share ELSE NoShare]

\* A share has a folder server for each end.  That of the source writes, that of the
\* target only if the connection goes both ways.
ServerWrites(server, sh) == server = "target" => sh.both

\* handle(): the share is looked up and its folder server is chosen by the end of
\* the connection that the environment is at.
Lookup(s) ==
    /\ work[s].step = "lookup"
    /\ LET w == work[s]  now == share[w.request.conn]
       IN  work' = [work EXCEPT ![s] =
             IF now.id = 0 \/ now.end = "none" THEN Answered(w, "refused")
             ELSE [step |-> "call", for |-> w.for, request |-> w.request, share |-> now,
                   server |-> now.end]]
    /\ UNCHANGED <<serves, socket, asker, clients, written, shareVars>>

\* The folder server works on the request.  A server that is read-only refuses to
\* write; one that was stopped may still finish what it has begun.
AskServer(s) ==
    /\ work[s].step = "call"
    /\ work' = [work EXCEPT ![s].step = "check"]
    /\ written' = IF work[s].request.write /\ ServerWrites(work[s].server, work[s].share)
                  THEN written \cup {work[s].share} ELSE written
    /\ UNCHANGED <<serves, socket, asker, clients, shareVars>>

\* The folder server does not answer: it was stopped, or 20 s have passed.
ServerFails(s) ==
    /\ work[s].step = "call"
    /\ work' = [work EXCEPT ![s] = Answered(@, "refused")]
    /\ UNCHANGED <<serves, socket, asker, clients, written, shareVars>>

\* The answer is only given if the share is still the one that was looked up.
Check(s) ==
    /\ work[s].step = "check"
    /\ work' = [work EXCEPT ![s] =
         Answered(@, IF share[@.request.conn] = @.share THEN "ok" ELSE "refused")]
    /\ UNCHANGED <<serves, socket, asker, clients, written, shareVars>>

\* The loop finds the task finished and begins to send what it returned.
Collect(s) ==
    /\ serves /\ socket[s] = "open" /\ work[s].step = "done"
    /\ work' = [work EXCEPT ![s].step = "respond"]
    /\ UNCHANGED <<serves, socket, asker, clients, written, shareVars>>

\* All of the answer was handed to the socket, which is closed for sending.
Close(s) ==
    /\ serves /\ socket[s] = "open" /\ work[s].step = "respond"
    /\ work' = [work EXCEPT ![s].step = "closing"]
    /\ UNCHANGED <<serves, socket, asker, clients, written, shareVars>>

Task(s) == Lookup(s) \/ AskServer(s) \/ ServerFails(s) \/ Check(s)
Loop(s) == Reset(s) \/ Collect(s) \/ Close(s)

FilesNext ==
    \/ End
    \/ \E c \in Shared : WithdrawShare(c)
    \/ \E c \in Shared, end \in {"source", "target", "none"}, both \in BOOLEAN :
         PublishShare(c, end, both)
    \/ \E s \in Slot : ConnectSlot(s) \/ Gone(s) \/ Stall(s) \/ Malformed(s) \/ Task(s) \/ Loop(s)
    \/ \E s \in Slot, r \in FileRequest : Receive(s, r)

\* The loop wakes at least once a second and looks at every slot, and every request
\* and answer is bounded in size, so that a slot cannot be touched for ever.
FilesFairness == \A s \in Slot : WF_filesVars(Reset(s)) /\ WF_filesVars(Stall(s))

FilesSpec == FilesInit /\ [][FilesNext]_filesVars /\ FilesFairness

-----------------------------------------------------------------------------
(* Properties                                                                *)

\* What is sent through a socket was computed for the client at that socket, also
\* after the slot has been used by one that went away in the middle of its request.
AnswersOwnClient ==
    \A s \in Slot : (socket[s] = "open" /\ work[s].step \in {"respond", "closing"})
                      => work[s].for = asker[s]

\* Nothing is written through a share by an environment that only reads it or is not
\* at either end of it, whatever became of the share while the request was under way.
WritesPermitted == \A sh \in written : sh.end = "source" \/ (sh.end = "target" /\ sh.both)

\* A request is never answered with the contents of a share that was withdrawn or
\* replaced between the request and the answer.
AnswersFromPresentShare ==
    [][\A s \in Slot : (work[s].step # "done" /\ work'[s].step = "done" /\ work'[s].answer = "ok")
         => share[work[s].request.conn] = work'[s].of]_filesVars

\* No client can keep a slot: it listens again, or the service has ended.
SlotsReturn == \A s \in Slot : (socket[s] = "open") ~> (socket[s] = "listen" \/ ~serves)

=============================================================================
