----------------------------- MODULE AtomicStore -----------------------------
(***************************************************************************)
(* What PlatformStore promises to the rest of the backend, without files: *)
(* one durable value, the generation before it, and one value in memory.   *)
(* A write is begun, may commit, and is then acknowledged; a write that is *)
(* reported as failed has not committed; a crash keeps whatever was last   *)
(* committed. Opening the store again starts from the durable value,       *)
(* normalised, or passes it over for the generation before it, which then  *)
(* becomes the durable one. An open store never goes back.                 *)
(***************************************************************************)
CONSTANTS State,        \* every platform state
          None,         \* no value: nothing durable yet, no memory, no write
          Normalise(_)  \* what opening the store does to the value it reads

VARIABLES durable,      \* the value a start reads
          fallback,     \* the one it takes if it cannot read that; None if there is none
          memory,       \* the value readers see, None while the store is closed
          pending,      \* the value being written, None when no write is going on
          committed,    \* whether the write in progress has become durable
          passedOver    \* whether it starts from the fallback instead

avars == <<durable, fallback, memory, pending, committed, passedOver>>

Init ==
    /\ durable = None /\ fallback = None
    /\ memory = None
    /\ pending = None
    /\ committed = FALSE /\ passedOver = FALSE

\* A new store opens on the state fresh; otherwise on what is durable.
Open(fresh) ==
    /\ memory = None /\ pending = None
    /\ pending' = IF durable = None THEN fresh ELSE Normalise(durable)
    /\ UNCHANGED <<durable, fallback, memory, committed, passedOver>>

\* The durable value cannot be read: the start takes the fallback, which
\* replaces it before anything else is written.
PassOver ==
    /\ memory = None /\ pending = None /\ fallback # None
    /\ pending' = Normalise(fallback)
    /\ passedOver' = TRUE
    /\ UNCHANGED <<durable, fallback, memory, committed>>

GoBack ==
    /\ passedOver
    /\ durable' = fallback
    /\ passedOver' = FALSE
    /\ UNCHANGED <<fallback, memory, pending, committed>>

Begin(v) ==
    /\ memory # None /\ pending = None
    /\ pending' = v
    /\ UNCHANGED <<durable, fallback, memory, committed, passedOver>>

\* A write keeps the durable value as the only fallback, or none.
Turn ==
    /\ pending # None /\ ~committed /\ ~passedOver
    /\ fallback' \in {durable, None}
    /\ UNCHANGED <<durable, memory, pending, committed, passedOver>>

Commit ==
    /\ pending # None /\ ~committed /\ ~passedOver
    /\ fallback \in {durable, None}
    /\ durable' = pending
    /\ committed' = TRUE
    /\ UNCHANGED <<fallback, memory, pending, passedOver>>

Acknowledge ==
    /\ committed
    /\ memory' = pending
    /\ pending' = None
    /\ committed' = FALSE
    /\ UNCHANGED <<durable, fallback, passedOver>>

Fail ==
    /\ pending # None /\ ~committed
    /\ pending' = None
    /\ fallback' \in {fallback, None}
    /\ passedOver' = FALSE
    /\ UNCHANGED <<durable, memory, committed>>

Ephemeral(v) ==
    /\ memory # None /\ pending = None
    /\ memory' = v
    /\ UNCHANGED <<durable, fallback, pending, committed, passedOver>>

Crash ==
    /\ memory' = None
    /\ pending' = None
    /\ committed' = FALSE
    /\ passedOver' = FALSE
    /\ UNCHANGED <<durable, fallback>>

Next ==
    \/ \E v \in State : Open(v) \/ Begin(v) \/ Ephemeral(v)
    \/ PassOver \/ GoBack \/ Turn \/ Commit \/ Acknowledge \/ Fail \/ Crash

Spec == Init /\ [][Next]_avars
=============================================================================
