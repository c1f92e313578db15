--------------------------- MODULE QuantumEngine ---------------------------
(***************************************************************************)
(* main.cpp's tick loop with agents/async_llm.hpp, the client of the       *)
(* language-model agent at the other end of a DEALER socket.               *)
(*                                                                         *)
(* A prompt and the reply to it carry the prompt's ordinal; the client     *)
(* sees neither.  The socket's queues and the agent are external: they are *)
(* first in, first out, the agent may be slow, may lose prompts, and a     *)
(* full queue makes a dontwait send fail.  The models the loop runs before *)
(* each prompt (GEX, HMM) only shape its text.                             *)
(***************************************************************************)
EXTENDS Integers, Sequences

CONSTANTS
    SendEvery,  \* ticks between prompts, 100
    Timeout,    \* 50 ms
    Horizon,    \* the second after which the loop ends
    HWM,        \* the socket's high-water mark
    MaxSends,   \* bound: prompts
    MaxTime     \* bound: the clock

ASSUME EngineAssumption ==
    /\ SendEvery \in Nat \ {0} /\ Timeout \in Nat /\ Horizon \in Nat
    /\ HWM \in Nat
    /\ MaxSends \in Nat /\ MaxTime \in Nat /\ Horizon < MaxTime

VARIABLES
    now,        \* steady_clock
    pc,         \* "tick", "send", "poll", "heartbeat" or "done"
    tick,       \* tick, modulo SendEvery
    pending,    \* pending_
    sentAt,     \* sent_at_
    sends,      \* calls of send_async
    toAgent,    \* prompts in the socket or with the agent
    toEngine,   \* replies in the socket
    last,       \* the reply try_recv returned last: the prompt it answers,
                \* and how many prompts had been sent by then (history)
    lost        \* a prompt was lost (history)

client == <<pending, sentAt>>
queues == <<toAgent, toEngine>>
vars == <<now, pc, tick, client, sends, queues, last, lost>>

Init ==
    /\ now = 0
    /\ pc = "tick" /\ tick = 0
    /\ pending = FALSE /\ sentAt = 0
    /\ sends = 0
    /\ toAgent = <<>> /\ toEngine = <<>>
    /\ last = [prompt |-> 0, at |-> 0] /\ lost = FALSE

Clock ==
    /\ pc # "done"
    /\ now < MaxTime
    /\ now' = now + 1
    /\ UNCHANGED <<pc, tick, client, sends, queues, last, lost>>
-----------------------------------------------------------------------------
(* The loop. *)

\* tick++; every SendEvery-th tick computes and prompts.
Tick ==
    /\ pc = "tick"
    /\ tick' = (tick + 1) % SendEvery
    /\ pc' = IF tick' = 0 /\ sends < MaxSends THEN "send" ELSE "poll"
    /\ UNCHANGED <<now, client, sends, queues, last, lost>>

\* Operators named Mutant_... are plausible bugs, which the properties must
\* refute when they take the place of the definition they precede.

\* A socket without a high-water mark.
Mutant_SendAsync ==
    /\ pc = "send"
    /\ sends' = sends + 1
    /\ toAgent' = Append(toAgent, sends + 1)
    /\ pending' = TRUE
    /\ sentAt' = now
    /\ pc' = "poll"
    /\ UNCHANGED <<now, tick, toEngine, last, lost>>

\* send_async ignores what send returns: pending either way.
SendAsync ==
    /\ pc = "send"
    /\ sends' = sends + 1
    /\ IF Len(toAgent) < HWM
         THEN toAgent' = Append(toAgent, sends + 1) /\ UNCHANGED lost
         ELSE lost' = TRUE /\ UNCHANGED toAgent
    /\ pending' = TRUE
    /\ sentAt' = now
    /\ pc' = "poll"
    /\ UNCHANGED <<now, tick, toEngine, last>>

\* try_recv returns at once when nothing is pending.
PollIdle ==
    /\ pc = "poll"
    /\ ~pending
    /\ pc' = "heartbeat"
    /\ UNCHANGED <<now, tick, client, sends, queues, last, lost>>

\* Keeps pending_ set, so that the next poll takes another reply.
Mutant_PollReply ==
    /\ pc = "poll"
    /\ pending
    /\ toEngine # <<>>
    /\ last' = [prompt |-> Head(toEngine), at |-> sends]
    /\ toEngine' = Tail(toEngine)
    /\ pc' = "heartbeat"
    /\ UNCHANGED <<now, tick, client, sends, toAgent, lost>>

\* Skips to the newest reply and drops the others.
Mutant_PollNewest ==
    /\ pc = "poll"
    /\ pending
    /\ toEngine # <<>>
    /\ last' = [prompt |-> toEngine[Len(toEngine)], at |-> sends]
    /\ toEngine' = <<>>
    /\ pending' = FALSE
    /\ pc' = "heartbeat"
    /\ UNCHANGED <<now, tick, sentAt, sends, toAgent, lost>>

PollReply ==
    /\ pc = "poll"
    /\ pending
    /\ toEngine # <<>>
    /\ last' = [prompt |-> Head(toEngine), at |-> sends]
    /\ toEngine' = Tail(toEngine)
    /\ pending' = FALSE
    /\ pc' = "heartbeat"
    /\ UNCHANGED <<now, tick, sentAt, sends, toAgent, lost>>

\* Waits for the reply or the timeout.
Mutant_PollNothing ==
    /\ pc = "poll"
    /\ pending /\ toEngine = <<>> /\ now - sentAt > Timeout
    /\ pending' = FALSE
    /\ pc' = "heartbeat"
    /\ UNCHANGED <<now, tick, sentAt, sends, queues, last, lost>>

\* Nothing arrived: give up after the timeout, else try again next tick.
PollNothing ==
    /\ pc = "poll"
    /\ pending
    /\ toEngine = <<>>
    /\ pending' = (now - sentAt <= Timeout)
    /\ pc' = "heartbeat"
    /\ UNCHANGED <<now, tick, sentAt, sends, queues, last, lost>>

Heartbeat ==
    /\ pc = "heartbeat"
    /\ pc' = IF now > Horizon THEN "done" ELSE "tick"
    /\ UNCHANGED <<now, tick, client, sends, queues, last, lost>>
-----------------------------------------------------------------------------
(* The agent and the socket (external). *)

AgentReply ==
    /\ pc # "done"
    /\ toAgent # <<>> /\ Len(toEngine) < HWM
    /\ toEngine' = Append(toEngine, Head(toAgent))
    /\ toAgent' = Tail(toAgent)
    /\ UNCHANGED <<now, pc, tick, client, sends, last, lost>>

AgentLoses ==
    /\ pc # "done"
    /\ toAgent # <<>>
    /\ toAgent' = Tail(toAgent)
    /\ lost' = TRUE
    /\ UNCHANGED <<now, pc, tick, client, sends, toEngine, last>>
-----------------------------------------------------------------------------
Loop == Tick \/ SendAsync \/ PollIdle \/ PollReply \/ PollNothing \/ Heartbeat

Agent == AgentReply \/ AgentLoses

Next == Clock \/ Loop \/ Agent

Spec == Init /\ [][Next]_vars

(* The loop's thread runs and time passes; the agent owes nothing.          *)
FairSpec == Spec /\ WF_vars(Loop) /\ WF_vars(Clock)
-----------------------------------------------------------------------------
(* Properties. *)

TypeOK ==
    /\ now \in 0..MaxTime
    /\ pc \in {"tick", "send", "poll", "heartbeat", "done"}
    /\ tick \in 0..(SendEvery - 1)
    /\ pending \in BOOLEAN /\ sentAt \in 0..now
    /\ sends \in 0..MaxSends
    /\ toAgent \in Seq(1..sends) /\ Len(toAgent) <= HWM
    /\ toEngine \in Seq(1..sends) /\ Len(toEngine) <= HWM
    /\ last \in [prompt : 0..sends, at : 0..sends] /\ lost \in BOOLEAN

\* try_recv hands out at most one reply between two calls of send_async, each
\* a newer one: pending_ (line 29) is all that keeps the loop from draining
\* replies that piled up.
OneReplyPerPrompt ==
    [][last' # last => last'.at > last.at /\ last'.prompt > last.prompt]_vars

\* Because of that the engine never catches up: as long as every prompt reaches
\* an agent that answers it, the reply handed out is as many prompts behind as
\* the one before it or more (nothing in lines 24-37 ties a reply to its
\* prompt).
LagNeverShrinks ==
    [][last' # last /\ ~lost => last'.at - last'.prompt >= last.at - last.prompt]_vars

\* The loop ends after its second (lines 99-102) whatever the agent and the
\* socket do: neither send nor recv blocks it.
EngineStops == <>(pc = "done")
=============================================================================
