--------------------------- MODULE WhatsAppMemory ---------------------------
(***************************************************************************)
(* What the agent remembers of one WhatsApp customer (_history, _remember  *)
(* in services/whatsapp.py): a Redis list of the last turns, which each    *)
(* task reads before its chat turn and adds to after it, in three commands.*)
(* Messages of a customer are answered side by side, and any command may   *)
(* fail, in Redis or for the task that awaits it.                          *)
(***************************************************************************)
EXTENDS Integers, FiniteSets, Sequences

CONSTANTS
  Exchanges,  \* the customer's messages that are answered
  Kept,       \* WHATSAPP_HISTORY_TURNS
  Shown       \* half of MAX_HISTORY, which is 8 lines

ASSUME MemoryAssumption == Kept \in Nat \ {0} /\ Shown \in Nat \ {0} /\ IsFiniteSet(Exchanges)

VARIABLES
  lines,     \* wa:hist: who said what, the question or the answer of an exchange
  dies,      \* whether the key has a time to live
  exchange,  \* where each task is
  recalled   \* what its chat turn was given

memoryVars == <<lines, dies, exchange, recalled>>

Spoken == Exchanges \X {"user", "assistant"}
LastOf(s, n) == IF Len(s) <= n THEN s ELSE SubSeq(s, Len(s) - n + 1, Len(s))

MemoryInit ==
  /\ lines = << >> /\ dies = FALSE
  /\ exchange = [e \in Exchanges |-> "idle"]
  /\ recalled = [e \in Exchanges |-> << >>]

Step(e, from, to) == exchange[e] = from /\ exchange' = [exchange EXCEPT ![e] = to]

\* _history, and what chat takes of it; nothing when Redis is down
Recall(e) ==
  /\ Step(e, "idle", "chatting")
  /\ recalled' \in {[recalled EXCEPT ![e] = LastOf(LastOf(lines, 2 * Kept), 2 * Shown)], recalled}
  /\ UNCHANGED <<lines, dies>>

\* A turn that fails is not remembered.
ChatEnds(e) ==
  /\ \E to \in {"pushing", "over"} : Step(e, "chatting", to)
  /\ UNCHANGED <<lines, dies, recalled>>

Added(e) == << <<e, "user">>, <<e, "assistant">> >>

\* Each command may be done and its answer lost to the task, which then skips
\* what is left and sends its reply all the same.
Push(e) ==
  /\ \E to \in {"trimming", "pushed"} : Step(e, "pushing", to)
  /\ lines' = lines \o Added(e)
  /\ UNCHANGED <<dies, recalled>>

Trimmed_Oldest(s) == SubSeq(s, 1, IF Len(s) <= 2 * Kept THEN Len(s) ELSE 2 * Kept)
Trimmed(s) == LastOf(s, 2 * Kept)

Trim(e) ==
  /\ \E to \in {"expiring", "trimmed"} : Step(e, "trimming", to)
  /\ lines' = Trimmed(lines)
  /\ UNCHANGED <<dies, recalled>>

\* EXPIRE does nothing to a key that is gone.
SetExpiry(e) ==
  /\ Step(e, "expiring", "over")
  /\ dies' = (lines # << >>)
  /\ UNCHANGED <<lines, recalled>>

CommandFails(e) ==
  /\ \/ Step(e, "pushing", "over") \/ Step(e, "trimming", "pushed") \/ Step(e, "expiring", "trimmed")
  /\ UNCHANGED <<lines, dies, recalled>>

\* A day after the last EXPIRE, or when Redis loses what it has.
DayPasses ==
  /\ dies /\ lines # << >>
  /\ lines' = << >> /\ dies' = FALSE
  /\ UNCHANGED <<exchange, recalled>>

MemoryNext ==
  \/ \E e \in Exchanges :
       Recall(e) \/ ChatEnds(e) \/ Push(e) \/ Trim(e) \/ SetExpiry(e) \/ CommandFails(e)
  \/ DayPasses

MemorySpec == MemoryInit /\ [][MemoryNext]_memoryVars

----------------------------------------------------------------------------
(* Properties                                                              *)

MemoryTypeOK ==
  /\ lines \in Seq(Spoken) /\ dies \in BOOLEAN
  /\ exchange \in [Exchanges -> {"idle", "chatting", "pushing", "trimming", "expiring",
                                 "pushed", "trimmed", "over"}]
  /\ recalled \in [Exchanges -> Seq(Spoken)]

Whole(s) ==
  /\ Len(s) % 2 = 0
  /\ \A i \in 1 .. Len(s) \div 2 :
       s[2 * i - 1][2] = "user" /\ s[2 * i] = <<s[2 * i - 1][1], "assistant">>

\* However the commands of several tasks interleave, break off and trim, an
\* agent is shown whole exchanges: never an answer without its question, or
\* the question of one message with the answer to another.
WholeExchanges == Whole(lines) /\ \A e \in Exchanges : Whole(recalled[e])

\* "10 turns per customer": each task between its push and its trim, or broken
\* off there, may add one.
MemoryBounded ==
  Len(lines) <= 2 * (Kept + Cardinality({e \in Exchanges : exchange[e] \in {"trimming", "pushed"}}))

\* "Memory lasts 24 hours": lines stay without an end only through a task that
\* is on its way to EXPIRE, or has not got there.
MemoryDies ==
  lines # << >> /\ ~dies =>
    \E e \in Exchanges : exchange[e] \in {"trimming", "expiring", "pushed", "trimmed"}

\* What goes first is the oldest: the last turn is forgotten with all the others only.
LastTurnStays ==
  [][lines # << >> /\ lines' # << >>
     => \E i \in 1 .. Len(lines') : lines'[i] = lines[Len(lines)]]_memoryVars

\* The memory of a customer is whole, bounded, mortal and recent.
MemoryKept ==
  [](MemoryTypeOK /\ WholeExchanges /\ MemoryBounded /\ MemoryDies) /\ LastTurnStays

============================================================================
