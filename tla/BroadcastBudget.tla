-------------------------- MODULE BroadcastBudget --------------------------
(***************************************************************************)
(* The broadcast admission budget of the driver: a token bucket with a      *)
(* reserve for each of the more important traffic classes, refilled when it *)
(* is asked.  send_broadcast asks it once per broadcast, with the tunables  *)
(* of that moment.                                                          *)
(*                                                                          *)
(* Time is the stack's clock in ticks.  mark, spent, relayed and promise    *)
(* are history, read by the properties only.                                *)
(***************************************************************************)
EXTENDS Integers

CONSTANTS
    Interval,        \* broadcast_token_refill, in ticks; 0 for no rate limit
    Tunings,         \* the settings of the other three tunables a client may choose
    MaxTokens,       \* the largest capacity among them
    MaxTime          \* bound: the clock

ASSUME BudgetAssumption ==
    /\ Interval \in Nat /\ MaxTokens \in Nat /\ MaxTime \in Nat
    /\ Tunings \subseteq [capacity : 0 .. MaxTokens, critical : Nat, forwarding : Nat]

VARIABLES
    now,           \* the clock
    tokens,        \* BroadcastBudget.tokens
    lastRefill,    \* BroadcastBudget.last_refill
    tunables,      \* the three tunables
    mark,          \* the start of a window, chosen at any time
    spent,         \* the tokens drawn since then
    relayed,       \* those drawn by relays since the bucket last covered the host's floor
    promise        \* per class: when the last refusal's retry_in ends, if nothing came between

bucket  == <<tokens, lastRefill>>
history == <<mark, spent, relayed, promise>>
budgetVars    == <<now, bucket, tunables, history>>

Limited  == {"Forwarding", "Host"}
Classes  == Limited \cup {"Critical"}
Never    == -1

BudgetInit ==
    /\ now = 0
    /\ tunables \in Tunings
    /\ tokens = tunables.capacity /\ lastRefill = 0
    /\ mark = 0 /\ spent = 0 /\ relayed = 0
    /\ promise = [c \in Limited |-> Never]

BugFloor(class) == IF class = "Critical" THEN 0 ELSE tunables.critical

\* The tokens a class may not dip into.
Floor(class) ==
    CASE class = "Critical" -> 0
      [] class = "Forwarding" -> tunables.critical
      [] class = "Host" -> tunables.critical + tunables.forwarding

-----------------------------------------------------------------------------
(* refill: one token per interval, up to the capacity *)

Full == Interval = 0 \/ tokens >= tunables.capacity
Accrued == (now - lastRefill) \div Interval
Fills == Full \/ tokens + Accrued >= tunables.capacity

Refilled == IF Fills THEN tunables.capacity ELSE tokens + Accrued
BugFullClockKept == IF Fills /\ ~Full THEN now ELSE lastRefill
RefilledAt == IF Fills THEN now ELSE lastRefill + Accrued * Interval

-----------------------------------------------------------------------------
(* take *)

TakeCritical ==
    /\ tokens' = Refilled /\ lastRefill' = RefilledAt
    /\ UNCHANGED <<now, tunables, history>>

\* Relays drawn are counted from the last time the bucket covered the host's floor.
Relays(class, left) ==
    IF left >= Floor("Host") THEN 0 ELSE relayed + (IF class = "Forwarding" THEN 1 ELSE 0)

Admits(class) == Refilled > Floor(class)

Admit(class) ==
    /\ Admits(class)
    /\ tokens' = Refilled - 1 /\ lastRefill' = RefilledAt
    /\ spent' = spent + 1
    /\ relayed' = Relays(class, Refilled - 1)
    /\ promise' = [c \in Limited |-> Never]
    /\ UNCHANGED <<now, tunables, mark>>

BugRetryIn(class) == Interval * (Floor(class) - Refilled)
RetryIn(class) == Interval * (Floor(class) + 1 - Refilled)

Defer(class) ==
    /\ ~Admits(class)
    /\ tokens' = Refilled /\ lastRefill' = RefilledAt
    /\ promise' = [promise EXCEPT ![class] = now + RetryIn(class)]
    /\ UNCHANGED <<now, tunables, mark, spent, relayed>>

\* A client sets a tunable: the bucket is left for the next take to adjust, and the relays'
\* reserve counts as drawn until the bucket covers the host's floor again.
SetTunable(t) ==
    /\ tunables' = t
    /\ promise' = [c \in Limited |-> Never]
    /\ relayed' = t.forwarding
    /\ UNCHANGED <<now, bucket, mark, spent>>

Tick == now < MaxTime /\ now' = now + 1 /\ UNCHANGED <<bucket, tunables, history>>

\* An observer starts a window.
Mark == mark' = now /\ spent' = 0 /\ UNCHANGED <<now, bucket, tunables, relayed, promise>>

BudgetNext ==
    \/ TakeCritical
    \/ \E class \in Limited : Admit(class) \/ Defer(class)
    \/ \E t \in Tunings : SetTunable(t)
    \/ Tick
    \/ Mark

BudgetSpec == BudgetInit /\ [][BudgetNext]_budgetVars

-----------------------------------------------------------------------------
(* Properties *)

\* The count of tokens never underflows nor passes the largest capacity, and the refill
\* clock never runs ahead of the stack's.
TypeOK ==
    /\ now \in Nat /\ tunables \in Tunings
    /\ tokens \in 0 .. MaxTokens
    /\ lastRefill \in 0 .. now /\ mark \in 0 .. now
    /\ spent \in Nat /\ relayed \in Nat
    /\ promise \in [Limited -> Nat \cup {Never}]

\* What the budget is for: in any window, however the takes fall and whatever is tuned
\* meanwhile, the limited classes draw no more than a full bucket and one token per
\* interval of the window.
RateBounded == spent * Interval <= MaxTokens * Interval + (now - mark)

\* A refused sender that waits for retry_in and meets no other traffic is admitted, as
\* long as the capacity exceeds its floor at all.
RetrySuffices ==
    \A c \in Limited :
       promise[c] # Never /\ promise[c] <= now /\ tunables.capacity > Floor(c) => Admits(c)

\* While the tunables stay put, a host flood cannot stop the relays: relays are refused
\* only once they drew the whole of their own reserve.
RelaysKeepReserve ==
    tunables.capacity >= Floor("Host") /\ ~Admits("Forwarding")
    => relayed >= tunables.forwarding
=============================================================================
