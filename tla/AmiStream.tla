------------------------------- MODULE AmiStream -------------------------------
(***************************************************************************)
(* What the trackers of queue-api share: the AMI events on their way to    *)
(* handle_ami_event, the clock, and what goes wrong around the process.    *)
(* "Eventos [...] podem ser reentregues, atrasar ou chegar fora de ordem": *)
(* queue_state.py:3.                                                       *)
(***************************************************************************)
EXTENDS Naturals, Sequences, FiniteSets, SequencesExt, TLC

CONSTANTS Clocks, StartClock, DayLength,  \* the readings of time.time
          MaxWire,                        \* how far the process may lag behind
          MaxMishaps                      \* of one behaviour, of all kinds

VARIABLES wire, now,
          mishaps   \* how many may still come, and the kinds that came
streamVars == <<wire, now, mishaps>>

ASSUME StreamAssumption == StartClock \in Clocks /\ Clocks \subseteq Nat /\ DayLength \in Nat \ {0}

StreamInit == wire = <<>> /\ now = StartClock /\ mishaps = [left |-> MaxMishaps, kinds |-> {}]

Never(kinds) == mishaps.kinds \cap kinds = {}
MishapsAnd(kinds, noted) ==
  /\ mishaps.left >= Cardinality(kinds)
  /\ mishaps' = [left |-> mishaps.left - Cardinality(kinds),
                 kinds |-> mishaps.kinds \cup kinds \cup noted]
Mishaps(kinds) == MishapsAnd(kinds, {})
Mishap(kind) == Mishaps({kind})
NoMishap == UNCHANGED mishaps
Note(kind) == MishapsAnd({}, {kind})

DayKey(time) == time \div DayLength

\* Asterisk tells what it did; the reader hands the events on one at a time, late,
\* before an earlier one, or once more.
Tell(events) == Len(wire) <= MaxWire /\ wire' = wire \o events
Take(i, again) == i \in DOMAIN wire /\ wire' = IF again THEN wire ELSE RemoveAt(wire, i)
Disorder(i, again) == IF i = 1 /\ ~again THEN {} ELSE {"disorder"}

\* The clock is time.time: it may also be set back.
SetClock ==
  \E n \in Clocks \ {now} :
    /\ now' = n /\ UNCHANGED wire
    /\ IF n > now THEN NoMishap ELSE Mishap("setback")
===============================================================================
