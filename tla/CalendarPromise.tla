--------------------------- MODULE CalendarPromise ---------------------------
(***************************************************************************)
(* What the backend promises the people who write to it, without Internal, *)
(* Google's protocol, contexts, texts or errors: a request that is heard   *)
(* does at most one thing to the calendar, at one moment, and exactly the  *)
(* thing that was asked; whoever is told "ok" is told what was seen at     *)
(* that moment; whoever is told "error" is promised nothing else, the      *)
(* thing asked may be done before or after.                                *)
(***************************************************************************)
EXTENDS Integers

CONSTANTS
  Requests, EventIds, Absent, Gone,
  Books,     \* the calendars to start from: an entry, Absent or Gone per id
  Asks,      \* what can be asked: [op, id, title, place, from, until]
  NoAsk

VARIABLES book, ask, acted, seen, told, shown

vars == <<book, ask, acted, seen, told, shown>>

Init ==
  /\ book \in Books
  /\ ask = [r \in Requests |-> NoAsk]
  /\ acted = [r \in Requests |-> FALSE]
  /\ seen = [r \in Requests |-> {}]
  /\ told = [r \in Requests |-> "nothing"]
  /\ shown = [r \in Requests |-> {}]

Entries == {id \in EventIds : book[id] \notin {Absent, Gone}}

(* An entry as people see it. *)
View(id, e) == [id |-> id, title |-> e.title, place |-> e.place,
                from |-> e.from, until |-> e.until]

Hear(r) ==
  /\ ask[r] = NoAsk
  /\ told[r] = "nothing"
  /\ \E a \in Asks : ask' = [ask EXCEPT ![r] = a]
  /\ UNCHANGED <<book, acted, seen, told, shown>>

-----------------------------------------------------------------------------
May(r, op) == ask[r] # NoAsk /\ ask[r].op = op /\ ~acted[r]

Act(r, views) ==
  /\ acted' = [acted EXCEPT ![r] = TRUE]
  /\ seen' = [seen EXCEPT ![r] = views]
  /\ UNCHANGED <<ask, told, shown>>

Enter(r, id) ==
  LET e == [title |-> ask[r].title, place |-> ask[r].place,
            from |-> ask[r].from, until |-> ask[r].until]
  IN /\ May(r, "create")
     /\ book[id] = Absent
     /\ book' = [book EXCEPT ![id] = e]
     /\ Act(r, {View(id, e)})

Remove(r) ==
  /\ May(r, "delete")
  /\ ask[r].id \in Entries
  /\ book' = [book EXCEPT ![ask[r].id] = Gone]
  /\ Act(r, {})

(* An update keeps the times, and the place when none is given. *)
Rename(r) ==
  LET old == book[ask[r].id]
      e == [title |-> ask[r].title,
            place |-> IF ask[r].place = "" THEN old.place ELSE ask[r].place,
            from |-> old.from, until |-> old.until]
  IN /\ May(r, "update")
     /\ ask[r].id \in Entries
     /\ book' = [book EXCEPT ![ask[r].id] = e]
     /\ Act(r, {View(ask[r].id, e)})

(* A query sees all that touches the asked range. *)
Look(r) ==
  /\ May(r, "query")
  /\ Act(r, {View(id, book[id]) : id \in
               {i \in Entries : /\ book[i].from <= ask[r].until
                                /\ book[i].until >= ask[r].from}})
  /\ UNCHANGED book

-----------------------------------------------------------------------------
TellOk(r) ==
  /\ told[r] = "nothing"
  /\ acted[r]
  /\ told' = [told EXCEPT ![r] = "ok"]
  /\ shown' = [shown EXCEPT ![r] = seen[r]]
  /\ UNCHANGED <<book, ask, acted, seen>>

TellError(r) ==
  /\ told[r] = "nothing"
  /\ told' = [told EXCEPT ![r] = "error"]
  /\ UNCHANGED <<book, ask, acted, seen, shown>>

Next ==
  \E r \in Requests :
    \/ Hear(r)
    \/ \E id \in EventIds : Enter(r, id)
    \/ Remove(r)
    \/ Rename(r)
    \/ Look(r)
    \/ TellOk(r)
    \/ TellError(r)

Spec == Init /\ [][Next]_vars

=============================================================================
