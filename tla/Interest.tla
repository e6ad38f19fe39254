------------------------------ MODULE Interest ------------------------------
(***************************************************************************)
(* What grind promises a watcher, with none of the bookkeeping: a watcher  *)
(* wants one view, everything, or nothing; when an entry makes views       *)
(* commit, each commit a watcher wants and its filters pass is heard, and  *)
(* nothing it does not want is.  The entry handled is itself a variable,   *)
(* so that what is heard is held against that entry and no other: a step   *)
(* that handles an entry and relays too little is not a step of Interest.  *)
(* Registry is shown to implement this.                                    *)
(***************************************************************************)
CONSTANTS
  Watchers, Formats, Views, Filters,
  Entries,       \* what an entry can be: the <<format, view>> commits it can
                 \* cause (hits), and the formats that raise on it (bare)
  Covered,       \* the <<format, view>> pairs whose klass lists the format
  Strict,        \* whether a pair outside Covered needs a keeper to be heard
  None, All      \* the wants that are not a view

VARIABLES
  want,          \* what each watcher is subscribed to
  screen,        \* the filters each watcher has set
  entry,         \* the entry just handled
  heard,         \* who heard which of its commits
  up             \* whether grind still runs

vars == <<want, screen, entry, heard, up>>

NoEntry == [of |-> [hits |-> {}, bare |-> {}], fails |-> {}]

Init == /\ want = [w \in Watchers |-> None]
        /\ screen = [w \in Watchers |-> {}]
        /\ entry = NoEntry
        /\ heard = {}
        /\ up = TRUE

(* A step that handles no entry, of which nobody hears anything.           *)
NoEntryStep == /\ up
               /\ entry' = NoEntry
               /\ heard' = {}

(* A subscription or a departure: a new want, with no filter.              *)
Want(w, x) == /\ want' = [want EXCEPT ![w] = x]
              /\ screen' = [screen EXCEPT ![w] = {}]
              /\ NoEntryStep
              /\ UNCHANGED up

Screen(w, F) == /\ want[w] # None
                /\ screen' = [screen EXCEPT ![w] = F]
                /\ NoEntryStep
                /\ UNCHANGED <<want, up>>

(* Any other call of a watcher or the kernel, which may end grind.         *)
Quiet == /\ UNCHANGED <<want, screen>>
         /\ NoEntryStep
         /\ up' \in BOOLEAN

Passes(w, fails) == screen[w] \cap fails = {}

Must(hits, fails) ==
  {r \in Watchers \X hits :
     /\ Passes(r[1], fails)
     /\ \/ want[r[1]] = All
        \/ want[r[1]] = r[2][2] /\ r[2] \in Covered}

May(hits, fails) ==
  {r \in Watchers \X hits :
     /\ Passes(r[1], fails)
     /\ want[r[1]] \in {All, r[2][2]}
     /\ \/ ~Strict
        \/ r[2] \in Covered
        \/ \E u \in Watchers : want[u] = All}

Deliver(e, fails) ==
  /\ up
  /\ entry' = [of |-> e, fails |-> fails]
  /\ Must(e.hits, fails) \subseteq heard'
  /\ heard' \subseteq May(e.hits, fails)
  /\ UNCHANGED <<want, screen, up>>

(* An entry that raises ends grind before all of it is heard.              *)
Break(e, fails) ==
  /\ up
  /\ e.bare # {}
  /\ entry' = [of |-> e, fails |-> fails]
  /\ heard' \subseteq May(e.hits, fails)
  /\ up' = FALSE
  /\ UNCHANGED <<want, screen>>

Next == \/ Quiet
        \/ \E w \in Watchers, x \in Views \cup {None, All} : Want(w, x)
        \/ \E w \in Watchers, F \in SUBSET Filters : Screen(w, F)
        \/ \E e \in Entries, fails \in SUBSET Filters :
             Deliver(e, fails) \/ Break(e, fails)

Spec == Init /\ [][Next]_vars
=============================================================================
