------------------------------ MODULE TimerBase ------------------------------
(***************************************************************************)
(* The timers of every daemon (TimerBase in tools/threading_tools.py) under *)
(* the ways the daemons use them.                                          *)
(*                                                                         *)
(* register_timer appends to the list in place, unregister_timer replaces  *)
(* the list, and _handle_timer walks over the list it found and puts a new *)
(* one in its place.  So a callback's registrations land in the list that  *)
(* is walked as long as no callback of this pass has unregistered          *)
(* anything; afterwards they land in a list the end of the pass discards,  *)
(* and only the clause for a callback that removed itself saves them.      *)
(*                                                                         *)
(* Three daemons register and unregister timers while they run:            *)
(*   meta     meta-server: check is permanent, trans is switched on and    *)
(*            off by _enable/_disable_transition_timer                     *)
(*   hostmon  host-monitoring: delayed and long remove themselves when     *)
(*            their lists are empty                                        *)
(*   mother   the external command process: check is registered by every   *)
(*            command that finds no other at work, and removes all its     *)
(*            entries when idle; call is the oneshot of a delayed command  *)
(***************************************************************************)
EXTENDS FiniteSets, Selection

CONSTANTS Profiles, MaxTimers

ASSUME TimerAssumption ==
  /\ Profiles \subseteq {"meta", "hostmon", "mother"}
  /\ MaxTimers \in Nat

VARIABLES
  profile, \* which daemon this is
  list,    \* __timer_list
  walked,  \* the list _handle_timer iterates over
  shared,  \* __timer_list still is the list that is walked
  pos,     \* the next entry of the walk, 0 outside a pass
  fresh,   \* new_tl
  want     \* what the daemon believes: the callbacks it needs

vars == <<profile, list, walked, shared, pos, fresh, want>>

Callback == {"check", "trans", "cpu", "delayed", "long", "call"}
Permanent(pr) == CASE pr = "meta" -> {"check"} [] pr = "hostmon" -> {"cpu"}
                   [] OTHER -> {}
Ids(s) == {s[i].id : i \in DOMAIN s}
Has(s, cb) == \E i \in DOMAIN s : s[i].cb = cb

(* A view is what a callback can change: the list, the walk and want.      *)
View == [list |-> list, walked |-> walked, shared |-> shared, want |-> want]

(* timer_id is a counter; here a small number no entry uses.               *)
NewId(v) == LET used == Ids(v.list) \cup Ids(v.walked) \cup Ids(fresh)
            IN  CHOOSE n \in 1 .. Cardinality(used) + 1 : n \notin used

(* Mutant: registration replaces the list, too.                            *)
RegisterCopies(v, cb, oneshot) ==
  [v EXCEPT !.list = Append(@, [id |-> NewId(v), cb |-> cb, oneshot |-> oneshot]),
            !.shared = FALSE]

register_timer(v, cb, oneshot) ==
  LET e == [id |-> NewId(v), cb |-> cb, oneshot |-> oneshot] IN
  [v EXCEPT !.list = Append(@, e),
            !.walked = IF v.shared THEN Append(@, e) ELSE @]

Without(s, cb) == At(s, {i \in DOMAIN s : s[i].cb # cb})

unregister_timer(v, cb) == [v EXCEPT !.list = Without(@, cb), !.shared = FALSE]

(* The on and off switches of the daemons: the flag, then the timer, in    *)
(* one step (a signal between the two statements is left out).  The        *)
(* package client's _set_resend_timeout, which unregisters and registers   *)
(* its timer in the callback of that timer, does what trans does here.     *)
Enable(v, cb) ==
  IF cb \in v.want THEN v
  ELSE register_timer([v EXCEPT !.want = @ \cup {cb}], cb, FALSE)

Disable(v, cb) ==
  IF cb \in v.want THEN unregister_timer([v EXCEPT !.want = @ \ {cb}], cb) ELSE v

(***************************************************************************)
(* What a callback may do, as the set of views it may leave.  trans ends   *)
(* its transitions and may at once get new ones; check of mother is idle   *)
(* only when no delayed command waits for its oneshot.                     *)
(***************************************************************************)
Outcomes(cb, v) ==
  CASE cb = "check" /\ profile = "meta" -> {v, Enable(v, "trans")}
    [] cb = "trans" -> {v, Disable(v, "trans"), Enable(Disable(v, "trans"), "trans")}
    [] cb \in {"delayed", "long"} -> {v, Disable(v, cb)}
    [] cb = "check" /\ profile = "mother" ->
         {v} \cup (IF "call" \in v.want THEN {}
                   ELSE {unregister_timer([v EXCEPT !.want = @ \ {"check"}], "check")})
    [] cb = "call" -> {[v EXCEPT !.want = @ \ {"call"}]}
    [] OTHER -> {v}

(* What a message handler does outside a pass.                             *)
HandlerOutcomes(v) ==
  CASE profile = "meta" -> {Enable(v, "trans")}
    [] profile = "hostmon" -> {Enable(v, "delayed"), Enable(v, "long")}
    [] OTHER ->
         LET idle == "check" \notin v.want
             timed == IF idle THEN register_timer(v, "check", FALSE) ELSE v
             busy == [timed EXCEPT !.want = @ \cup {"check"}]
         IN {timed, busy}
              \cup (IF "call" \in v.want THEN {}
                    ELSE {register_timer([busy EXCEPT !.want = @ \cup {"call"}], "call", TRUE)})

Apply(v) ==
  /\ Len(v.list) <= MaxTimers
  /\ list' = v.list /\ walked' = v.walked /\ shared' = v.shared /\ want' = v.want

------------------------------------------------------------------------------
Entry(n, cb) == [id |-> n, cb |-> cb, oneshot |-> FALSE]

(* process_init of mother registers check before there is any command.     *)
Init ==
  /\ profile \in Profiles
  /\ list = <<Entry(1, IF profile = "hostmon" THEN "cpu" ELSE "check")>>
  /\ want = Permanent(profile)
  /\ walked = <<>> /\ fresh = <<>> /\ pos = 0 /\ shared = FALSE

Handler ==
  /\ pos = 0
  /\ \E v \in HandlerOutcomes(View) : Apply(v)
  /\ UNCHANGED <<profile, pos, fresh>>

(* _handle_timer begins.                                                   *)
PassStart ==
  /\ pos = 0 /\ list # <<>>
  /\ walked' = list /\ shared' = TRUE /\ pos' = 1 /\ fresh' = <<>>
  /\ UNCHANGED <<profile, list, want>>

(* The entries of the list l that were not there before the callback.      *)
NewEntries(l) == At(l, {i \in DOMAIN l : l[i].id \notin Ids(list)})

(* Mutants: an entry is kept although its callback removed it; new entries *)
(* are carried over although the walk comes to them.                       *)
SurvivorsAll(e, v) == <<e>> \o (IF e.id \in Ids(v.list) THEN <<>> ELSE NewEntries(v.list))

SurvivorsTwice(e, v) ==
  (IF e.id \in Ids(v.list) THEN <<e>> ELSE <<>>) \o NewEntries(v.list)

(* An entry that is due is called; what becomes of it and of entries its   *)
(* callback registered after removing it.                                  *)
Survivors(e, v) ==
  IF e.oneshot THEN <<>>
  ELSE IF e.id \in Ids(v.list) THEN <<e>>
  ELSE NewEntries(v.list)

Call ==
  /\ pos \in DOMAIN walked
  /\ \E v \in Outcomes(walked[pos].cb, View) :
       /\ Apply(v)
       /\ fresh' = fresh \o Survivors(walked[pos], v)
  /\ pos' = pos + 1
  /\ UNCHANGED profile

NotDue ==
  /\ pos \in DOMAIN walked
  /\ fresh' = Append(fresh, walked[pos])
  /\ pos' = pos + 1
  /\ UNCHANGED <<profile, list, walked, shared, want>>

PassEnd ==
  /\ pos = Len(walked) + 1
  /\ list' = fresh
  /\ walked' = <<>> /\ fresh' = <<>> /\ pos' = 0 /\ shared' = FALSE
  /\ UNCHANGED <<profile, want>>

(* A signal between two callbacks of a main process ends the pass by an    *)
(* exception: __timer_list stays as the callbacks left it.                 *)
Abort ==
  /\ pos > 0 /\ profile # "mother"
  /\ walked' = <<>> /\ fresh' = <<>> /\ pos' = 0 /\ shared' = FALSE
  /\ UNCHANGED <<profile, list, want>>

Next == Handler \/ PassStart \/ Call \/ NotDue \/ PassEnd \/ Abort

Spec == Init /\ [][Next]_vars

------------------------------------------------------------------------------
Entries(s) == \A i \in DOMAIN s : s[i].cb \in Callback /\ s[i].oneshot \in BOOLEAN

(* The shape of the state; no two entries of a list have the same id.      *)
TypeOK ==
  /\ profile \in Profiles
  /\ Entries(list) /\ Entries(walked) /\ Entries(fresh)
  /\ \A i, j \in DOMAIN list : list[i].id = list[j].id => i = j
  /\ shared \in BOOLEAN /\ pos \in Nat
  /\ want \subseteq Callback

(* No timer a daemon counts on is lost: outside a pass there is an entry   *)
(* for every callback its flag or list says is registered.  A lost one     *)
(* would never come back, because the flag keeps it from being registered  *)
(* again: transitions, delayed commands would hang for ever.               *)
TimerKept == (pos = 0) => \A cb \in want : Has(list, cb)

(* Where a flag guards the registration (meta-server, host-monitoring) the *)
(* entries and the flag agree exactly: no callback has two entries and     *)
(* none that was switched off stays behind.                                *)
TimersExact ==
  (pos = 0 /\ profile # "mother") =>
    \A cb \in Callback :
      Cardinality({i \in DOMAIN list : list[i].cb = cb}) = IF cb \in want THEN 1 ELSE 0
==============================================================================
