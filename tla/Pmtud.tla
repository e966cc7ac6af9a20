------------------------------- MODULE Pmtud -------------------------------
(***************************************************************************)
(* The search for the path MTU (quiche/src/pmtud.rs), as functions on its  *)
(* record, checked for every sequence of outcomes of its probes.           *)
(*                                                                         *)
(* One probe is in flight at a time; the loss detection reports it either  *)
(* acknowledged or lost, once.  A path lets packets up to its MTU through, *)
(* and may lose a probe that it would carry.                               *)
(***************************************************************************)
EXTENDS Integers
LOCAL INSTANCE FiniteSetsExt

CONSTANTS MIN_PLPMTU,
          max_probes,
          MtuBound      \* the largest maximum_supported_mtu that is tried

LOCAL None == -1

pmtud_new(maximum_supported_mtu) ==
  [pmtu |-> None, probe_size |-> maximum_supported_mtu,
   maximum_supported_mtu |-> maximum_supported_mtu,
   smallest_failed_probe_size |-> None, largest_successful_probe_size |-> None,
   in_flight |-> FALSE, probe_failure_count |-> 0]

should_probe(p) ==
  ~p.in_flight /\ p.pmtu = None /\ p.smallest_failed_probe_size # MIN_PLPMTU

get_current_mtu(p) ==
  IF p.largest_successful_probe_size = None THEN MIN_PLPMTU
  ELSE p.largest_successful_probe_size

restart_pmtud(p) == [pmtud_new(p.maximum_supported_mtu) EXCEPT !.in_flight = p.in_flight]

set_pmtu(p, size) ==
  [p EXCEPT !.pmtu = size, !.probe_size = size, !.probe_failure_count = 0]

update_probe_size(p) ==
  LET failed == p.smallest_failed_probe_size
      successful == p.largest_successful_probe_size
  IN CASE failed # None /\ successful # None ->
            IF failed <= successful THEN restart_pmtud(p)
            ELSE IF failed - successful <= 1 THEN set_pmtu(p, successful)
            ELSE [p EXCEPT !.probe_size = (successful + failed) \div 2]
       [] failed # None /\ successful = None ->
            [p EXCEPT !.probe_size = (MIN_PLPMTU + failed) \div 2]
       [] failed = None /\ successful # None -> set_pmtu(p, successful)
       [] OTHER -> [p EXCEPT !.probe_size = p.maximum_supported_mtu]

successful_probe(p, size) ==
  LET capped == Min({size, p.maximum_supported_mtu})
  IN [update_probe_size(
        [p EXCEPT !.probe_failure_count = 0,
                  !.largest_successful_probe_size = Max({capped, @})])
      EXCEPT !.in_flight = FALSE]

failed_probe(p, probe_size) ==
  LET size == Max({probe_size, MIN_PLPMTU})
      smallest == p.smallest_failed_probe_size
  IN IF p.probe_failure_count + 1 < max_probes
     THEN [p EXCEPT !.probe_failure_count = @ + 1, !.in_flight = FALSE]
     ELSE [update_probe_size(
             [p EXCEPT !.smallest_failed_probe_size =
                         IF smallest = None THEN size ELSE Min({smallest, size}),
                       !.probe_failure_count = 0])
           EXCEPT !.in_flight = FALSE]

\* The failed size is kept, so that the search goes on below it.
revalidate_pmtu(p) ==
  IF p.pmtu = None THEN p
  ELSE [p EXCEPT !.probe_size = Min({p.pmtu, p.maximum_supported_mtu}), !.pmtu = None,
                 !.probe_failure_count = 0, !.largest_successful_probe_size = None]

-----------------------------------------------------------------------------
\* What one probe leads to on a path that carries packets up to mtu: lost by
\* chance or not.
Probed(p, mtu) ==
  LET sent == [p EXCEPT !.in_flight = TRUE]
  IN {failed_probe(sent, p.probe_size)} \cup
     (IF p.probe_size <= mtu THEN {successful_probe(sent, p.probe_size)} ELSE {})

\* The states after k probes, with a revalidation wherever one is possible.
RECURSIVE StatesAfter(_, _, _)
StatesAfter(k, mtu, maximum) ==
  IF k = 0 THEN {pmtud_new(maximum)}
  ELSE LET before == StatesAfter(k - 1, mtu, maximum)
       IN before \cup UNION {Probed(p, mtu) : p \in {q \in before : should_probe(q)}}
                 \cup {revalidate_pmtu(p) : p \in before}

\* The search when only packets that are too large are lost, for at most fuel
\* probes.
RECURSIVE Search(_, _, _)
Search(p, mtu, fuel) ==
  IF fuel = 0 \/ ~should_probe(p) THEN p
  ELSE LET sent == [p EXCEPT !.in_flight = TRUE]
       IN Search(IF p.probe_size <= mtu THEN successful_probe(sent, p.probe_size)
                 ELSE failed_probe(sent, p.probe_size), mtu, fuel - 1)

LOCAL Tries == 3 * max_probes * (MtuBound - MIN_PLPMTU + 1)

\* On a path that loses exactly what exceeds its MTU, the search ends with the
\* largest size that both sides support, or without any when not even the
\* minimum passes; a revalidation after the path's MTU fell to another value
\* finds the new one.
ASSUME SearchFindsMtu ==
  \A maximum \in MIN_PLPMTU..MtuBound, mtu, later \in (MIN_PLPMTU - 1)..MtuBound :
    LET Answer(m) == IF m < MIN_PLPMTU THEN None ELSE Min({m, maximum})
        found == Search(pmtud_new(maximum), mtu, Tries)
    IN /\ found.pmtu = Answer(mtu)
       /\ ~should_probe(found)
       /\ later <= mtu /\ mtu >= MIN_PLPMTU =>
            Search(revalidate_pmtu(found), later, Tries).pmtu = Answer(later)

\* Whatever else is lost, no size is used that the path did not carry, the next
\* probe lies between what passed and what failed, so that every answer narrows
\* the search, and the results never contradict each other.
ASSUME SearchIsSound ==
  \A maximum \in MIN_PLPMTU..MtuBound, mtu \in (MIN_PLPMTU - 1)..MtuBound :
    \A p \in StatesAfter(max_probes * 4, mtu, maximum) :
      /\ p.largest_successful_probe_size <= Min({mtu, maximum})
      /\ p.pmtu # None => p.pmtu = p.largest_successful_probe_size
      /\ should_probe(p) =>
           /\ p.probe_size \in get_current_mtu(p)..maximum
           /\ p.smallest_failed_probe_size # None =>
                p.probe_size < p.smallest_failed_probe_size
      /\ p.smallest_failed_probe_size # None =>
           p.largest_successful_probe_size < p.smallest_failed_probe_size
============================================================================
