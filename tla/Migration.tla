----------------------------- MODULE Migration -----------------------------
(***************************************************************************)
(* One established endpoint with its paths and connection identifiers      *)
(* (quiche/src/lib.rs over path.rs and cid.rs): packets on known and new   *)
(* address pairs, path validation, the peer's migration, the client's own, *)
(* the rotation of identifiers underneath, and the timers.                 *)
(*                                                                         *)
(* The handler of a packet is a chain of operators over a record           *)
(* [dst, paths, verdict]: "ok", "drop" (Error::Done) or "error",      *)
(* which closes the connection; after a verdict the rest is skipped.       *)
(***************************************************************************)
EXTENDS Paths

CONSTANTS Addrs,        \* address pairs
          Home,         \* the pair of the handshake
          MaxIds,       \* bound on the identifiers each side creates
          MaxInFlight   \* bound on the challenges in flight on a path

VARIABLES is_server,
          disable_dcid_reuse,
          dst,          \* the identifiers the peer gave
          paths,
          peer_next,    \* the next sequence number of the peer's identifiers
          status        \* "open", "error" or "no path"

vars == <<is_server, disable_dcid_reuse, dst, paths, peer_next, status>>

Init ==
  /\ is_server \in BOOLEAN
  /\ disable_dcid_reuse \in BOOLEAN
  /\ disable_dcid_reuse => is_server
  /\ dst = NewDestination(0)
  /\ paths = InitialPaths(Home)
  /\ peer_next = 1
  /\ status = "open"

Conn == [dst |-> dst, paths |-> paths, verdict |-> "ok"]

Then(c, next(_)) == IF c.verdict = "ok" THEN next(c) ELSE c

Failing(c, verdict) == [c EXCEPT !.verdict = verdict]

(* A path takes the lowest identifier no path uses, or none.               *)
TakeDcid(c, pid) ==
  LET seq == lowest_available_dcid_seq(c.dst)
  IN [c EXCEPT !.paths[pid].dcid = seq,
               !.dst = IF seq = NoSeq THEN @ ELSE link_dcid_to_path_id(@, seq, pid)]

(* For each number of a set, from the lowest.                              *)
ForEach(step(_, _), c, S) == IF S = {} THEN c ELSE FoldLeft(step, c, SetToSortSeq(S, <))

-----------------------------------------------------------------------------
(* Receiving a packet.                                                     *)

(* get_or_create_recv_path_id: a new pair of addresses gets a path, which  *)
(* is probed at once, or the packet is dropped.                            *)
RecvOnPath(c, addrs) ==
  LET pid == insert_pid(c.paths)
      path == request_validation(NewPath(addrs))
  IN IF path_id_from_addrs(c.paths, addrs) # NoPath THEN c
     ELSE IF pid = NoPath THEN Failing(c, "drop")
     ELSE [c EXCEPT !.paths = insert_path(@, pid, path)]

(* Slip: the paths that used a retired identifier keep it.                 *)
ProcessNewConnectionId_NoRelink(c, seq, rpt) ==
  LET r == new_dcid(c.dst, seq, rpt)
  IN IF r.err THEN Failing(c, "error") ELSE [c EXCEPT !.dst = r.dst]

(* The frames about identifiers and paths.                                 *)
ProcessNewConnectionId(c, seq, rpt) ==
  LET r == new_dcid(c.dst, seq, rpt)
      relink(d, old) ==
        LET pid == c.dst.dcids[old]
        IN IF d.paths[pid].dcid # old THEN d ELSE TakeDcid(d, pid)
      relinked == ForEach(relink, [c EXCEPT !.dst = r.dst], r.retired)
  IN IF r.err THEN Failing(relinked, "error") ELSE relinked

(* A PATH_RESPONSE answers a challenge of path `pid`.  One that answers no *)
(* challenge in flight does what any other frame does.                     *)
ProcessPathResponse(c, pid, full) ==
  IF get_active_path_id(c.paths) = NoPath THEN Failing(c, "error")
  ELSE [c EXCEPT !.paths[pid] = on_response_received(@, full)]

ProcessFrame(c, f) ==
  CASE f.kind = "new_id" -> ProcessNewConnectionId(c, f.seq, f.rpt)
    [] f.kind = "response" -> ProcessPathResponse(c, f.pid, f.full)
    [] f.kind = "other" -> c

(* After the frames: every path without an identifier tries to get one.    *)
AllocateDcids(c) ==
  ForEach(TakeDcid, c, {pid \in DOMAIN c.paths : c.paths[pid].dcid = NoSeq})

on_peer_migrated(c, new_pid) ==
  LET old == get_active_path_id(c.paths)
      ps == set_active_path(c.paths, new_pid, is_server)
  IN [c EXCEPT !.paths =
        IF ps[new_pid].dcid = NoSeq /\ ~disable_dcid_reuse
          THEN [ps EXCEPT ![new_pid].dcid = ps[old].dcid] ELSE ps]

(* A packet has only probing frames, or else may show that the peer moved. *)
(* (One with a lower number than another acts like a probing packet, or    *)
(* fails as well when there is no active path.)                            *)
CheckMigration(c, addrs, probing) ==
  LET pid == path_id_from_addrs(c.paths, addrs)
      active == get_active_path_id(c.paths)
  IN IF probing THEN c
     ELSE IF active = NoPath THEN Failing(c, "error")
     ELSE IF is_server /\ pid # active THEN on_peer_migrated(c, pid)
     ELSE c

(* What a failing handler did before no longer matters.  The numbers to    *)
(* retire, the subject of CidExchange, leave at once.                      *)
Apply(c) ==
  IF c.verdict = "error"
    THEN status' = "error" /\ UNCHANGED <<dst, paths>>
    ELSE dst' = [c.dst EXCEPT !.retire = {}] /\ paths' = c.paths /\ UNCHANGED status

(* A packet with frame `f` arrives on `addrs`.  A client drops what comes  *)
(* from an unknown address.                                                *)
RecvPacket(addrs, f, probing) ==
  /\ status = "open"
  /\ is_server \/ path_id_from_addrs(paths, addrs) # NoPath
  /\ LET routed == RecvOnPath(Conn, addrs)
         framed == Then(routed, LAMBDA c : ProcessFrame(c, f))
         linked == Then(framed, AllocateDcids)
         moved == Then(linked, LAMBDA c : CheckMigration(c, addrs, probing))
     IN Apply(moved)
  /\ peer_next' = IF f.kind = "new_id" THEN Max({peer_next, f.seq + 1}) ELSE peer_next
  /\ UNCHANGED <<is_server, disable_dcid_reuse>>

-----------------------------------------------------------------------------
(* Sending.                                                                *)

(* send_single finds the identifier it sends to in the list; otherwise the *)
(* call fails.                                                             *)
SendWorks(p) == p.dcid \in DOMAIN dst.dcids

(* send_on_path on any path, which send() picks among.  A server that may  *)
(* not send yet takes no step.                                             *)
Send(pid) ==
  /\ status = "open"
  /\ LET p == paths[pid]
         probed == IF p.challenge_requested THEN add_challenge_sent(p) ELSE p
     IN /\ SendWorks(p)
        /\ p.challenge_requested => p.in_flight < MaxInFlight
        /\ paths' = [paths EXCEPT ![pid] = probed]
  /\ UNCHANGED <<is_server, disable_dcid_reuse, dst, peer_next, status>>

(* on_timeout with the loss timers of `expired` due, and no budget left on *)
(* those of `starved`.                                                     *)
OnTimeout(expired, starved, an_rtt_later) ==
  /\ status = "open"
  /\ LET timed == [pid \in DOMAIN paths |->
                     IF pid \in expired
                       THEN on_loss_detection_timeout(paths[pid], pid \in starved, an_rtt_later)
                       ELSE paths[pid]]
         candidate == find_candidate_path(timed)
     IN IF get_active_path_id(timed) # NoPath
          THEN paths' = timed /\ UNCHANGED status
        ELSE IF candidate # NoPath
          THEN paths' = set_active_path(timed, candidate, is_server) /\ UNCHANGED status
        ELSE paths' = timed /\ status' = "no path"
  /\ UNCHANGED <<is_server, disable_dcid_reuse, dst, peer_next>>

-----------------------------------------------------------------------------
(* Calls of the application.                                               *)

RetireDcid(seq) ==
  LET active == get_active_path_id(paths)
      r == retire_dcid(dst, seq)
      after == [Conn EXCEPT !.dst = r.dst]
  IN /\ status = "open"
     /\ active # NoPath
     /\ seq = paths[active].dcid /\ lowest_available_dcid_seq(dst) = NoSeq
          => \E pid \in DOMAIN paths \ {active} : Usable(paths[pid])
     /\ Apply(IF r.err \/ r.pid = NoPath THEN after ELSE TakeDcid(after, r.pid))
     /\ UNCHANGED <<is_server, disable_dcid_reuse, peer_next>>

(* create_path_on_client: pid = NoPath when it fails.  Without an unused   *)
(* identifier of our own it fails too: a call that takes no step.          *)
CreatePath(c, addrs) ==
  LET pid == insert_pid(c.paths)
      created == TakeDcid([c EXCEPT !.paths = insert_path(@, pid, NewPath(addrs))], pid)
  IN IF is_server \/ pid = NoPath
          \/ lowest_available_dcid_seq(c.dst) = NoSeq
       THEN [c |-> c, pid |-> NoPath]
       ELSE [c |-> created, pid |-> pid]

ProbePath(addrs) ==
  LET known == path_id_from_addrs(paths, addrs)
      r == IF known # NoPath THEN [c |-> Conn, pid |-> known] ELSE CreatePath(Conn, addrs)
  IN /\ status = "open"
     /\ r.pid # NoPath
     /\ Apply([r.c EXCEPT !.paths[r.pid] = request_validation(@)])
     /\ UNCHANGED <<is_server, disable_dcid_reuse, peer_next>>

Migrate(addrs) ==
  LET known == path_id_from_addrs(paths, addrs)
      r == IF known = NoPath THEN CreatePath(Conn, addrs)
           ELSE IF paths[known].dcid # NoSeq THEN [c |-> Conn, pid |-> known]
           ELSE [c |-> TakeDcid(Conn, known), pid |-> known]
  IN /\ status = "open"
     /\ ~is_server
     /\ r.pid # NoPath
     /\ known # NoPath => ~Active(paths[known])
     /\ r.c.paths[r.pid].dcid # NoSeq
     /\ Apply([r.c EXCEPT !.paths = set_active_path(@, r.pid, is_server)])
     /\ UNCHANGED <<is_server, disable_dcid_reuse, peer_next>>

-----------------------------------------------------------------------------
(* What a peer that follows the protocol may send.                         *)
NewIdFrames ==
  {f \in [kind : {"new_id"}, seq : {peer_next} \cap 0..(MaxIds - 1), rpt : 0..MaxIds] :
     f.rpt <= f.seq /\ ~new_dcid(dst, f.seq, f.rpt).err}

ResponseFrames ==
  {f \in [kind : {"response"}, pid : DOMAIN paths, full : BOOLEAN] :
     paths[f.pid].in_flight > 0}

Frames ==
  NewIdFrames \cup ResponseFrames \cup {[kind |-> "other"]}

Next ==
  \/ \E f \in Frames, addrs \in Addrs, probing \in BOOLEAN :
       RecvPacket(addrs, f, probing)
  \/ \E pid \in DOMAIN paths : Send(pid)
  \/ \E expired \in SUBSET {pid \in DOMAIN paths : paths[pid].in_flight > 0},
        an_rtt_later \in BOOLEAN :
       \E starved \in SUBSET (IF is_server THEN expired ELSE {}) :
         OnTimeout(expired, starved, an_rtt_later)
  \/ \E seq \in DOMAIN dst.dcids : RetireDcid(seq)
  \/ \E addrs \in Addrs : ProbePath(addrs) \/ Migrate(addrs)

Spec == Init /\ [][Next]_vars

-----------------------------------------------------------------------------
(* An identifier a path sends to is still in the list, is linked to that   *)
(* path, and hence is not shared with another path: send() finds it, and   *)
(* observers cannot link two paths.  Reuse after a migration is the one    *)
(* exception, when it is not disabled.                                     *)
PathDcidHeld ==
  (is_server => disable_dcid_reuse) =>
    \A pid \in DOMAIN paths :
      paths[pid].dcid # NoSeq =>
        paths[pid].dcid \in DOMAIN dst.dcids /\ dst.dcids[paths[pid].dcid] = pid

(* No identifier leaks: one that is linked to a path is the one this path  *)
(* sends to, so every identifier the peer gave is in use or available.     *)
NoDcidLeaked ==
  \A s \in DOMAIN dst.dcids :
    dst.dcids[s] # NoPath =>
      dst.dcids[s] \in DOMAIN paths /\ paths[dst.dcids[s]].dcid = s
=============================================================================
