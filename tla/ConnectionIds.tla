--------------------------- MODULE ConnectionIds ---------------------------
(***************************************************************************)
(* The connection identifiers of one endpoint (quiche/src/cid.rs): the     *)
(* source identifiers it gives to its peer and the destination ones its    *)
(* peer gave to it.  An identifier stands for its sequence number: an      *)
(* honest issuer never uses one number for two identifiers.  A list of     *)
(* entries is a function from sequence numbers to the path that uses the   *)
(* entry (NoPath if none does).  Zero-length identifiers, which are never  *)
(* exchanged, are left out.                                                *)
(*                                                                         *)
(* An operation returns a record with the new lists and, when the code may *)
(* fail half way, `err`: the changes made before the failing line stay.    *)
(***************************************************************************)
EXTENDS Integers, Sequences, FiniteSets, SequencesExt, FiniteSetsExt, Functions

CONSTANTS SourceLimit,       \* source_conn_id_limit, once negotiated
          DestinationLimit,  \* destination_conn_id_limit
          RETIRED_CONN_ID_LIMIT_MULTIPLIER

ASSUME LimitsAssumption ==
  /\ SourceLimit \in Nat \ {0, 1}
  /\ DestinationLimit \in Nat \ {0, 1}
  /\ RETIRED_CONN_ID_LIMIT_MULTIPLIER \in Nat \ {0}

NoPath == -1
NoSeq == -1

Size(entries) == Cardinality(DOMAIN entries)

Without(entries, seqs) == [s \in DOMAIN entries \ seqs |-> entries[s]]

With(entries, seq, pid) ==
  [s \in DOMAIN entries \cup {seq} |-> IF s = seq THEN pid ELSE entries[s]]

(* The least number of a set, or NoSeq when the set is empty.              *)
Lowest(seqs) == IF seqs = {} THEN NoSeq ELSE Min(seqs)

-----------------------------------------------------------------------------
(* Source identifiers.                                                     *)

NewSource(pid) ==
  [scids |-> [s \in {0} |-> pid], advertise |-> <<>>, next |-> 1,
   retire_prior_to |-> 0]

lowest_usable_scid_seq(src) ==
  Lowest({s \in DOMAIN src.scids : s >= src.retire_prior_to})

mark_advertise_new_scid_seq(src, seq, advertise) ==
  [src EXCEPT !.advertise =
     IF advertise THEN Append(@, seq) ELSE RemoveFirst(@, seq)]

(* `known`: the identifier offered is already in the list.  The raised     *)
(* retire_prior_to stays when a later check makes the call fail.           *)
new_scid(src, known, retire_if_needed) ==
  LET full == Size(src.scids) >= SourceLimit
      lowest == lowest_usable_scid_seq(src)
      raised == IF full THEN [src EXCEPT !.retire_prior_to = lowest + 1] ELSE src
  IN IF full /\ (~retire_if_needed \/ lowest = NoSeq) THEN src
     ELSE IF known \/ Size(src.scids) >= 2 * SourceLimit - 1 THEN raised
     ELSE mark_advertise_new_scid_seq(
            [raised EXCEPT !.scids = With(@, src.next, NoPath), !.next = @ + 1],
            src.next, TRUE)

(* A RETIRE_CONNECTION_ID frame for `seq` in a packet sent to `pkt_dcid`.  *)
retire_scid(src, seq, pkt_dcid) ==
  LET removed == [src EXCEPT !.scids = Without(@, {seq})]
      lowest == lowest_usable_scid_seq(removed)
      outcome(s, pid, err) == [src |-> s, pid |-> pid, err |-> err]
  IN IF seq >= src.next \/ Size(src.scids) <= 1 THEN outcome(src, NoPath, TRUE)
     ELSE IF seq \notin DOMAIN src.scids THEN outcome(src, NoPath, FALSE)
     ELSE IF seq = pkt_dcid \/ lowest = NoSeq THEN outcome(removed, NoPath, TRUE)
     ELSE outcome([removed EXCEPT !.retire_prior_to = lowest],
                  src.scids[seq], FALSE)

-----------------------------------------------------------------------------
(* Destination identifiers.                                                *)

NewDestination(pid) ==
  [dcids |-> [s \in {0} |-> pid], retire |-> {}, largest_retire_prior_to |-> 0]

RetireCapacity == DestinationLimit * RETIRED_CONN_ID_LIMIT_MULTIPLIER

lowest_available_dcid_seq(dst) ==
  Lowest({s \in DOMAIN dst.dcids : dst.dcids[s] = NoPath})

link_dcid_to_path_id(dst, seq, pid) == [dst EXCEPT !.dcids[seq] = pid]

(* BoundedConnectionIdSeqSet::insert fails at capacity, even for a number  *)
(* that the set already holds.                                             *)
MarkRetireFails(dst) == Cardinality(dst.retire) >= RetireCapacity

mark_retire_dcid_seq(dst, seq, retire) ==
  [dst EXCEPT !.retire =
     IF ~retire THEN @ \ {seq} ELSE IF MarkRetireFails(dst) THEN @ ELSE @ \cup {seq}]

(* Slip: a late frame is not compared with what was retired since.         *)
RetiredBefore_Never(dst, seq) == FALSE

(* The peer already asked to retire the number a late frame announces.     *)
RetiredBefore(dst, seq) == seq < dst.largest_retire_prior_to

(* A NEW_CONNECTION_ID frame.  `retired`: the identifiers it retires that  *)
(* a path was using.  Which numbers still enter a full retire set depends  *)
(* on their arrival order; the error closes the connection in every case.  *)
new_dcid(dst, seq, retire_prior_to) ==
  LET raises == retire_prior_to > dst.largest_retire_prior_to
      old == IF raises THEN {s \in DOMAIN dst.dcids : s < retire_prior_to} ELSE {}
      room == RetireCapacity - Cardinality(dst.retire)
      queued == IF Cardinality(old) <= room THEN old
                ELSE CHOOSE q \in SUBSET old : Cardinality(q) = room
      retiring == [dcids |-> Without(dst.dcids, old),
                   retire |-> dst.retire \cup queued,
                   largest_retire_prior_to |->
                     IF raises THEN retire_prior_to ELSE dst.largest_retire_prior_to]
      retired == {s \in old : dst.dcids[s] # NoPath}
      full == Size(retiring.dcids) >= DestinationLimit
      outcome(d, r, err) == [dst |-> d, retired |-> r, err |-> err]
  IN IF seq \in DOMAIN dst.dcids THEN outcome(dst, {}, FALSE)
     ELSE IF retire_prior_to > seq THEN outcome(dst, {}, TRUE)
     ELSE IF RetiredBefore(dst, seq)
       THEN outcome(mark_retire_dcid_seq(dst, seq, TRUE), {}, MarkRetireFails(dst))
     ELSE IF full THEN outcome(retiring, retired, TRUE)
     ELSE outcome([retiring EXCEPT !.dcids = With(@, seq, NoPath)], retired,
                  queued # old)

(* The application retires a destination identifier.  An identifier that   *)
(* left the list stays out of it when the retire set is full.              *)
retire_dcid(dst, seq) ==
  LET removed == [dst EXCEPT !.dcids = Without(@, {seq})]
      outcome(d, pid, err) == [dst |-> d, pid |-> pid, err |-> err]
  IN IF Size(dst.dcids) <= 1 \/ seq \notin DOMAIN dst.dcids
       THEN outcome(dst, NoPath, TRUE)
     ELSE outcome(mark_retire_dcid_seq(removed, seq, TRUE), dst.dcids[seq],
                  MarkRetireFails(dst))
=============================================================================
