---------------------------- MODULE PuppetChannel ----------------------------
(***************************************************************************)
(* The receive side of the puppet stream (python/duck_agent/puppet.py):    *)
(* what one PuppetChannel holds and what its methods, each one hold of its *)
(* lock, make of it.  Instants are kept as ages: how many units of time    *)
(* ago something happened, counted no further than the code tells apart.   *)
(* A channel's value is abstracted to the age of the packet it came from.  *)
(***************************************************************************)
EXTENDS Naturals, Sequences

CONSTANTS
  Fresh,      (* PUPPET_FRESH_S, the deadman                                 *)
  SeqReset,   (* SEQ_RESET_S: silence after which any seq is accepted        *)
  Channels    (* the last-value channels: move, head, pose, mouth            *)

ASSUME PuppetChannelAssumption ==
  /\ Fresh \in Nat \ {0} /\ SeqReset \in Nat
  /\ Fresh < SeqReset

(* PuppetPacket, after parse_puppet_packet: at least what the sender asserts  *)
(* in `carries`; "do" stands for a do or a sound.                             *)
Packet(seqs) == [seq : seqs, carries : SUBSET (Channels \cup {"do"})]

(* `seen`: the last packet offered, of any kind; `accepted`: the last one     *)
(* accepted.  The greatest age also stands for never.                         *)
ChannelType(seqs, epochs, acts) ==
  [lastSeq : seqs \cup {0}, seen : 0..SeqReset, accepted : 0..Fresh,
   value : [Channels -> 0..Fresh], actions : Seq(acts),
   muted : BOOLEAN, epoch : epochs]

Silent ==
  [lastSeq |-> 0, seen |-> SeqReset, accepted |-> Fresh,
   value |-> [c \in Channels |-> Fresh], actions |-> <<>>,
   muted |-> FALSE, epoch |-> 0]

(* The first lines of offer: silence is measured, then the latches are seen   *)
(* to.  0 is no sequence number: every packet's is above it.  The variants    *)
(* are bugs: a mute that ends with the next packet, numbers never forgotten.  *)
HeardMutant(ch) ==
  [ch EXCEPT !.seen = 0, !.muted = FALSE,
             !.lastSeq = IF ch.seen >= SeqReset THEN 0 ELSE @]

HeardForeverMutant(ch) ==
  [ch EXCEPT !.seen = 0, !.muted = @ /\ ch.seen < Fresh]

Heard(ch) ==
  [ch EXCEPT !.seen = 0,
             !.lastSeq = IF ch.seen >= SeqReset THEN 0 ELSE @,
             !.muted = @ /\ ch.seen < Fresh]

(* Duplicates let through.                                                    *)
AcceptsMutant(ch, p) == ~Heard(ch).muted /\ p.seq >= Heard(ch).lastSeq

Accepts(ch, p) == ~Heard(ch).muted /\ p.seq > Heard(ch).lastSeq

(* offer: the channels a packet carries take its value, the others keep       *)
(* theirs; `act` is what its do or sound queues.                              *)
Offer(ch, p, act) ==
  IF ~Accepts(ch, p) THEN Heard(ch)
  ELSE [Heard(ch) EXCEPT
          !.lastSeq = p.seq,
          !.accepted = 0,
          !.value = [c \in Channels |-> IF c \in p.carries THEN 0 ELSE @[c]],
          !.actions = IF "do" \in p.carries THEN Append(@, act) ELSE @]

Mute(ch) ==
  [ch EXCEPT !.muted = TRUE, !.accepted = Fresh,
             !.value = [c \in Channels |-> Fresh],
             !.actions = <<>>, !.epoch = @ + 1]

(* values, is_fresh                                                           *)
Asserted(ch) == {c \in Channels : ch.value[c] < Fresh}
IsFresh(ch) == ch.accepted < Fresh

(* take_actions                                                               *)
Taken(ch) == [ch EXCEPT !.actions = <<>>]

(* One unit of time passes.                                                   *)
Older(age, most) == IF age < most THEN age + 1 ELSE most

Aged(ch) ==
  [ch EXCEPT !.seen = Older(@, SeqReset),
             !.accepted = Older(@, Fresh),
             !.value = [c \in Channels |-> Older(@[c], Fresh)]]

=============================================================================
