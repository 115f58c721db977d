------------------------------- MODULE Wljoin -------------------------------
(***************************************************************************)
(* wljoin/main.c: joining one access point and the WPA2 4-way handshake,   *)
(* over a link that loses, delays and reorders EAPOL frames.  The access   *)
(* point (external) is the authenticator the frames presume: it answers a  *)
(* good msg2 with msg3, a good msg4 completes it, it repeats what is not   *)
(* answered under the next replay counter, and it may start over with a    *)
(* fresh nonce.                                                            *)
(*                                                                         *)
(* Cryptography is perfect: a key is the record of what it is derived      *)
(* from, a MIC is the key it was computed with.  The supplicant's nonce is *)
(* the same in every handshake (wpa_start derives it from the MAC address) *)
(* and left out.                                                           *)
(***************************************************************************)
EXTENDS Integers, FiniteSets

CONSTANTS
    Joins,          \* ways to start, a set of [pass, privacy, rsn]: what the
                    \* user gives (NoPass: none) and what the beacon says
    ApPass,         \* the right passphrase
    None,           \* no key, no MIC
    Gtks,           \* the group keys the access point may send
    WPA_POLLS,      \* 400 in the code
    MaxSends,       \* bound on the frames the access point sends
    MaxNonces       \* bound on the handshakes it starts

NoPass == "no passphrase"

ASSUME WljoinAssumption ==
    /\ \A j \in Joins : {j.privacy, j.rsn} \subseteq BOOLEAN
    /\ ApPass # NoPass
    /\ WPA_POLLS \in Nat
    /\ MaxSends \in Nat
    /\ MaxNonces \in Nat \ {0}
    /\ None \notin Gtks
    /\ \A p \in {ApPass} \cup {j.pass : j \in Joins} :
            None \notin [pass : {p}, anonce : Nat]      \* None is no key

VARIABLES
    how,       \* the member of Joins this program was started with
    pc,        \* connect_ap: "join", "poll", "pairwise", "group", "up", "failed"
    wpa_state, \* 0 .. 3
    ptk,       \* [pass, anonce], or None
    replay,
    gtk,       \* None while gtk_len = 0
    polls,
    keys,      \* keys installed in the radio: a set of <<kind, key>>
    toSta, toAp, \* EAPOL frames in flight
    ap         \* the access point: its phase, nonce, counter and group key

sta == <<wpa_state, ptk, replay, gtk>>
vars == <<how, pc, sta, polls, keys, toSta, toAp, ap>>

PTK(pass, anonce) == [pass |-> pass, anonce |-> anonce]

-----------------------------------------------------------------------------
(* The supplicant                                                          *)

\* wl_connect and the checks before the handshake.
Join ==
    /\ pc = "join"
    /\ \/ pc' = "failed" /\ UNCHANGED wpa_state                  \* not associated
       \/ ~ how.privacy /\ pc' = "up" /\ UNCHANGED wpa_state
       \/ /\ how.privacy
          /\ ~ how.rsn \/ how.pass = NoPass
          /\ pc' = "failed"
          /\ UNCHANGED wpa_state
       \/ /\ how.privacy /\ how.rsn /\ how.pass # NoPass
          /\ pc' = "poll"
          /\ wpa_state' = 1
    /\ UNCHANGED <<how, ptk, replay, gtk, polls, keys, toSta, toAp, ap>>

Polling == pc = "poll" /\ polls < WPA_POLLS /\ wpa_state # 3

\* Mutant of PollIdle: an idle poll is not counted.
PollIdleFree == Polling /\ UNCHANGED vars

\* An idle poll, a frame that is no EAPOL-Key frame, or one without the ACK bit.
PollIdle ==
    /\ Polling
    /\ polls' = polls + 1
    /\ UNCHANGED <<how, pc, sta, keys, toSta, toAp, ap>>

\* wpa_rx of a frame that wants an answer.  In state 1 any frame is taken for
\* msg1, in state 2 any frame is taken for msg3; the frame's own kind is not
\* looked at.
RxMsg1(f) ==
    /\ wpa_state = 1
    /\ ptk' = PTK(how.pass, f.anonce)
    /\ wpa_state' = 2
    /\ toAp' = toAp \cup {[m |-> 2, replay |-> replay', mic |-> ptk']}
    /\ UNCHANGED gtk

RxBadMic(f) ==
    /\ wpa_state = 2
    /\ f.mic # ptk
    /\ UNCHANGED <<wpa_state, ptk, gtk, toAp>>

\* Mutants of RxMsg3: the MIC is not checked; msg4 carries the counter stored
\* before this frame.
RxMsg3Unchecked(f) ==
    /\ wpa_state = 2
    /\ gtk' = f.gtk
    /\ wpa_state' = 3
    /\ toAp' = toAp \cup {[m |-> 4, replay |-> replay', mic |-> ptk]}
    /\ UNCHANGED ptk

RxMsg3OldReplay(f) ==
    /\ wpa_state = 2
    /\ f.mic = ptk
    /\ gtk' = f.gtk
    /\ wpa_state' = 3
    /\ toAp' = toAp \cup {[m |-> 4, replay |-> replay, mic |-> ptk]}
    /\ UNCHANGED ptk

\* A group key that does not unwrap or is not there is no obstacle.
RxMsg3(f) ==
    /\ wpa_state = 2
    /\ f.mic = ptk
    /\ gtk' = f.gtk
    /\ wpa_state' = 3
    /\ toAp' = toAp \cup {[m |-> 4, replay |-> replay', mic |-> ptk]}
    /\ UNCHANGED ptk

PollFrame ==
    \E f \in toSta :
        /\ Polling
        /\ polls' = polls + 1
        /\ toSta' = toSta \ {f}
        /\ replay' = f.replay
        /\ RxMsg1(f) \/ RxBadMic(f) \/ RxMsg3(f)
        /\ UNCHANGED <<how, pc, keys, ap>>

PollsOver ==
    /\ pc = "poll"
    /\ polls >= WPA_POLLS \/ wpa_state = 3
    /\ pc' = IF wpa_state = 3 THEN "pairwise" ELSE "failed"
    /\ UNCHANGED <<how, sta, polls, keys, toSta, toAp, ap>>

\* Mutant of InstallPairwise: a key that was not installed is no obstacle.
InstallPairwiseAnyway ==
    /\ pc = "pairwise"
    /\ \/ UNCHANGED keys
       \/ keys' = keys \cup {<<"pairwise", ptk>>}
    /\ pc' = IF gtk = None THEN "up" ELSE "group"
    /\ UNCHANGED <<how, sta, polls, toSta, toAp, ap>>

InstallPairwise ==
    /\ pc = "pairwise"
    /\ \/ pc' = "failed" /\ UNCHANGED keys
       \/ /\ keys' = keys \cup {<<"pairwise", ptk>>}
          /\ pc' = IF gtk = None THEN "up" ELSE "group"
    /\ UNCHANGED <<how, sta, polls, toSta, toAp, ap>>

InstallGroup ==
    /\ pc = "group"
    /\ pc' = "up"
    /\ \/ UNCHANGED keys                                        \* only reported
       \/ keys' = keys \cup {<<"group", gtk>>}
    /\ UNCHANGED <<how, sta, polls, toSta, toAp, ap>>

-----------------------------------------------------------------------------
(* The access point (external)                                             *)

\* phase "msg1" and "msg3": the message that awaits its answer; awaited: the
\* counters under which it was sent.
Frame(m) ==
    [m |-> m, anonce |-> ap.nonce, replay |-> ap.sends + 1,
     mic |-> IF m = 3 THEN PTK(ApPass, ap.nonce) ELSE None,
     gtk |-> IF m = 3 THEN ap.gtk ELSE None]

ApSend ==
    /\ how.privacy
    /\ pc # "join"
    /\ ap.phase \in {"msg1", "msg3"}
    /\ ap.sends < MaxSends
    /\ ap' = [ap EXCEPT !.sends = @ + 1, !.awaited = @ \cup {ap.sends + 1}]
    /\ toSta' = toSta \cup {Frame(IF ap.phase = "msg1" THEN 1 ELSE 3)}
    /\ UNCHANGED <<how, pc, sta, polls, keys, toAp>>

ApRestart ==
    /\ ap.phase \in {"msg1", "msg3"}
    /\ ap.nonce < MaxNonces
    /\ ap' = [ap EXCEPT !.phase = "msg1", !.nonce = @ + 1, !.awaited = {}]
    /\ UNCHANGED <<how, pc, sta, polls, keys, toSta, toAp>>

ApGivesUp ==
    /\ ap.phase \in {"msg1", "msg3"}
    /\ ap.sends = MaxSends
    /\ ap' = [ap EXCEPT !.phase = "off"]
    /\ UNCHANGED <<how, pc, sta, polls, keys, toSta, toAp>>

Answers(f, m) ==
    f.m = m /\ f.replay \in ap.awaited /\ f.mic = PTK(ApPass, ap.nonce)

ApReceive ==
    \E f \in toAp :
        /\ ap' = CASE ap.phase = "msg1" /\ Answers(f, 2) ->
                        [ap EXCEPT !.phase = "msg3", !.awaited = {}]
                   [] ap.phase = "msg3" /\ Answers(f, 4) ->
                        [ap EXCEPT !.phase = "done"]
                   [] OTHER -> ap
        /\ toAp' = toAp \ {f}
        /\ UNCHANGED <<how, pc, sta, polls, keys, toSta>>

LoseToSta ==
    \E f \in toSta :
        /\ toSta' = toSta \ {f}
        /\ UNCHANGED <<how, pc, sta, polls, keys, toAp, ap>>

LoseToAp ==
    \E f \in toAp :
        /\ toAp' = toAp \ {f}
        /\ UNCHANGED <<how, pc, sta, polls, keys, toSta, ap>>

Init ==
    /\ how \in Joins
    /\ pc = "join" /\ wpa_state = 0 /\ ptk = None /\ replay = 0 /\ gtk = None
    /\ polls = 0 /\ keys = {} /\ toSta = {} /\ toAp = {}
    /\ \E g \in Gtks \cup {None} :
          ap = [phase |-> "msg1", nonce |-> 1, sends |-> 0, awaited |-> {}, gtk |-> g]

Supplicant == Join \/ PollIdle \/ PollFrame \/ PollsOver \/ InstallPairwise \/ InstallGroup

Next ==
    \/ Join \/ PollIdle \/ PollFrame \/ PollsOver
    \/ InstallPairwise \/ InstallGroup
    \/ ApSend \/ ApRestart \/ ApGivesUp \/ ApReceive
    \/ LoseToSta \/ LoseToAp

Spec == Init /\ [][Next]_vars
FairSpec == Spec /\ WF_vars(Supplicant)

(***************************************************************************)
(* What a finished handshake is worth.                                     *)
(***************************************************************************)

Passes == {ApPass} \cup {j.pass : j \in Joins}
Ptk == [pass : Passes, anonce : Nat]
FrameToSta ==
    [m : {1, 3}, anonce : Nat, replay : Nat, mic : Ptk \cup {None}, gtk : Gtks \cup {None}]

ApState ==
    [phase : {"msg1", "msg3", "done", "off"}, nonce : Nat, sends : Nat,
     awaited : SUBSET Nat, gtk : Gtks \cup {None}]

\* Every variable keeps its type.
TypeOK ==
    /\ how \in Joins
    /\ pc \in {"join", "poll", "pairwise", "group", "up", "failed"}
    /\ wpa_state \in 0 .. 3
    /\ ptk \in Ptk \cup {None}
    /\ replay \in Nat
    /\ gtk \in Gtks \cup {None}
    /\ polls \in 0 .. WPA_POLLS
    /\ keys \subseteq ({"pairwise"} \X Ptk) \cup ({"group"} \X Gtks)
    /\ toSta \subseteq FrameToSta
    /\ toAp \subseteq [m : {2, 4}, replay : Nat, mic : Ptk]
    /\ ap \in ApState

\* A handshake is finished, and a key installed, only under the right
\* passphrase, with a pairwise key made from a nonce of the access point and
\* with the group key it sent, never with what an unauthenticated frame
\* carried; and when the access point has finished too, both sides hold the
\* same pairwise key.
KeysAreGenuine ==
    /\ wpa_state = 3 =>
        /\ how.pass = ApPass
        /\ ptk.anonce <= ap.nonce
        /\ gtk = ap.gtk
    /\ \A k \in keys :
        k = <<"pairwise", PTK(ApPass, ptk.anonce)>> \/ k = <<"group", ap.gtk>>
    /\ ap.phase = "done" => wpa_state = 3 /\ ptk = PTK(ApPass, ap.nonce)

\* Although the replay counter is stored before the MIC of its frame is
\* checked, an answer always carries the counter of a frame of the handshake
\* whose key it is computed with: msg4 that of a msg3 the access point sent.
Msg4EchoesMsg3 ==
    \A f \in toAp :
        f.m = 4 /\ f.mic = PTK(ApPass, ap.nonce) /\ ap.phase = "msg3"
            => f.replay \in ap.awaited

\* The link is up on a protected network only after the handshake, with the
\* pairwise key installed.
UpIsKeyed ==
    pc = "up" /\ how.privacy => wpa_state = 3 /\ <<"pairwise", ptk>> \in keys

\* A supplicant that has finished holds the key of the handshake the access
\* point is in, whose msg2 has reached it.  The exception is an access point that
\* has started over since: nothing compares the nonce or the counter of a msg3
\* with those of the frames before it (wljoin/main.c:244, 269), so a delayed msg3
\* of the handshake before still finishes, with a key that is of no use any more.
Superseded == ptk.anonce < ap.nonce
KeysAreCurrent ==
    wpa_state = 3 /\ ~ Superseded => ptk = PTK(ApPass, ap.nonce) /\ ap.phase # "msg1"

\* All at once, which is what a join is for: whatever frames and calls were
\* lost, the keys in the radio come from the access point, a link that is up has
\* them (wljoin/main.c:380), and both sides hold the same pairwise key unless the
\* access point has started over since.
JoinIsKeyed == KeysAreGenuine /\ KeysAreCurrent /\ UpIsKeyed

AnswerLost ==
    /\ wpa_state = 2
    /\ ap.phase = "msg1"
    /\ \A f \in toAp : f.m # 2
    /\ \A f \in toSta : f.m # 3

\* The first msg2 is the only one: when it is lost the access point repeats
\* msg1 in vain, and no later frame completes the handshake.
LostMsg2IsFinal == [](AnswerLost => [](wpa_state # 3))

-----------------------------------------------------------------------------
(* What carries these properties through a step: what the frames in flight *)
(* and the two sides know of each other.                                   *)

\* A frame of the access point is from a handshake it has begun; a msg3 is
\* signed with that handshake's key, and while the handshake is the current
\* one its counter is awaited.
FramesToSta ==
    \A f \in toSta :
        /\ f.anonce <= ap.nonce
        /\ f.m = 1 => f.mic = None
        /\ f.m = 3 => f.mic = PTK(ApPass, f.anonce) /\ f.gtk = ap.gtk
        /\ f.m = 3 /\ f.anonce = ap.nonce =>
                /\ ap.phase # "msg1"
                /\ ap.phase = "msg3" => f.replay \in ap.awaited

\* An answer carries the one pairwise key there ever is.
FramesToAp ==
    \A f \in toAp :
        /\ wpa_state >= 2
        /\ f.mic = ptk
        /\ f.m = 4 => wpa_state = 3

Handshake ==
    /\ wpa_state \in {0, 1} <=> ptk = None
    /\ wpa_state # 3 => gtk = None
    /\ wpa_state >= 2 => ptk.pass = how.pass /\ ptk.anonce <= ap.nonce
    /\ wpa_state = 3 /\ ptk.anonce = ap.nonce => ap.phase # "msg1"

\* The order of connect_ap.
Progress ==
    /\ pc = "join" => wpa_state = 0
    /\ pc = "poll" => wpa_state # 0
    /\ wpa_state # 0 => how.privacy
    /\ pc \in {"pairwise", "group"} => wpa_state = 3
    /\ pc = "group" => gtk # None /\ <<"pairwise", ptk>> \in keys
    /\ keys # {} => pc \in {"group", "up"}

\* Everything the two sides and the frames in flight know fits together.
WljoinInv ==
    /\ TypeOK
    /\ KeysAreGenuine
    /\ Msg4EchoesMsg3
    /\ UpIsKeyed
    /\ FramesToSta
    /\ FramesToAp
    /\ Handshake
    /\ Progress

-----------------------------------------------------------------------------
\* Whatever the link does to the frames, wljoin comes to an end.
JoinEnds == <>(pc \in {"up", "failed"})
=============================================================================
