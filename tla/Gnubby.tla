------------------------------- MODULE Gnubby -------------------------------
(***************************************************************************)
(* util/signer/gnubby.cc: Gnubby::sign() goes through the list of USB        *)
(* devices and asks every gnubby in it to sign.  A device is opened, claimed, *)
(* locked, asked, unlocked, released and closed; each of these may fail.      *)
(* doSign() gives up behind its second question, as rsa is nullptr (388):     *)
(* PIN, token and signature requests cannot be reached and are left out.      *)
(***************************************************************************)
EXTENDS Integers, Sequences

VARIABLES
    pc,        \* position in sign() and doSign()
    at,        \* i, from 1; 0: there is no device list
    handle_,   \* the device handle_ was opened on, or NULL
    rc,        \* what doSign() returned last
    usb        \* the devices, in the order of the list
vars == <<pc, at, handle_, rc, usb>>

NULL == 0

(* "other": not a gnubby, or its descriptor cannot be read.  "busy": somebody *)
(* else has claimed or locked it.  "flaky": anything may fail.  "mute": it    *)
(* takes a command and never answers.                                         *)
Kinds == {"good", "other", "busy", "flaky", "mute"}
Plugged(kinds) ==
    [d \in DOMAIN kinds |-> [kind |-> kinds[d], opens |-> 0, claimed |-> FALSE,
                             locked |-> FALSE, asked |-> FALSE]]
isGnubby(d) == usb[d].kind # "other"

(* Gnubby::Gnubby(), then libusb_get_device_list().  Nobody looks at their    *)
(* results: without a list, device_list has no value when it is freed.        *)
get_device_list ==
    /\ pc = "list"
    /\ \/ pc' = "next" /\ at' = 1
       \/ pc' \in {"free", "crash"} /\ UNCHANGED at
    /\ UNCHANGED <<handle_, rc, usb>>

next_device ==
    /\ pc = "next" /\ at <= Len(usb)
    /\ \/ /\ isGnubby(at)
          /\ usb' = [usb EXCEPT ![at].opens = @ + 1]
          /\ handle_' = at /\ pc' = "claim"
          /\ UNCHANGED at
       \/ /\ usb[at].kind \in {"other", "flaky"}
          /\ at' = at + 1
          /\ UNCHANGED <<pc, handle_, usb>>
    /\ UNCHANGED rc

claimed ==
    /\ pc = "claim" /\ pc' = "lock"
    /\ usb' = [usb EXCEPT ![at].claimed = TRUE]
    /\ UNCHANGED <<at, handle_, rc>>
NotClaimed == pc = "claim" /\ usb[at].kind \in {"busy", "flaky"}
(* Mutant: handle_ is left as it is. *)
claim_interface_dangling ==
    \/ claimed
    \/ /\ NotClaimed /\ pc' = "next" /\ at' = at + 1
       /\ usb' = [usb EXCEPT ![handle_].opens = @ - 1]
       /\ UNCHANGED <<handle_, rc>>
(* Mutant: a device that is not to be had ends the search. *)
claim_interface_break ==
    \/ claimed
    \/ /\ NotClaimed /\ pc' = "free"
       /\ usb' = [usb EXCEPT ![handle_].opens = @ - 1]
       /\ handle_' = NULL /\ UNCHANGED <<at, rc>>
(* Mutant: the same device is tried again. *)
claim_interface_retried ==
    \/ claimed
    \/ /\ NotClaimed /\ pc' = "next"
       /\ usb' = [usb EXCEPT ![handle_].opens = @ - 1]
       /\ handle_' = NULL /\ UNCHANGED <<at, rc>>
claim_interface ==
    \/ claimed
    \/ /\ NotClaimed /\ pc' = "next" /\ at' = at + 1
       /\ usb' = [usb EXCEPT ![handle_].opens = @ - 1]
       /\ handle_' = NULL /\ UNCHANGED rc

-----------------------------------------------------------------------------
(* gnubby_exchange(): a command and the answer to it.  The transfers have no  *)
(* timeout, so that a mute device is waited for without end.  An answer is no *)
(* answer if its first five bytes are not the command's.                      *)
Answers(d) ==
    CASE usb[d].kind = "good" -> {"ok", "refused"}
      [] usb[d].kind = "busy" -> {"refused"}
      [] usb[d].kind = "flaky" -> {"ok", "refused", "unsent", "unanswered"}
      [] usb[d].kind = "mute" -> {}
Obeyed == {"ok", "unanswered"}
Answered == {"ok", "refused"}
(* Nobody else has locked a good device.  That a lock runs out after its 100  *)
(* seconds is left out, so that one left behind shows.                        *)
LockAnswers(d) == IF usb[d].kind = "good" THEN {"ok"} ELSE Answers(d)

(* gnubby_lock(handle_, 100): any answer but an empty one or 0 is an error. *)
lock ==
    /\ pc = "lock"
    /\ \E a \in LockAnswers(handle_) :
          /\ usb' = [usb EXCEPT ![handle_].locked = @ \/ a \in Obeyed]
          /\ rc' = IF a = "ok" THEN 0 ELSE -1
          /\ pc' = IF a = "ok" THEN "select" ELSE "unlock"
    /\ UNCHANGED <<at, handle_>>

(* gnubby_apdu(): its result is an error only without an answer; a refusal    *)
(* is in the status word.                                                      *)
apdu(a) ==
    /\ a \in Answers(handle_)
    /\ usb' = [usb EXCEPT ![handle_].asked = @ \/ a # "unsent"]
    /\ rc' = IF a \in Answered THEN 0 ELSE -1
    /\ UNCHANGED <<at, handle_>>
select == pc = "select" /\ apdu("ok") /\ pc' = "read"
not_selected == pc = "select" /\ \E a \in Answers(handle_) \ {"ok"} : apdu(a) /\ pc' = "unlock"
read_slot == pc = "read" /\ \E a \in Answers(handle_) : apdu(a) /\ pc' = "unlock"

(* __fail: unlock, whatever comes of it. *)
(* Mutant: the label is behind the unlocking. *)
unlock_unless_failed ==
    /\ pc = "unlock" /\ pc' = "close"
    /\ IF rc = 1
       THEN \E a \in LockAnswers(handle_) :
               usb' = [usb EXCEPT ![handle_].locked = @ /\ a \notin Obeyed]
       ELSE UNCHANGED usb
    /\ UNCHANGED <<at, handle_, rc>>
unlock ==
    /\ pc = "unlock" /\ pc' = "close"
    /\ \E a \in LockAnswers(handle_) :
          usb' = [usb EXCEPT ![handle_].locked = @ /\ a \notin Obeyed]
    /\ UNCHANGED <<at, handle_, rc>>

Closed == [usb EXCEPT ![handle_].claimed = FALSE, ![handle_].opens = @ - 1]
close ==
    /\ pc = "close"
    /\ usb' = Closed /\ handle_' = NULL
    /\ IF rc = 1 THEN pc' = "free" /\ UNCHANGED at
                 ELSE pc' = "next" /\ at' = at + 1
    /\ UNCHANGED rc

(* libusb_free_device_list(), then Gnubby::~Gnubby(). *)
free ==
    /\ pc = "free" \/ (pc = "next" /\ at > Len(usb))
    /\ pc' = "ended"
    /\ usb' = IF handle_ # NULL THEN Closed ELSE usb
    /\ UNCHANGED <<at, handle_, rc>>

Next ==
    \/ get_device_list \/ next_device \/ claim_interface
    \/ lock \/ select \/ not_selected \/ read_slot \/ unlock
    \/ close \/ free

-----------------------------------------------------------------------------
(* Properties.                                                               *)

(* One device is open at a time, the one of handle_, and no other is claimed; *)
(* after the session none is, so that nothing was closed twice or forgotten,  *)
(* on whichever device sign() failed.                                         *)
HandlesBalanced ==
    \A d \in DOMAIN usb :
        /\ usb[d].opens = IF pc # "ended" /\ handle_ = d THEN 1 ELSE 0
        /\ usb[d].claimed => pc # "ended" /\ handle_ = d

(* A gnubby that answers is not left locked, for 100 seconds, to anybody      *)
(* else, whatever doSign() failed on: __fail unlocks.                          *)
NotLeftLocked ==
    \A d \in DOMAIN usb :
        usb[d].locked /\ usb[d].kind = "good" =>
            handle_ = d /\ pc \in {"select", "read", "unlock"}

(* A session that had a list and ends without a signature has asked every     *)
(* good gnubby in it: no device before it kept it from that.                  *)
EveryTokenAsked ==
    pc = "ended" /\ at > 0 /\ rc # 1 =>
        \A d \in DOMAIN usb : usb[d].kind = "good" => usb[d].asked
=============================================================================
