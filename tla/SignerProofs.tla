---------------------------- MODULE SignerProofs ----------------------------
(***************************************************************************)
(* The signer's session with the gnubbies, for any number of USB devices of  *)
(* any kind in any order; its array of fuses and the loader's, for every     *)
(* manifest, every width and every chip; the digest of its output, for every *)
(* ELF file and command line.                                                *)
(***************************************************************************)
EXTENDS Signer, SequenceTheorems, WellFoundedInduction, TLAPS

-----------------------------------------------------------------------------
(* The array of fuses (FuseManifest).                                        *)

(* Every fuse of the list has a number of its own. *)
Numbered(nums) ==
    \A f, g \in DOMAIN nums : nums[f].index \in Nat /\ (nums[f].index = nums[g].index => f = g)

(* A chip's fuse holds no bits but its own. *)
Chip(chip) == \A f \in Nat : BlownBits(chip, f) \subseteq Mask(FuseField(f))

(* The array hash_region() fills (SignedHeader's fuse_array) on this chip.   *)
LoaderArray(chip, marks, ignore) ==
    [i \in 0 .. FUSE_MAX - 1 |-> IF i \in marks THEN efuse_of(chip)[i] ELSE ignore]

-----------------------------------------------------------------------------
(* The padding above a value does not hide a difference in the value. *)
LEMMA PaddedInjective ==
    ASSUME NEW mask, NEW a \in SUBSET mask, NEW b \in SUBSET mask
    PROVE  (FusePad \ mask) \cup a = (FusePad \ mask) \cup b <=> a = b
OBVIOUS

(* What the signer puts at the number of a fuse of the manifest: its value,   *)
(* padded above the width.                                                    *)
SignedAt(place, value, word) ==
    /\ place.index \in 0 .. FUSE_MAX - 1
    /\ value \subseteq Mask(<<0, place.width>>)
    /\ word = (FusePad \ Mask(<<0, place.width>>)) \cup value

LEMMA SignedWord ==
    ASSUME NEW fuses, NEW nums, NEW ignore, Numbered(nums), fuses_accepted(fuses, nums)
    PROVE  \A f \in DOMAIN fuses :
              SignedAt(nums[f], fuses[f], fuse_values(fuses, nums, ignore)[nums[f].index])
<1> TAKE f \in DOMAIN fuses
<1>1. DOMAIN fuses \subseteq DOMAIN nums
  BY DEF fuses_accepted
<1>2. /\ nums[f].index \in Nat /\ nums[f].index < FUSE_MAX
      /\ fuses[f] \subseteq Mask(<<0, nums[f].width>>)
  BY <1>1 DEF Numbered, fuses_accepted
<1>3. nums[f].index \in 0 .. FUSE_MAX - 1
  BY <1>2 DEF FUSE_MAX
<1>4. (CHOOSE g \in DOMAIN fuses : nums[g].index = nums[f].index) = f
  BY <1>1 DEF Numbered
<1>5. nums[f].index \in markFuse(fuses, nums)
  BY DEF markFuse
<1>6. QED
  BY <1>2, <1>3, <1>4, <1>5 DEF fuse_values, SignedAt

(* What the loader reads at a place of the list is the padded value exactly if *)
(* the chip has the value there.                                               *)
LEMMA ValueAtPlace ==
    ASSUME NEW chip, Chip(chip), NEW place, place.index \in 0 .. FUSE_MAX - 1,
           NEW value, value \subseteq Mask(<<0, place.width>>)
    PROVE  efuse_of(chip)[place.index] = (FusePad \ Mask(<<0, place.width>>)) \cup value
              <=> HasValue(chip, place, value)
<1>1. CASE place.index < FuseCount /\ place.width = FuseWidth[place.index + 1]
  <2> DEFINE mask == Mask(<<0, place.width>>)
             blown == BlownBits(chip, place.index)
  <2>1. FuseField(place.index) = <<0, place.width>> /\ place.index \in Nat
    BY <1>1 DEF FuseField
  <2>2. efuse_of(chip)[place.index] = (FusePad \ mask) \cup blown
    BY <1>1, <2>1 DEF efuse_of, FuseWord
  <2>3. blown \in SUBSET mask /\ value \in SUBSET mask
    BY <2>1 DEF Chip
  <2>4. HasValue(chip, place, value) <=> blown = value
    BY <1>1 DEF HasValue
  <2> HIDE DEF mask, blown
  <2>5. (FusePad \ mask) \cup blown = (FusePad \ mask) \cup value <=> blown = value
    BY <2>3, PaddedInjective
  <2>6. QED
    BY <2>2, <2>4, <2>5 DEF mask
<1>2. CASE ~(place.index < FuseCount /\ place.width = FuseWidth[place.index + 1])
  BY <1>2 DEF HasValue
<1>3. QED
  BY <1>1, <1>2

(* The array an image is signed for is the array the loader reads exactly on *)
(* the chips that have the values of the manifest, each at its fuse's place   *)
(* in the list (codesigner.cc's fuse_values, hash_region in jump.c).          *)
THEOREM SignedForTheseFuses ==
    ASSUME NEW fuses, NEW nums, NEW chip, NEW ignore,
           Numbered(nums), fuses_accepted(fuses, nums), Chip(chip)
    PROVE  fuse_values(fuses, nums, ignore)
                = LoaderArray(chip, markFuse(fuses, nums), ignore)
           <=> \A f \in DOMAIN fuses : HasValue(chip, nums[f], fuses[f])
<1> DEFINE signed == fuse_values(fuses, nums, ignore)
           read == LoaderArray(chip, markFuse(fuses, nums), ignore)
           marks == markFuse(fuses, nums)
<1>1. ASSUME NEW f \in DOMAIN fuses
      PROVE  /\ nums[f].index \in marks /\ nums[f].index \in 0 .. FUSE_MAX - 1
             /\ signed[nums[f].index] = read[nums[f].index] <=> HasValue(chip, nums[f], fuses[f])
  <2> DEFINE place == nums[f]
  <2> HIDE DEF signed, place
  <2>1. /\ place.index \in 0 .. FUSE_MAX - 1
        /\ fuses[f] \subseteq Mask(<<0, place.width>>)
        /\ signed[place.index] = (FusePad \ Mask(<<0, place.width>>)) \cup fuses[f]
    <3>1. SignedAt(place, fuses[f], signed[place.index])
      BY SignedWord DEF signed, place
    <3>2. QED
      BY <3>1 DEF SignedAt
  <2>2. place.index \in marks
    BY DEF markFuse, place
  <2>3. read[place.index] = efuse_of(chip)[place.index]
    BY <2>1, <2>2 DEF LoaderArray
  <2> HIDE DEF read
  <2>4. efuse_of(chip)[place.index] = (FusePad \ Mask(<<0, place.width>>)) \cup fuses[f]
           <=> HasValue(chip, place, fuses[f])
    BY <2>1, ValueAtPlace
  <2>5. signed[place.index] = read[place.index] <=> HasValue(chip, place, fuses[f])
    BY <2>1, <2>3, <2>4
  <2>6. QED
    BY <2>1, <2>2, <2>5 DEF place
<1>2. \A i \in (0 .. FUSE_MAX - 1) \ marks : signed[i] = ignore /\ read[i] = ignore
  BY DEF fuse_values, LoaderArray
<1>3. \A i \in marks : \E f \in DOMAIN fuses : i = nums[f].index
  BY DEF markFuse
<1>4. signed = read <=> \A i \in 0 .. FUSE_MAX - 1 : signed[i] = read[i]
  BY DEF fuse_values, LoaderArray
<1> HIDE DEF signed, read, marks
<1>5. signed = read <=> \A f \in DOMAIN fuses : HasValue(chip, nums[f], fuses[f])
  BY <1>1, <1>2, <1>3, <1>4
<1>6. QED
  BY <1>5 DEF signed, read

-----------------------------------------------------------------------------
(* The session (util/signer/gnubby.cc).                                      *)

Device == [kind : Token!Kinds, opens : Int, claimed : BOOLEAN, locked : BOOLEAN, asked : BOOLEAN]
OnDevice == {"claim", "lock", "select", "read", "unlock", "close"}
Afterwards == {"next", "free", "ended", "crash"}
BeforeSession == {"options", "key", "elf", "fill", "xml", "header", "sign"}

(* The session begins when sign() hands over to it. *)
NotYet == pc \in BeforeSession => gpc = "none"
(* handle_ is the device the loop is at, or nothing is open. *)
Places ==
    /\ usb \in Seq(Device) /\ at \in 0 .. Len(usb) + 1 /\ rc \in {-1, 0}
    /\ gpc \in {"none", "list"} \cup OnDevice \cup Afterwards
    /\ IF gpc \in OnDevice
       THEN handle_ = at /\ at \in 1 .. Len(usb) /\ usb[at].kind # "other"
       ELSE handle_ = Token!NULL
    /\ gpc \in {"none", "list", "free", "crash"} => at = 0
    /\ gpc = "next" => at > 0
    /\ gpc = "ended" => at \in {0, Len(usb) + 1}
(* What is open, claimed or locked is the device the loop is at. *)
OneDevice ==
    \A d \in 1 .. Len(usb) :
        /\ usb[d].opens = IF handle_ = d THEN 1 ELSE 0
        /\ usb[d].claimed => handle_ = d /\ gpc # "claim"
        /\ usb[d].locked /\ usb[d].kind = "good" =>
              handle_ = d /\ gpc \in {"select", "read", "unlock"}
(* Every good device before it was asked, and it too once it was selected. *)
AskedBefore ==
    \A d \in 1 .. Len(usb) :
        usb[d].kind = "good" =>
            /\ d < at => usb[d].asked
            /\ d = at /\ gpc \in {"read", "unlock", "close"} => usb[d].asked
TokenInv == Places /\ OneDevice /\ AskedBefore
SessionInv == NotYet /\ TokenInv

LEMMA PluggedIn ==
    ASSUME NEW kinds \in Seq(Token!Kinds)
    PROVE  /\ Token!Plugged(kinds) \in Seq(Device)
           /\ \A d \in 1 .. Len(Token!Plugged(kinds)) :
                 /\ Token!Plugged(kinds)[d].opens = 0
                 /\ ~Token!Plugged(kinds)[d].claimed
                 /\ ~Token!Plugged(kinds)[d].locked
<1>1. DOMAIN kinds = 1 .. Len(kinds) /\ Len(kinds) \in Nat
  OBVIOUS
<1>2. Token!Plugged(kinds) \in [1 .. Len(kinds) -> Device]
  BY <1>1 DEF Token!Plugged, Device
<1>3. Token!Plugged(kinds) \in Seq(Device) /\ Len(Token!Plugged(kinds)) = Len(kinds)
  BY <1>1, <1>2
<1>4. QED
  BY <1>1, <1>3 DEF Token!Plugged

LEMMA SessionInit == Init => SessionInv
<1> SUFFICES ASSUME Init PROVE SessionInv
  OBVIOUS
<1>1. run.usb \in Seq(Token!Kinds)
  BY DevicesAssumption DEF Init
<1>2. usb \in Seq(Device) /\ \A d \in 1 .. Len(usb) :
        usb[d].opens = 0 /\ ~usb[d].claimed /\ ~usb[d].locked
  BY <1>1, PluggedIn DEF Init
<1>3. QED
  BY <1>2 DEF Init, SessionInv, TokenInv, NotYet, BeforeSession, Places, OnDevice, Afterwards, OneDevice,
      AskedBefore, Token!NULL

(* A step on one device leaves the list as it is otherwise. *)
LEMMA OnOneDevice ==
    ASSUME usb \in Seq(Device), NEW i \in 1 .. Len(usb), NEW dev \in Device,
           usb' = [usb EXCEPT ![i] = dev]
    PROVE  /\ usb' \in Seq(Device) /\ Len(usb') = Len(usb)
           /\ usb'[i] = dev
           /\ \A d \in 1 .. Len(usb) : d # i => usb'[d] = usb[d]
  OBVIOUS

LEMMA DeviceFields ==
    ASSUME NEW dev \in Device
    PROVE  /\ dev.kind \in Token!Kinds /\ dev.opens \in Int
           /\ {dev.claimed, dev.locked, dev.asked} \subseteq BOOLEAN
           /\ \A n \in Int : [dev EXCEPT !.opens = n] \in Device
           /\ \A b \in BOOLEAN : /\ [dev EXCEPT !.claimed = b] \in Device
                                 /\ [dev EXCEPT !.locked = b] \in Device
                                 /\ [dev EXCEPT !.asked = b] \in Device
           /\ \A b \in BOOLEAN, n \in Int : [dev EXCEPT !.claimed = b, !.opens = n] \in Device
  BY DEF Device

(* A step of the session on the device at hand: what remains to be shown of  *)
(* it is what becomes of that device.                                         *)
LEMMA AtHand ==
    ASSUME TokenInv, gpc \in OnDevice
    PROVE  /\ handle_ = at /\ at \in 1 .. Len(usb) /\ usb[at] \in Device
           /\ usb[at].kind # "other" /\ usb[at].opens = 1 /\ rc \in {-1, 0}
  BY DEF TokenInv, Places, OneDevice

LEMMA Listed == TokenInv /\ Token!get_device_list => TokenInv'
  BY DEF TokenInv, Places, OneDevice, AskedBefore, Token!get_device_list, OnDevice, Afterwards,
     Token!NULL, Device

LEMMA NextDevice == TokenInv /\ Token!next_device => TokenInv'
<1> SUFFICES ASSUME TokenInv, Token!next_device PROVE TokenInv'
  OBVIOUS
<1>0. /\ gpc = "next" /\ at \in 1 .. Len(usb) /\ rc' = rc /\ rc \in {-1, 0} /\ handle_ = 0
      /\ usb \in Seq(Device) /\ usb[at] \in Device
  BY DEF TokenInv, Places, Token!next_device, OnDevice, Afterwards, Token!NULL
<1>1. CASE usb' = [usb EXCEPT ![at].opens = @ + 1] /\ handle_' = at /\ gpc' = "claim" /\ at' = at
           /\ usb[at].kind # "other"
  <2> DEFINE dev == [usb[at] EXCEPT !.opens = usb[at].opens + 1]
  <2>a. dev \in Device
    BY <1>0 DEF Device
  <2>b. usb' = [usb EXCEPT ![at] = dev]
    BY <1>0, <1>1
  <2>1. dev \in Device /\ usb' = [usb EXCEPT ![at] = dev]
    BY <2>a, <2>b
  <2>2. /\ usb' \in Seq(Device) /\ Len(usb') = Len(usb) /\ usb'[at] = dev
        /\ \A d \in 1 .. Len(usb) : d # at => usb'[d] = usb[d]
    BY <1>0, <2>1, OnOneDevice
  <2>3. /\ dev.kind = usb[at].kind /\ dev.opens = 1 /\ dev.claimed = usb[at].claimed
        /\ dev.locked = usb[at].locked /\ dev.asked = usb[at].asked
    BY <1>0 DEF Device, TokenInv, OneDevice
  <2> HIDE DEF dev
  <2>4. Places'
    BY <1>0, <1>1, <2>2, <2>3 DEF Places, OnDevice, Afterwards
  <2>5. OneDevice'
    BY <1>0, <1>1, <2>2, <2>3 DEF TokenInv, OneDevice
  <2>6. AskedBefore'
    BY <1>0, <1>1, <2>2, <2>3 DEF TokenInv, AskedBefore
  <2>7. QED
    BY <2>4, <2>5, <2>6 DEF TokenInv
<1>2. CASE usb[at].kind \in {"other", "flaky"} /\ at' = at + 1 /\ UNCHANGED <<gpc, handle_, usb>>
  <2>1. Places'
    BY <1>0, <1>2 DEF TokenInv, Places, OnDevice, Afterwards, Token!NULL
  <2>2. OneDevice' /\ AskedBefore'
    BY <1>0, <1>2 DEF TokenInv, OneDevice, AskedBefore
  <2>3. QED
    BY <2>1, <2>2 DEF TokenInv
<1>3. QED
  BY <1>0, <1>1, <1>2 DEF Token!next_device, Token!isGnubby

LEMMA Claim == TokenInv /\ Token!claim_interface => TokenInv'
<1> SUFFICES ASSUME TokenInv, Token!claim_interface PROVE TokenInv'
  OBVIOUS
<1>0. /\ gpc = "claim" /\ at \in 1 .. Len(usb) /\ handle_ = at /\ rc' = rc /\ rc \in {-1, 0}
      /\ usb \in Seq(Device) /\ usb[at] \in Device /\ usb[at].kind # "other" /\ usb[at].opens = 1
  BY AtHand DEF TokenInv, Places, Token!claim_interface, Token!claimed, Token!NotClaimed, OnDevice
<1>1. CASE Token!claimed
  <2> DEFINE dev == [usb[at] EXCEPT !.claimed = TRUE]
  <2>a. dev \in Device
    BY <1>0 DEF Device
  <2>b. usb' = [usb EXCEPT ![at] = dev]
    BY <1>0, <1>1 DEF Token!claimed
  <2>1. dev \in Device /\ usb' = [usb EXCEPT ![at] = dev]
    BY <2>a, <2>b
  <2>2. /\ usb' \in Seq(Device) /\ Len(usb') = Len(usb) /\ usb'[at] = dev
        /\ \A d \in 1 .. Len(usb) : d # at => usb'[d] = usb[d]
    BY <1>0, <2>1, OnOneDevice
  <2>3. /\ dev.kind = usb[at].kind /\ dev.opens = 1
        /\ dev.locked = usb[at].locked /\ dev.asked = usb[at].asked
    BY <1>0 DEF Device
  <2> HIDE DEF dev
  <2>4. gpc' = "lock" /\ at' = at /\ handle_' = at
    BY <1>0, <1>1 DEF Token!claimed
  <2>5. Places'
    BY <1>0, <2>2, <2>3, <2>4 DEF Places, OnDevice, Afterwards
  <2>6. OneDevice' /\ AskedBefore'
    BY <1>0, <2>2, <2>3, <2>4 DEF TokenInv, OneDevice, AskedBefore
  <2>7. QED
    BY <2>5, <2>6 DEF TokenInv
<1>2. CASE Token!NotClaimed /\ gpc' = "next" /\ at' = at + 1
           /\ usb' = [usb EXCEPT ![handle_].opens = @ - 1]
           /\ handle_' = Token!NULL
  <2> DEFINE dev == [usb[at] EXCEPT !.opens = usb[at].opens - 1]
  <2>a. dev \in Device
    BY <1>0 DEF Device
  <2>b. usb' = [usb EXCEPT ![at] = dev]
    BY <1>0, <1>2
  <2>1. dev \in Device /\ usb' = [usb EXCEPT ![at] = dev]
    BY <2>a, <2>b
  <2>2. /\ usb' \in Seq(Device) /\ Len(usb') = Len(usb) /\ usb'[at] = dev
        /\ \A d \in 1 .. Len(usb) : d # at => usb'[d] = usb[d]
    BY <1>0, <2>1, OnOneDevice
  <2>3. /\ dev.kind = usb[at].kind /\ dev.opens = 0 /\ dev.claimed = usb[at].claimed
        /\ dev.locked = usb[at].locked /\ dev.asked = usb[at].asked
    BY <1>0 DEF Device
  <2> HIDE DEF dev
  <2>4. usb[at].kind # "good"
    BY <1>2, <1>0 DEF Token!NotClaimed
  <2>5. Places'
    BY <1>0, <1>2, <2>2, <2>3 DEF Places, OnDevice, Afterwards, Token!NULL
  <2>6. OneDevice'
    BY <1>0, <1>2, <2>2, <2>3 DEF TokenInv, OneDevice, Token!NULL
  <2>7. AskedBefore'
    BY <1>0, <1>2, <2>2, <2>3, <2>4 DEF TokenInv, AskedBefore
  <2>8. QED
    BY <2>5, <2>6, <2>7 DEF TokenInv
<1>3. QED
  BY <1>0, <1>1, <1>2 DEF Token!claim_interface

(* Three steps put an answer's outcome into one field of the device. *)
LEMMA Lock == TokenInv /\ Token!lock => TokenInv'
<1> SUFFICES ASSUME TokenInv, Token!lock PROVE TokenInv'
  OBVIOUS
<1>0. /\ gpc = "lock" /\ at \in 1 .. Len(usb) /\ handle_ = at
      /\ usb \in Seq(Device) /\ usb[at] \in Device /\ usb[at].kind # "other" /\ usb[at].opens = 1
  BY AtHand DEF TokenInv, Places, Token!lock, OnDevice
<1>1. PICK a \in Token!LockAnswers(at) :
        /\ usb' = [usb EXCEPT ![at].locked = @ \/ a \in Token!Obeyed]
        /\ rc' = IF a = "ok" THEN 0 ELSE -1
        /\ gpc' = IF a = "ok" THEN "select" ELSE "unlock"
  BY <1>0 DEF Token!lock
<1>2. at' = at /\ handle_' = at /\ rc' \in {-1, 0} /\ gpc' \in {"select", "unlock"}
  BY <1>0, <1>1 DEF Token!lock
<1>3. usb[at].kind = "good" => gpc' = "select"
  BY <1>1 DEF Token!LockAnswers
<1> DEFINE b == usb[at].locked \/ a \in Token!Obeyed
           dev == [usb[at] EXCEPT !.locked = b]
<1>4. usb' = [usb EXCEPT ![at] = dev]
  BY <1>0, <1>1
<1>5. b \in BOOLEAN
  BY <1>0 DEF Device
<1> HIDE DEF b
<1>6. /\ dev \in Device /\ dev.kind = usb[at].kind /\ dev.opens = 1
      /\ dev.claimed = usb[at].claimed /\ dev.asked = usb[at].asked
  BY <1>0, <1>5 DEF Device
<1> HIDE DEF dev
<1>7. /\ usb' \in Seq(Device) /\ Len(usb') = Len(usb) /\ usb'[at] = dev
      /\ \A d \in 1 .. Len(usb) : d # at => usb'[d] = usb[d]
  BY <1>0, <1>4, <1>6, OnOneDevice
<1>8. Places'
  BY <1>0, <1>2, <1>6, <1>7 DEF Places, OnDevice, Afterwards
<1>9. OneDevice'
  BY <1>0, <1>2, <1>3, <1>6, <1>7 DEF TokenInv, OneDevice
<1>10. AskedBefore'
  BY <1>0, <1>1, <1>2, <1>3, <1>6, <1>7 DEF TokenInv, AskedBefore
<1>11. QED
  BY <1>8, <1>9, <1>10 DEF TokenInv

LEMMA Apdu ==
    ASSUME TokenInv, gpc \in {"select", "read"}, NEW a, Token!apdu(a),
           gpc' \in {"read", "unlock"}
    PROVE  TokenInv'
<1>0. /\ at \in 1 .. Len(usb) /\ handle_ = at
      /\ usb \in Seq(Device) /\ usb[at] \in Device /\ usb[at].kind # "other" /\ usb[at].opens = 1
  BY AtHand DEF TokenInv, Places, OnDevice
<1>1. /\ a \in Token!Answers(at)
      /\ usb' = [usb EXCEPT ![at].asked = @ \/ a # "unsent"]
      /\ at' = at /\ handle_' = at /\ rc' \in {-1, 0}
  BY <1>0 DEF Token!apdu
<1>3. usb[at].kind = "good" => a # "unsent"
  BY <1>1 DEF Token!Answers
<1> DEFINE b == usb[at].asked \/ a # "unsent"
           dev == [usb[at] EXCEPT !.asked = b]
<1>4. usb' = [usb EXCEPT ![at] = dev]
  BY <1>0, <1>1
<1>5. b \in BOOLEAN /\ (usb[at].kind = "good" => b)
  BY <1>0, <1>3 DEF Device
<1> HIDE DEF b
<1>6. /\ dev \in Device /\ dev.kind = usb[at].kind /\ dev.opens = 1 /\ dev.asked = b
      /\ dev.claimed = usb[at].claimed /\ dev.locked = usb[at].locked
  BY <1>0, <1>5 DEF Device
<1> HIDE DEF dev
<1>7. /\ usb' \in Seq(Device) /\ Len(usb') = Len(usb) /\ usb'[at] = dev
      /\ \A d \in 1 .. Len(usb) : d # at => usb'[d] = usb[d]
  BY <1>0, <1>4, <1>6, OnOneDevice
<1>8. Places'
  BY <1>0, <1>1, <1>6, <1>7 DEF Places, OnDevice, Afterwards
<1>9. OneDevice'
  BY <1>0, <1>1, <1>6, <1>7 DEF TokenInv, OneDevice
<1>10. AskedBefore'
  BY <1>0, <1>1, <1>5, <1>6, <1>7 DEF TokenInv, AskedBefore
<1>11. QED
  BY <1>8, <1>9, <1>10 DEF TokenInv

LEMMA Unlock == TokenInv /\ Token!unlock => TokenInv'
<1> SUFFICES ASSUME TokenInv, Token!unlock PROVE TokenInv'
  OBVIOUS
<1>0. /\ gpc = "unlock" /\ at \in 1 .. Len(usb) /\ handle_ = at /\ rc \in {-1, 0}
      /\ usb \in Seq(Device) /\ usb[at] \in Device /\ usb[at].kind # "other" /\ usb[at].opens = 1
  BY AtHand DEF TokenInv, Places, Token!unlock, OnDevice
<1>1. PICK a \in Token!LockAnswers(at) :
        usb' = [usb EXCEPT ![at].locked = @ /\ a \notin Token!Obeyed]
  BY <1>0 DEF Token!unlock
<1>2. at' = at /\ handle_' = at /\ rc' = rc /\ gpc' = "close"
  BY <1>0 DEF Token!unlock
<1>3. usb[at].kind = "good" => a \in Token!Obeyed
  BY <1>1 DEF Token!LockAnswers, Token!Obeyed
<1> DEFINE b == usb[at].locked /\ a \notin Token!Obeyed
           dev == [usb[at] EXCEPT !.locked = b]
<1>4. usb' = [usb EXCEPT ![at] = dev]
  BY <1>0, <1>1
<1>5. b \in BOOLEAN /\ (usb[at].kind = "good" => ~b)
  BY <1>0, <1>3 DEF Device
<1> HIDE DEF b
<1>6. /\ dev \in Device /\ dev.kind = usb[at].kind /\ dev.opens = 1 /\ dev.locked = b
      /\ dev.claimed = usb[at].claimed /\ dev.asked = usb[at].asked
  BY <1>0, <1>5 DEF Device
<1> HIDE DEF dev
<1>7. /\ usb' \in Seq(Device) /\ Len(usb') = Len(usb) /\ usb'[at] = dev
      /\ \A d \in 1 .. Len(usb) : d # at => usb'[d] = usb[d]
  BY <1>0, <1>4, <1>6, OnOneDevice
<1>8. Places'
  BY <1>0, <1>2, <1>6, <1>7 DEF Places, OnDevice, Afterwards
<1>9. OneDevice'
  BY <1>0, <1>2, <1>5, <1>6, <1>7 DEF TokenInv, OneDevice
<1>10. AskedBefore'
  BY <1>0, <1>2, <1>6, <1>7 DEF TokenInv, AskedBefore
<1>11. QED
  BY <1>8, <1>9, <1>10 DEF TokenInv

LEMMA Close == TokenInv /\ Token!close => TokenInv'
<1> SUFFICES ASSUME TokenInv, Token!close PROVE TokenInv'
  OBVIOUS
<1>0. /\ gpc = "close" /\ at \in 1 .. Len(usb) /\ handle_ = at /\ rc \in {-1, 0}
      /\ usb \in Seq(Device) /\ usb[at] \in Device /\ usb[at].kind # "other" /\ usb[at].opens = 1
  BY AtHand DEF TokenInv, Places, Token!close, OnDevice
<1>2. at' = at + 1 /\ handle_' = Token!NULL /\ rc' = rc /\ gpc' = "next"
  BY <1>0 DEF Token!close
<1> DEFINE dev == [usb[at] EXCEPT !.claimed = FALSE, !.opens = usb[at].opens - 1]
<1>4. usb' = [usb EXCEPT ![at] = dev]
  BY <1>0 DEF Token!close, Token!Closed, Device
<1>6. /\ dev \in Device /\ dev.kind = usb[at].kind /\ dev.opens = 0 /\ ~dev.claimed
      /\ dev.locked = usb[at].locked /\ dev.asked = usb[at].asked
  <2> DEFINE released == [usb[at] EXCEPT !.claimed = FALSE]
  <2>a. released \in Device
    BY <1>0 DEF Device
  <2>b. usb[at].opens - 1 \in Int /\ dev = [released EXCEPT !.opens = usb[at].opens - 1]
    BY <1>0 DEF Device
  <2> HIDE DEF released
  <2>1. dev \in Device
    <3> HIDE DEF dev
    <3>1. QED
      BY <2>a, <2>b DEF Device
  <2>2. dev.opens = 0
    BY <1>0 DEF Device
  <2>3. ~dev.claimed
    BY <1>0 DEF Device
  <2>4. dev.kind = usb[at].kind /\ dev.locked = usb[at].locked /\ dev.asked = usb[at].asked
    BY <1>0 DEF Device
  <2>5. QED
    BY <2>1, <2>2, <2>3, <2>4
<1> HIDE DEF dev
<1>7. /\ usb' \in Seq(Device) /\ Len(usb') = Len(usb) /\ usb'[at] = dev
      /\ \A d \in 1 .. Len(usb) : d # at => usb'[d] = usb[d]
  BY <1>0, <1>4, <1>6, OnOneDevice
<1>8. Places'
  BY <1>0, <1>2, <1>7 DEF Places, OnDevice, Afterwards, Token!NULL
<1>9. OneDevice'
  BY <1>0, <1>2, <1>6, <1>7 DEF TokenInv, OneDevice, Token!NULL
<1>10. AskedBefore'
  BY <1>0, <1>2, <1>6, <1>7 DEF TokenInv, AskedBefore
<1>11. QED
  BY <1>8, <1>9, <1>10 DEF TokenInv

LEMMA Free == TokenInv /\ Token!free => TokenInv'
<1> SUFFICES ASSUME TokenInv, Token!free PROVE TokenInv'
  OBVIOUS
<1>1. handle_ = Token!NULL /\ usb' = usb /\ at' = at /\ rc' = rc /\ gpc' = "ended"
      /\ handle_' = handle_ /\ at \in {0, Len(usb) + 1}
  BY DEF TokenInv, Places, OnDevice, Afterwards, Token!free
<1>2. QED
  BY <1>1 DEF TokenInv, Places, OneDevice, AskedBefore, OnDevice, Afterwards, Token!NULL

LEMMA SessionStep == TokenInv /\ Token!Next => TokenInv'
<1> SUFFICES ASSUME TokenInv, Token!Next PROVE TokenInv'
  OBVIOUS
<1>1. CASE Token!select
  BY <1>1, Apdu DEF Token!select
<1>2. CASE Token!not_selected
  BY <1>2, Apdu DEF Token!not_selected
<1>3. CASE Token!read_slot
  BY <1>3, Apdu DEF Token!read_slot
<1>4. QED
  BY <1>1, <1>2, <1>3, Listed, NextDevice, Claim, Lock, Unlock, Close, Free DEF Token!Next

(* The signer's own steps leave the session alone, but for the one that      *)
(* begins it.                                                                 *)
LEMMA SignerKeepsSession == SessionInv /\ [Next]_vars => SessionInv'
<1> SUFFICES ASSUME SessionInv, [Next]_vars PROVE SessionInv'
  OBVIOUS
<1>1. ASSUME UNCHANGED session, pc \in BeforeSession \/ pc' \notin BeforeSession
      PROVE  SessionInv'
  BY <1>1 DEF SessionInv, NotYet, TokenInv, Places, OneDevice, AskedBefore, session
<1>2. CASE UNCHANGED vars
  BY <1>2 DEF vars, session, SessionInv, NotYet, TokenInv, Places, OneDevice, AskedBefore
<1>3. CASE getOptions \/ load_key \/ fromElf \/ fill \/ read_xml \/ header
  <2>1. UNCHANGED session /\ pc \in BeforeSession
    BY <1>3 DEF getOptions, load_key, fromElf, fill, read_xml, header, Step, BeforeSession
  <2>2. QED
    BY <1>1, <2>1
<1>4. CASE sign
  <2>1. pc = "sign" /\ gpc = "none"
    BY <1>4 DEF sign, SessionInv, NotYet, BeforeSession
  <2>2. CASE UNCHANGED session
    BY <1>1, <2>1, <2>2 DEF BeforeSession
  <2>3. CASE pc' = "token" /\ gpc' = "list" /\ UNCHANGED <<at, handle_, rc, usb>>
    BY <2>1, <2>3 DEF SessionInv, NotYet, BeforeSession, TokenInv, Places, OneDevice, AskedBefore,
       OnDevice, Afterwards
  <2>4. QED
    BY <1>4, <2>2, <2>3 DEF sign, Step
<1>5. CASE run_gnubby
  <2>1. pc' = pc /\ pc = "token" /\ TokenInv'
    BY <1>5, SessionStep DEF run_gnubby, SessionInv
  <2>2. QED
    BY <2>1 DEF SessionInv, NotYet, BeforeSession
<1>6. CASE gnubby_result \/ generate
  <2>1. UNCHANGED session /\ pc' \notin BeforeSession
    BY <1>6 DEF gnubby_result, generate, Step, BeforeSession
  <2>2. QED
    BY <1>1, <2>1
<1>7. QED
  BY <1>2, <1>3, <1>4, <1>5, <1>6 DEF Next

(* The session's invariant holds in every reachable state of the signer. *)
THEOREM SessionInvariance == Spec => []SessionInv
BY SessionInit, SignerKeepsSession, PTL DEF Spec

(* Whatever devices there are and wherever sign() fails on them, one is open  *)
(* at a time, none is closed twice and none is left claimed (gnubby.cc).      *)
THEOREM DevicesGivenBack == Spec => []HandlesBalanced
<1>1. ASSUME SessionInv PROVE HandlesBalanced
  <2>1. DOMAIN usb = 1 .. Len(usb) /\ (gpc = "ended" => handle_ = Token!NULL)
    BY <1>1 DEF SessionInv, TokenInv, Places, OnDevice
  <2>2. QED
    BY <1>1, <2>1 DEF SessionInv, TokenInv, OneDevice, HandlesBalanced, Token!HandlesBalanced,
       Token!NULL
<1>2. QED
  BY <1>1, SessionInvariance, PTL

(* No gnubby that answers is left locked, whatever doSign() failed on. *)
THEOREM TokensUnlocked == Spec => []NotLeftLocked
<1>1. ASSUME SessionInv PROVE NotLeftLocked
  <2>1. DOMAIN usb = 1 .. Len(usb)
    BY <1>1 DEF SessionInv, TokenInv, Places
  <2>2. QED
    BY <1>1, <2>1 DEF SessionInv, TokenInv, OneDevice, NotLeftLocked, Token!NotLeftLocked
<1>2. QED
  BY <1>1, SessionInvariance, PTL

(* A session that had a list and ends has asked every good gnubby in it: no  *)
(* failing device keeps another from being asked (sign's loop).               *)
THEOREM AllTokensAsked == Spec => []EveryTokenAsked
<1>1. ASSUME SessionInv PROVE EveryTokenAsked
  <2>1. DOMAIN usb = 1 .. Len(usb) /\ (gpc = "ended" => at \in {0, Len(usb) + 1})
    BY <1>1 DEF SessionInv, TokenInv, Places
  <2>2. QED
    BY <1>1, <2>1 DEF SessionInv, TokenInv, AskedBefore, EveryTokenAsked, Token!EveryTokenAsked
<1>2. QED
  BY <1>1, SessionInvariance, PTL

-----------------------------------------------------------------------------
(* Arithmetic of the image (util/signer/image.cc).                           *)

(* TLA+'s division, and rounding up to a multiple. *)
LEMMA DivMod ==
    ASSUME NEW a \in Nat, NEW b \in Nat, b > 0
    PROVE  /\ a % b \in 0 .. b - 1
           /\ (a \div b) * b = a - (a % b)
           /\ a \div b \in Nat
OBVIOUS

LEMMA RoundingUp ==
    ASSUME NEW m \in Nat, NEW b \in Nat, b > 0
    PROVE  LET up == ((m + b - 1) \div b) * b IN
           /\ up \in Nat /\ m <= up
           /\ m % b = 0 <=> up = m
<1> DEFINE q == (m + b - 1) \div b
           r == (m + b - 1) % b
           p == m \div b
           s == m % b
<1>1. r \in 0 .. b - 1 /\ q * b = m + b - 1 - r /\ q \in Nat
  BY DivMod
<1>2. s \in 0 .. b - 1 /\ p * b = m - s /\ p \in Nat
  BY DivMod
<1> HIDE DEF q, r, p, s
<1>0. q * b \in Int /\ p * b \in Int
  BY <1>1, <1>2
<1>3. q * b >= m /\ q * b < m + b
  BY <1>1, <1>0
<1>4. (q - p) * b = q * b - p * b
  BY <1>1, <1>2
<1>5. ASSUME s = 0 PROVE q * b = m
  <2>1. (q - p) * b < b /\ (q - p) * b >= 0
    BY <1>3, <1>4, <1>5, <1>2, <1>0
  <2>2. q - p < 1 
    BY <2>1, <1>1, <1>2
  <2>3. q - p >= 0
    BY <2>1, <1>1, <1>2
  <2>4. q = p
    BY <2>2, <2>3, <1>1, <1>2
  <2>5. QED
    BY <2>4, <1>2, <1>5
<1>6. ASSUME q * b = m PROVE s = 0
  <2>1. (q - p) * b = s
    BY <1>6, <1>4, <1>2
  <2>2. q - p >= 0 /\ q - p < 1
    BY <2>1, <1>1, <1>2
  <2>4. q = p
    BY <2>2, <1>1, <1>2
  <2>5. QED
    BY <2>4, <1>2, <1>6
<1>7. QED
  BY <1>0, <1>1, <1>3, <1>5, <1>6 DEF q, s

LEMMA SmallestOf ==
    ASSUME NEW S \in SUBSET Nat, S # {}
    PROVE  \E a \in S : \A b \in S : a <= b
<1>1. PICK a \in S : \A b \in S : ~(<<b, a>> \in OpToRel(<, Nat))
  BY NatLessThanWellFounded, WFMin
<1>2. \A b \in S : ~(b < a)
  BY <1>1 DEF OpToRel
<1>3. QED
  BY <1>2

LEMMA GreatestOf ==
    ASSUME NEW n \in Nat, NEW S \in SUBSET (0 .. n - 1), S # {}
    PROVE  \E a \in S : \A b \in S : b <= a
<1> DEFINE T == {n - a : a \in S}
<1>1. T \in SUBSET Nat /\ T # {}
  <2>1. \A a \in S : n - a \in Nat
    OBVIOUS
  <2>2. QED
    BY <2>1
<1>2. PICK c \in T : \A d \in T : c <= d
  BY <1>1, SmallestOf
<1>3. PICK a \in S : c = n - a
  OBVIOUS
<1>4. \A b \in S : n - a <= n - b
  BY <1>2, <1>3
<1>5. QED
  BY <1>4

LEMMA FlashPositive == FlashSize \in Nat /\ BankSize \in Nat /\ BankSize > 0
  BY FlashLayoutAssumption DEF FlashSize

(* The first and the last byte of an ELF file. *)
LEMMA FirstAndLast ==
    ASSUME NEW S \in SUBSET (0 .. FlashSize - 1), S # {}
    PROVE  /\ MinOf(S) \in S /\ \A i \in S : MinOf(S) <= i
           /\ MaxOr0(S) \in S /\ \A i \in S : i <= MaxOr0(S)
<1>1. S \in SUBSET Nat
  BY FlashPositive
<1>2. \E a \in S : \A b \in S : a <= b
  BY <1>1, SmallestOf
<1>3. \E a \in S : \A b \in S : b <= a
  BY FlashPositive, GreatestOf
<1>4. QED
  BY <1>2, <1>3 DEF MinOf, MaxOr0

(* The image starts with the bank of the first byte, and ends behind the last *)
(* byte unless that byte is the first of a bank.                              *)
LEMMA ImageBounds ==
    ASSUME NEW S \in SUBSET (0 .. FlashSize - 1), S # {}
    PROVE  /\ RoundDown(MinOf(S)) \in Nat /\ high_of(S) \in Nat
           /\ \A i \in S : RoundDown(MinOf(S)) <= i /\ i <= high_of(S)
           /\ \A i \in S : i = high_of(S) <=> i = MaxOr0(S) /\ i % BankSize = 0
<1> DEFINE lo == MinOf(S)
           hi == MaxOr0(S)
<1>1. /\ lo \in S /\ \A i \in S : lo <= i
      /\ hi \in S /\ \A i \in S : i <= hi
  BY FirstAndLast
<1>2. S \subseteq Nat
  BY FlashPositive
<1> HIDE DEF lo, hi
<1>3. RoundDown(lo) \in Nat /\ RoundDown(lo) <= lo
  <2>1. lo % BankSize \in 0 .. BankSize - 1 /\ RoundDown(lo) = lo - (lo % BankSize)
        /\ lo \div BankSize \in Nat
    BY <1>1, <1>2, FlashPositive, DivMod DEF RoundDown
  <2>2. RoundDown(lo) \in Nat
    BY <2>1, FlashPositive DEF RoundDown
  <2>3. QED
    BY <2>1, <2>2, <1>1, <1>2, FlashPositive
<1>4. /\ high_of(S) \in Nat /\ hi <= high_of(S)
      /\ hi % BankSize = 0 <=> high_of(S) = hi
  BY <1>1, <1>2, FlashPositive, RoundingUp DEF high_of, RoundUp, RoundDown, hi
<1>5. \A i \in S : RoundDown(lo) <= i /\ i <= high_of(S)
  BY <1>1, <1>2, <1>3, <1>4
<1>6. ASSUME NEW i \in S PROVE i = high_of(S) <=> i = hi /\ i % BankSize = 0
  <2>1. i = high_of(S) => i = hi
    BY <1>1, <1>2, <1>4
  <2>2. QED
    BY <2>1, <1>4
<1>7. QED
  BY <1>3, <1>4, <1>5, <1>6 DEF lo, hi

-----------------------------------------------------------------------------
(* The image from the ELF file to the output (util/signer/image.cc).         *)

AfterElf == {"fill", "xml", "header", "sign", "token", "generate", "exit0"}
AfterHeader == {"sign", "token", "generate", "exit0"}
AfterSign == {"token", "generate", "exit0"}

ImageRecord(i) ==
    i = [mem |-> i.mem, base |-> i.base, high |-> i.high, ro_max |-> i.ro_max, rx_max |-> i.rx_max]
HeaderRecord(h) ==
    h = [magic |-> h.magic, ro_base |-> h.ro_base, ro_max |-> h.ro_max, rx_base |-> h.rx_base,
         rx_max |-> h.rx_max, timestamp_ |-> h.timestamp_, fusemap |-> h.fusemap,
         infomap |-> h.infomap, fuses_chk_ |-> h.fuses_chk_, info_chk_ |-> h.info_chk_,
         signature |-> h.signature, image_size |-> h.image_size, img_chk_ |-> h.img_chk_]

(* The bounds are those of the file's bytes, which are at their places unless *)
(* the image is padded.                                                       *)
FromElfFile ==
    pc \in AfterElf =>
        /\ run.elf # Absent /\ ImageRecord(img)
        /\ img.base = RoundDown(MinOf(Stored(run.elf))) /\ img.high \in Int
        /\ img.ro_max = MaxOr0({p.paddr + p.filesz : p \in Loaded(run.elf)})
        /\ img.rx_max = MaxOr0({s.addr + s.size : s \in Code(run.elf)})
        /\ ~run.fill =>
              /\ img.high = high_of(Stored(run.elf))
              /\ img.mem = [i \in 0 .. FlashSize - 1 |->
                               IF i \in Stored(run.elf) THEN FlashBase + i ELSE Erased]
(* The header describes this image and this manifest. *)
Described(h) ==
    /\ HeaderRecord(h) /\ h.magic = MAGIC_HAVEN
    /\ h.ro_base = FlashBase + img.base /\ h.ro_max = img.ro_max
    /\ h.rx_base = FlashBase + img.base + HeaderSize /\ h.rx_max = rx_max_of(img.rx_max)
    /\ h.fusemap = markFuse(Fuses, ids) /\ fuses_accepted(Fuses, ids)
(* What is hashed has its size and its digest in the header. *)
Digested(h) ==
    /\ Described(h)
    /\ h.fuses_chk_ = fuse_values(Fuses, ids, FUSE_IGNORE)
    /\ h.image_size = img.high - img.base
    /\ h.img_chk_ = Digest(h, Cells, h.image_size)
HeaderKept ==
    /\ pc \in AfterHeader => Described(hdr)
    /\ pc \in AfterSign => Digested(hdr) /\ hashes \in {Absent, Torn, hdr.img_chk_}
    /\ pc \in BeforeSession => hashes = Absent
OutputMade ==
    \/ output \in {Absent, Older}
    \/ /\ pc = "exit0"
       /\ \E k \in 0 .. Len(Cells) : output = [header |-> hdr, cells |-> SubSeq(Cells, 1, k)]
ImageInv == run \in SignerRuns /\ FromElfFile /\ HeaderKept /\ OutputMade

LEMMA ImageInit == Init => ImageInv
  BY DEF Init, ImageInv, FromElfFile, HeaderKept, OutputMade, AfterElf, AfterHeader, AfterSign,
     BeforeSession

LEMMA ElfFile ==
    ASSUME NEW r \in SignerRuns, r.elf # Absent
    PROVE  Stored(r.elf) \in SUBSET (0 .. FlashSize - 1) /\ Stored(r.elf) # {}
<1>1. Stored(r.elf) \subseteq 0 .. FlashSize - 1
  BY DEF Stored
<1>2. Stored(r.elf) # {}
  BY SignerAssumption
<1>3. QED
  BY <1>1, <1>2

(* A signature put into a header changes neither size nor digest. *)
LEMMA SignatureAdded ==
    ASSUME NEW h, Digested(h), NEW x
    PROVE  Digested([h EXCEPT !.signature = x])
           /\ [h EXCEPT !.signature = x].img_chk_ = h.img_chk_
<1> DEFINE g == [h EXCEPT !.signature = x]
<1>1. HeaderRecord(h)
  BY DEF Digested, Described
<1>2. HeaderRecord(g)
  BY <1>1 DEF HeaderRecord
<1>3. /\ g.magic = h.magic /\ g.ro_base = h.ro_base /\ g.ro_max = h.ro_max /\ g.rx_base = h.rx_base
      /\ g.rx_max = h.rx_max /\ g.timestamp_ = h.timestamp_ /\ g.fusemap = h.fusemap
      /\ g.infomap = h.infomap /\ g.image_size = h.image_size
      /\ g.fuses_chk_ = h.fuses_chk_ /\ g.info_chk_ = h.info_chk_ /\ g.img_chk_ = h.img_chk_
  BY <1>1 DEF HeaderRecord
<1> HIDE DEF g
<1>4. Digest(g, Cells, g.image_size) = Digest(h, Cells, h.image_size)
  BY <1>3 DEF Digest
<1>5. QED
  BY <1>2, <1>3, <1>4 DEF Digested, Described, g

LEMMA WithDigest == ASSUME NEW h, Described(h) PROVE Digested(with_digest(h))
<1> DEFINE size == img.high - img.base
           with_size == [h EXCEPT !.image_size = size]
           with_fuses == [with_size EXCEPT !.fuses_chk_ = fuse_values(Fuses, ids, FUSE_IGNORE)]
           sized == [with_fuses EXCEPT !.info_chk_ = info_digest(manifest.infos)]
           g == [sized EXCEPT !.img_chk_ = Digest(sized, Cells, size)]
<1> HIDE DEF size
<1>1. /\ Described(sized) /\ sized.image_size = size
      /\ sized.fuses_chk_ = fuse_values(Fuses, ids, FUSE_IGNORE)
  <2>1. Described(with_size) /\ with_size.image_size = size
    BY DEF HeaderRecord, Described
  <2> HIDE DEF with_size
  <2>2. /\ Described(with_fuses) /\ with_fuses.image_size = size
        /\ with_fuses.fuses_chk_ = fuse_values(Fuses, ids, FUSE_IGNORE)
    BY <2>1 DEF HeaderRecord, Described
  <2> HIDE DEF with_fuses
  <2>3. QED
    BY <2>2 DEF HeaderRecord, Described
<1>2. with_digest(h) = g
  BY DEF with_digest, size
<1> HIDE DEF sized
<1>3. HeaderRecord(g) /\ g.img_chk_ = Digest(sized, Cells, size)
  BY <1>1 DEF HeaderRecord, Described
<1>4. /\ g.magic = sized.magic /\ g.ro_base = sized.ro_base /\ g.ro_max = sized.ro_max /\ g.rx_base = sized.rx_base
      /\ g.rx_max = sized.rx_max /\ g.timestamp_ = sized.timestamp_ /\ g.fusemap = sized.fusemap
      /\ g.infomap = sized.infomap /\ g.image_size = sized.image_size
      /\ g.fuses_chk_ = sized.fuses_chk_ /\ g.info_chk_ = sized.info_chk_
  BY <1>1 DEF HeaderRecord, Described
<1> HIDE DEF g
<1>5. Digest(g, Cells, size) = Digest(sized, Cells, size)
  BY <1>4 DEF Digest
<1>6. QED
  BY <1>1, <1>2, <1>3, <1>4, <1>5 DEF Digested, Described, size

LEMMA ImageStep == ImageInv /\ [Next]_vars => ImageInv'
<1> SUFFICES ASSUME ImageInv, [Next]_vars PROVE ImageInv'
  OBVIOUS
<1> USE DEF AfterElf, AfterHeader, AfterSign, BeforeSession
<1>0. run' = run /\ run \in SignerRuns
  BY DEF ImageInv, Next, vars, session, getOptions, load_key, fromElf, fill, read_xml, header, sign,
     run_gnubby, gnubby_result, generate, Step
<1>1. CASE UNCHANGED vars
  BY <1>1 DEF vars, ImageInv, FromElfFile, HeaderKept, Digested, Described, Digest, Cells, Fuses, manifest, OutputMade
<1>2. CASE getOptions \/ load_key \/ read_xml
  BY <1>0, <1>2 DEF getOptions, load_key, read_xml, Step, ImageInv, FromElfFile, HeaderKept,
     OutputMade
<1>3. CASE fromElf
  <2>1. /\ pc = "elf" /\ pc' \in {"fill", "exit_2"} /\ hashes' = hashes /\ output' = output
    BY <1>3 DEF fromElf, Step
  <2>2. HeaderKept' /\ OutputMade'
    BY <2>1 DEF ImageInv, HeaderKept, OutputMade
  <2>3. ASSUME pc' = "fill"
        PROVE  /\ run.elf # Absent
               /\ img' = [mem |-> [i \in 0 .. FlashSize - 1 |->
                              IF i \in Stored(run.elf) THEN FlashBase + i ELSE Erased],
                          base |-> RoundDown(MinOf(Stored(run.elf))),
                          high |-> high_of(Stored(run.elf)),
                          ro_max |-> MaxOr0({p.paddr + p.filesz : p \in Loaded(run.elf)}),
                          rx_max |-> MaxOr0({s.addr + s.size : s \in Code(run.elf)})]
    BY <1>3, <2>3 DEF fromElf, Step
  <2>4. ASSUME pc' = "fill" PROVE high_of(Stored(run.elf)) \in Int
    BY <1>0, <2>3, <2>4, ElfFile, ImageBounds
  <2>5. FromElfFile'
    <3> SUFFICES ASSUME pc' = "fill" PROVE FromElfFile'
      BY <2>1 DEF FromElfFile
    <3>1. ImageRecord(img')
      BY <2>3 DEF ImageRecord
    <3>2. /\ img'.base = RoundDown(MinOf(Stored(run.elf)))
          /\ img'.high = high_of(Stored(run.elf))
          /\ img'.mem = [i \in 0 .. FlashSize - 1 |->
                            IF i \in Stored(run.elf) THEN FlashBase + i ELSE Erased]
          /\ img'.ro_max = MaxOr0({p.paddr + p.filesz : p \in Loaded(run.elf)})
          /\ img'.rx_max = MaxOr0({s.addr + s.size : s \in Code(run.elf)})
      BY <2>3
    <3>3. QED
      BY <1>0, <2>3, <2>4, <3>1, <3>2 DEF FromElfFile
  <2>6. QED
    BY <1>0, <2>2, <2>5 DEF ImageInv
<1>4. CASE fill
  <2>1. pc = "fill" /\ pc' = "xml" /\ hashes' = hashes /\ output' = output
    BY <1>4 DEF fill, Step
  <2>2. HeaderKept' /\ OutputMade'
    BY <2>1 DEF ImageInv, HeaderKept, OutputMade
  <2>3. ImageRecord(img) /\ run.elf # Absent /\ img.high \in Int
        /\ img.base = RoundDown(MinOf(Stored(run.elf)))
        /\ img.ro_max = MaxOr0({p.paddr + p.filesz : p \in Loaded(run.elf)})
        /\ img.rx_max = MaxOr0({s.addr + s.size : s \in Code(run.elf)})
    BY <2>1 DEF ImageInv, FromElfFile
  <2>4. CASE run.fill
    <3>1. PICK mem : img' = [img EXCEPT !.mem = mem, !.high = FlashSize - BankSize]
      BY <1>4, <2>4 DEF fill
    <3>2. /\ ImageRecord(img') /\ img'.base = img.base /\ img'.high = FlashSize - BankSize
          /\ img'.ro_max = img.ro_max /\ img'.rx_max = img.rx_max
      BY <2>3, <3>1 DEF ImageRecord
    <3>3. QED
      BY <1>0, <2>2, <2>3, <2>4, <3>2, FlashPositive DEF ImageInv, FromElfFile
  <2>5. CASE ~run.fill
    BY <1>0, <1>4, <2>1, <2>2, <2>5 DEF fill, ImageInv, FromElfFile
  <2>6. QED
    BY <2>4, <2>5
<1>5. CASE header
  <2>1. /\ pc = "header" /\ pc' \in {"sign", "abort"} /\ hashes' = hashes /\ output' = output
        /\ img' = img /\ ids' = ids
    BY <1>5 DEF header, Step
  <2>2. FromElfFile' /\ OutputMade'
    BY <1>0, <2>1 DEF ImageInv, FromElfFile, OutputMade
  <2>3. ASSUME pc' = "sign" PROVE Described(hdr)'
    <3>1. HeaderRecord(hdr')
      BY <1>5, <2>3 DEF header, Step, HeaderRecord
    <3>2. /\ hdr'.magic = MAGIC_HAVEN
          /\ hdr'.ro_base = FlashBase + img.base /\ hdr'.ro_max = img.ro_max
          /\ hdr'.rx_base = FlashBase + img.base + HeaderSize
          /\ hdr'.rx_max = rx_max_of(img.rx_max)
          /\ hdr'.fusemap = markFuse(Fuses, ids) /\ fuses_accepted(Fuses, ids)
      BY <1>5, <2>3 DEF header, Step, prepared
    <3>3. QED
      BY <1>0, <2>1, <3>1, <3>2 DEF Described, Fuses, manifest
  <2>4. HeaderKept'
    BY <2>1, <2>3 DEF ImageInv, HeaderKept
  <2>5. QED
    BY <1>0, <2>2, <2>4 DEF ImageInv
<1>6. CASE sign
  <2> DEFINE h == with_digest(hdr)
  <2>1. /\ pc = "sign" /\ pc' \in {"generate", "abort", "token"}
        /\ img' = img /\ ids' = ids /\ output' = output
    BY <1>6 DEF sign, Step
  <2>2. FromElfFile' /\ OutputMade'
    BY <1>0, <2>1 DEF ImageInv, FromElfFile, OutputMade
  <2>3. Digested(h)
    BY <2>1, WithDigest DEF ImageInv, HeaderKept
  <2>4. hashes' \in {Absent, Torn, h.img_chk_}
    BY <1>6, <2>1 DEF sign, ImageInv, HeaderKept
  <2>5. hdr' = h \/ \E s : hdr' = [h EXCEPT !.signature = s]
    BY <1>6 DEF sign
  <2> HIDE DEF h
  <2>6. Digested(hdr') /\ hdr'.img_chk_ = h.img_chk_
    <3>1. CASE hdr' = h
      BY <2>3, <3>1
    <3>2. ASSUME NEW x, hdr' = [h EXCEPT !.signature = x]
          PROVE  Digested(hdr') /\ hdr'.img_chk_ = h.img_chk_
      <4>1. Digested([h EXCEPT !.signature = x])
            /\ [h EXCEPT !.signature = x].img_chk_ = h.img_chk_
        BY <2>3, SignatureAdded
      <4>2. QED
        BY <3>2, <4>1
    <3>3. QED
      BY <2>5, <3>1, <3>2
  <2>7. Digested(hdr)'
    BY <1>0, <2>1, <2>6 DEF Digested, Described, Digest, Cells, Fuses, manifest
  <2>8. HeaderKept'
    BY <2>1, <2>4, <2>6, <2>7 DEF HeaderKept, Digested
  <2>9. QED
    BY <1>0, <2>2, <2>8 DEF ImageInv
<1>7. CASE run_gnubby
  BY <1>0, <1>7 DEF run_gnubby, ImageInv, FromElfFile, HeaderKept, Digested, Described, Digest, Cells, Fuses, manifest, OutputMade
<1>8. CASE gnubby_result
  <2>1. /\ pc = "token" /\ pc' \in {"generate", "abort", "crash"}
        /\ img' = img /\ ids' = ids /\ output' = output /\ hashes' = hashes
    BY <1>8 DEF gnubby_result, Step
  <2>2. FromElfFile' /\ OutputMade'
    BY <1>0, <2>1 DEF ImageInv, FromElfFile, OutputMade
  <2>3. Digested(hdr) /\ \E s : hdr' = [hdr EXCEPT !.signature = s]
    BY <1>8, <2>1 DEF gnubby_result, ImageInv, HeaderKept
  <2>4. Digested(hdr') /\ hdr'.img_chk_ = hdr.img_chk_
    BY <2>3, SignatureAdded
  <2>5. Digested(hdr)'
    BY <1>0, <2>1, <2>4 DEF Digested, Described, Digest, Cells, Fuses, manifest
  <2>6. HeaderKept'
    BY <2>1, <2>4, <2>5 DEF ImageInv, HeaderKept, Digested
  <2>7. QED
    BY <1>0, <2>2, <2>6 DEF ImageInv
<1>9. CASE generate
  <2>1. /\ pc = "generate" /\ pc' = "exit0" /\ img' = img /\ ids' = ids /\ hdr' = hdr /\ hashes' = hashes
    BY <1>9 DEF generate, Step
  <2>2. FromElfFile'
    BY <1>0, <2>1 DEF ImageInv, FromElfFile
  <2>3. HeaderKept'
    BY <1>0, <2>1 DEF ImageInv, HeaderKept, Digested, Described, Digest, Cells, Fuses, manifest
  <2>4. OutputMade'
    BY <1>9, <2>1 DEF generate, ImageInv, OutputMade, Cells
  <2>5. QED
    BY <1>0, <2>2, <2>3, <2>4 DEF ImageInv
<1>10. QED
  BY <1>1, <1>2, <1>3, <1>4, <1>5, <1>6, <1>7, <1>8, <1>9 DEF Next

LEMMA CellsOfImage ==
    ASSUME img.high - img.base \in Int
    PROVE  /\ \E T : Cells \in Seq(T)
           /\ Len(Cells) = IF img.high - img.base < 0 THEN 0 ELSE img.high - img.base
<1> DEFINE n == img.high - img.base
           len == IF n < 0 THEN 0 ELSE n
           T == {Cells[k] : k \in 1 .. len}
<1>1. 1 .. n = 1 .. len /\ len \in Nat
  OBVIOUS
<1> HIDE DEF n
<1>2. Cells \in [1 .. len -> T]
  <2>1. Cells = [k \in 1 .. len |-> IF k <= HeaderSize THEN Header ELSE img.mem[img.base + k - 1]]
    BY <1>1 DEF Cells, n
  <2>2. QED
    BY <2>1
<1> HIDE DEF T
<1>3. Cells \in Seq(T) /\ Len(Cells) = len
  BY <1>1, <1>2
<1>4. QED
  BY <1>3 DEF n

(* A file of the size in its header is the whole image. *)
LEMMA WholeOutput ==
    ASSUME ImageInv, Whole
    PROVE  /\ pc = "exit0" /\ Digested(hdr) /\ hashes \in {Absent, Torn, hdr.img_chk_}
           /\ run.elf # Absent /\ run \in SignerRuns
           /\ img.base \in Nat /\ img.high \in Int
           /\ output.header = hdr /\ output.cells = Cells /\ Len(Cells) = img.high - img.base
<1>1. pc = "exit0" /\ output \notin {Absent, Older} /\ Len(output.cells) = output.header.image_size
  BY DEF Whole, Written
<1>2. /\ run.elf # Absent /\ run \in SignerRuns /\ img.high \in Int
      /\ img.base = RoundDown(MinOf(Stored(run.elf)))
      /\ Digested(hdr) /\ hashes \in {Absent, Torn, hdr.img_chk_}
  BY <1>1 DEF ImageInv, FromElfFile, HeaderKept, AfterElf, AfterSign
<1>3. img.base \in Nat
  BY <1>2, ElfFile, ImageBounds
<1>4. PICK k \in 0 .. Len(Cells) : output = [header |-> hdr, cells |-> SubSeq(Cells, 1, k)]
  BY <1>1 DEF ImageInv, OutputMade
<1>5. PICK T : Cells \in Seq(T)
  BY <1>2, <1>3, CellsOfImage
<1>6. Len(SubSeq(Cells, 1, k)) = k
  BY <1>4, <1>5, SubSeqProperties
<1>7. k = img.high - img.base
  BY <1>1, <1>2, <1>4, <1>6 DEF Digested
<1>8. k = Len(Cells)
  BY <1>2, <1>3, <1>4, <1>7, CellsOfImage
<1>9. SubSeq(Cells, 1, k) = Cells
  BY <1>5, <1>8, SubSeqFull
<1>10. QED
  BY <1>1, <1>2, <1>3, <1>4, <1>7, <1>8, <1>9

(* The image and its header are what the invariant says in every reachable   *)
(* state of the signer.                                                       *)
THEOREM ImageInvariance == Spec => []ImageInv
BY ImageInit, ImageStep, PTL DEF Spec

(* The digest in the header of a whole output is that of the file, and a      *)
(* hashes file that was written has the same one (Image::sign, generate).     *)
THEOREM DigestIsOfFile == Spec => []DigestOfFile
<1>1. ASSUME ImageInv, Whole
      PROVE  /\ Signed.img_chk_ = Digest(Signed, output.cells, Signed.image_size)
             /\ hashes \in {Absent, Torn, Signed.img_chk_}
  BY <1>1, WholeOutput DEF Digested, Signed
<1>2. ImageInv => DigestOfFile
  BY <1>1 DEF DigestOfFile
<1>3. QED
  BY <1>2, ImageInvariance, PTL

(* What is about to be written was signed, by the key of the run: only a key  *)
(* file that was found gets this far (PublicKey::sign, main).                 *)
Keys == {"private", "public", "public2048"}
KeyFound == pc \in {"elf", "token"} \cup AfterElf => run.key \in Keys
SignatureMade == pc = "generate" => hdr.signature \in Signatures(hdr)
SignedInv == ImageInv /\ KeyFound /\ SignatureMade

LEMMA SignaturesOf ==
    ASSUME NEW h, NEW x, HeaderRecord(h), run.key \in Keys, x \in Signatures(h)
    PROVE  x \in Signatures([h EXCEPT !.signature = x])
<1>1. [h EXCEPT !.signature = x].signature = x
  BY DEF HeaderRecord
<1>2. QED
  BY <1>1 DEF Signatures, Keys

LEMMA SignedStep == SignedInv /\ [Next]_vars => SignedInv'
<1> SUFFICES ASSUME SignedInv, [Next]_vars PROVE SignedInv'
  OBVIOUS
<1> USE DEF AfterElf
<1>1. ImageInv /\ ImageInv' /\ KeyFound /\ SignatureMade /\ run \in SignerRuns
  BY ImageStep DEF SignedInv, ImageInv
<1>2. run' = run
  BY DEF Next, vars, session, getOptions, load_key, fromElf, fill, read_xml, header, sign,
     run_gnubby, gnubby_result, generate, Step
<1>3. KeyFound'
  <2>1. CASE load_key
    <3>1. run.key \in KeyFile
      BY <1>1, SignerAssumption
    <3>2. QED
      BY <1>2, <2>1, <3>1 DEF load_key, Step, KeyFound, KeyFile, Keys
  <2>2. CASE UNCHANGED vars
    BY <1>1, <2>2 DEF vars, KeyFound
  <2>3. CASE getOptions \/ fromElf \/ fill \/ read_xml \/ header
    BY <1>1, <1>2, <2>3 DEF getOptions, fromElf, fill, read_xml, header, Step, KeyFound
  <2>4. CASE sign \/ run_gnubby \/ gnubby_result \/ generate
    BY <1>1, <1>2, <2>4 DEF sign, run_gnubby, gnubby_result, generate, Step, KeyFound
  <2>5. QED
    BY <2>1, <2>2, <2>3, <2>4 DEF Next
<1>4. ASSUME pc' = "generate" PROVE hdr'.signature \in Signatures(hdr)'
  <2>1. CASE UNCHANGED vars
    BY <1>1, <1>4, <2>1 DEF vars, session, SignatureMade, Signatures
  <2>2. CASE sign
    <3> DEFINE h == with_digest(hdr)
    <3>1. PICK s \in Signatures(h) : hdr' = [h EXCEPT !.signature = s]
      BY <1>4, <2>2 DEF sign, Step
    <3>2. pc = "sign" /\ rc' = rc
      BY <1>4, <2>2 DEF sign, Step, session
    <3>3. HeaderRecord(h) /\ run.key \in Keys
      BY <1>1, <3>2, WithDigest DEF ImageInv, HeaderKept, AfterHeader, Digested, Described, KeyFound
    <3> HIDE DEF h
    <3>4. s \in Signatures(hdr')
      BY <3>1, <3>3, SignaturesOf
    <3>5. hdr'.signature = s
      BY <3>1, <3>3 DEF HeaderRecord
    <3>6. Signatures(hdr)' = Signatures(hdr')
      BY <1>2, <3>2 DEF Signatures
    <3>7. QED
      BY <3>4, <3>5, <3>6
  <2>3. CASE gnubby_result
    <3>1. pc = "token" /\ rc' = rc /\ Signatures(hdr) # {}
          /\ hdr' = [hdr EXCEPT !.signature = "own"]
      BY <1>4, <2>3 DEF gnubby_result, Step, session
    <3>2. HeaderRecord(hdr) /\ run.key \in Keys
      BY <1>1, <3>1 DEF ImageInv, HeaderKept, AfterHeader, Described, KeyFound
    <3>3. HeaderRecord(hdr') /\ hdr'.signature = "own"
      BY <3>1, <3>2 DEF HeaderRecord
    <3>4. QED
      BY <1>2, <3>1, <3>2, <3>3 DEF Signatures, Keys
  <2>4. CASE getOptions \/ load_key \/ fromElf \/ fill \/ read_xml \/ header
    BY <1>4, <2>4 DEF getOptions, load_key, fromElf, fill, read_xml, header, Step
  <2>5. CASE run_gnubby \/ generate
    BY <1>4, <2>5 DEF run_gnubby, generate, Step
  <2>6. QED
    BY <2>1, <2>2, <2>3, <2>4, <2>5 DEF Next
<1>5. QED
  BY <1>1, <1>3, <1>4 DEF SignedInv, SignatureMade

(* The file of an earlier run is replaced by nothing but a prefix of this     *)
(* run's image under a header that has the image's digest and a signature     *)
(* made by the run's key (Image::sign, PublicKey::sign, Image::generate).     *)
THEOREM OutputIsSigned == Spec => OutputOnlySigned
<1> DEFINE Replaced ==
             output' # output =>
               /\ hdr.img_chk_ = Digest(hdr, Cells, hdr.image_size)
               /\ hdr.signature \in Signatures(hdr)
               /\ \E k \in 0 .. Len(Cells) :
                     output' = [header |-> hdr, cells |-> SubSeq(Cells, 1, k)]
<1>1. Init => SignedInv
  BY ImageInit DEF Init, SignedInv, KeyFound, SignatureMade, AfterElf
<1>2. SignedInv /\ [Next]_vars => [Replaced]_vars
  <2> SUFFICES ASSUME SignedInv, Next, output' # output
               PROVE  /\ hdr.img_chk_ = Digest(hdr, Cells, hdr.image_size)
                      /\ hdr.signature \in Signatures(hdr)
                      /\ \E k \in 0 .. Len(Cells) :
                            output' = [header |-> hdr, cells |-> SubSeq(Cells, 1, k)]
    OBVIOUS
  <2>1. generate
    BY DEF Next, getOptions, load_key, fromElf, fill, read_xml, header, sign, run_gnubby,
       gnubby_result
  <2>2. pc = "generate" /\ Digested(hdr)
    BY <2>1 DEF generate, Step, SignedInv, ImageInv, HeaderKept, AfterSign
  <2>3. QED
    BY <2>1, <2>2 DEF generate, SignedInv, SignatureMade, Digested
<1>3. QED
  BY <1>1, <1>2, SignedStep, PTL DEF Spec, OutputOnlySigned

(* Every loaded byte of an ELF file is at its place in an image that is not   *)
(* padded, but for a last byte that is the first of a bank: wherever the file *)
(* begins and ends, and for every size of a bank (fromElf, high_).            *)
THEOREM BytesAreKept == Spec => []LoadedBytesKept
<1>1. ASSUME ImageInv, Whole, ~run.fill, NEW i \in Stored(run.elf), i - img.base + 1 > HeaderSize
      PROVE  IF LostByte(i)
             THEN i - img.base + 1 > Len(output.cells)
             ELSE /\ i - img.base + 1 <= Len(output.cells)
                  /\ output.cells[i - img.base + 1] = FlashBase + i
  <2> DEFINE k == i - img.base + 1
             S == Stored(run.elf)
  <2>1. /\ output.cells = Cells /\ Len(Cells) = img.high - img.base
        /\ img.base \in Nat /\ img.high \in Int
        /\ img.base = RoundDown(MinOf(S)) /\ img.high = high_of(S)
        /\ img.mem = [j \in 0 .. FlashSize - 1 |-> IF j \in S THEN FlashBase + j ELSE Erased]
        /\ run.elf # Absent /\ run \in SignerRuns
    BY <1>1, WholeOutput DEF ImageInv, FromElfFile, AfterElf
  <2>2. S \in SUBSET (0 .. FlashSize - 1) /\ S # {}
    BY <2>1, ElfFile
  <2>3. /\ img.base <= i /\ i <= img.high
        /\ i = img.high <=> LostByte(i)
    BY <1>1, <2>1, <2>2, ImageBounds DEF LostByte
  <2>4. i \in 0 .. FlashSize - 1 /\ i \in Int
    BY <1>1, <2>2, FlashPositive
  <2>5. CASE LostByte(i)
    BY <2>1, <2>3, <2>4, <2>5
  <2>6. CASE ~LostByte(i)
    <3>1. k \in 1 .. img.high - img.base
      BY <2>1, <2>3, <2>4, <2>6
    <3>2. k > HeaderSize /\ img.base + k - 1 = i /\ k \in Int /\ HeaderSize \in Nat
      BY <1>1, <2>1, <2>4, SignedHeaderAssumption
    <3> HIDE DEF k
    <3>3. Cells[k] = img.mem[img.base + k - 1]
      BY <3>1, <3>2 DEF Cells
    <3>4. img.mem[i] = FlashBase + i
      BY <1>1, <2>1, <2>4
    <3>5. Cells[k] = FlashBase + i
      BY <3>2, <3>3, <3>4
    <3>6. QED
      BY <2>1, <2>6, <3>1, <3>5 DEF k
  <2>7. QED
    BY <2>5, <2>6
<1>2. ImageInv => LoadedBytesKept
  BY <1>1 DEF LoadedBytesKept
<1>3. QED
  BY <1>2, ImageInvariance, PTL

-----------------------------------------------------------------------------
(* From the signer to the loader.                                            *)

LEMMA MultiplesApart ==
    ASSUME NEW x \in Int, NEW y \in Int, NEW b \in Nat, b > 0, x * b < y * b + b
    PROVE  x * b <= y * b
<1>1. (x - y) * b = x * b - y * b /\ x * b \in Int /\ y * b \in Int
  OBVIOUS
<1>2. (x - y) * b < b
  BY <1>1
<1>3. x - y < 1
  BY <1>2
<1>4. (y - x) * b >= 0 /\ (y - x) * b = y * b - x * b
  BY <1>3
<1>5. QED
  BY <1>1, <1>4

(* Rounding respects every multiple of the bank's size. *)
LEMMA RoundingKeeps ==
    ASSUME NEW m \in Nat, NEW q \in Nat
    PROVE  /\ RoundDown(m) \in Nat /\ \E p \in Nat : RoundDown(m) = p * BankSize
           /\ q * BankSize <= m => q * BankSize <= RoundDown(m)
           /\ m <= q * BankSize => RoundUp(m) <= q * BankSize
           /\ \A n \in Nat : m <= n => RoundDown(m) <= RoundDown(n)
<1> USE FlashPositive
<1> DEFINE p == m \div BankSize
           u == (m + BankSize - 1) \div BankSize
<1>1. /\ p \in Nat /\ p * BankSize = RoundDown(m) /\ RoundDown(m) = m - (m % BankSize)
      /\ m % BankSize \in 0 .. BankSize - 1
  BY DivMod DEF RoundDown
<1>2. /\ u \in Nat /\ u * BankSize = RoundUp(m)
      /\ RoundUp(m) = m + BankSize - 1 - ((m + BankSize - 1) % BankSize)
      /\ (m + BankSize - 1) % BankSize \in 0 .. BankSize - 1
  BY DivMod DEF RoundUp, RoundDown
<1> HIDE DEF p, u
<1>3. RoundDown(m) \in Nat /\ RoundUp(m) \in Nat /\ q * BankSize \in Nat
  BY <1>1, <1>2
<1>4. ASSUME q * BankSize <= m PROVE q * BankSize <= RoundDown(m)
  <2>1. q * BankSize < p * BankSize + BankSize
    BY <1>1, <1>3, <1>4
  <2>2. q * BankSize <= p * BankSize
    BY <1>1, <2>1, MultiplesApart
  <2>3. QED
    BY <1>1, <2>2
<1>5. ASSUME m <= q * BankSize PROVE RoundUp(m) <= q * BankSize
  <2>1. u * BankSize < q * BankSize + BankSize
    BY <1>2, <1>3, <1>5
  <2>2. u * BankSize <= q * BankSize
    BY <1>2, <2>1, MultiplesApart
  <2>3. QED
    BY <1>2, <2>2
<1>6. ASSUME NEW n \in Nat, m <= n PROVE RoundDown(m) <= RoundDown(n)
  <2> DEFINE r == n \div BankSize
  <2>1. /\ r \in Nat /\ r * BankSize = RoundDown(n) /\ RoundDown(n) = n - (n % BankSize)
        /\ n % BankSize \in 0 .. BankSize - 1
    BY DivMod DEF RoundDown
  <2> HIDE DEF r
  <2>2. p * BankSize < r * BankSize + BankSize
    BY <1>1, <1>3, <1>6, <2>1
  <2>3. p * BankSize <= r * BankSize
    BY <1>1, <2>1, <2>2, MultiplesApart
  <2>4. QED
    BY <1>1, <2>1, <2>3
<1>7. QED
  BY <1>1, <1>3, <1>4, <1>5, <1>6

(* Sizes of slots are multiples of a bank, and no slot reaches the end of    *)
(* the 32 bit addresses.                                                      *)
LEMMA SlotBounds ==
    ASSUME NEW slot \in Slots
    PROVE  /\ slot \in Nat /\ FlashBase <= slot /\ FlashBase > 0 /\ FlashBase \in Nat
           /\ SlotSize(slot) \in Nat /\ BankSize <= SlotSize(slot)
           /\ slot + SlotSize(slot) < WordSize
           /\ \E s \in Nat : SlotSize(slot) = s * BankSize
<1>1. /\ {FlashBase, FlashHalf, RoSize, TopSize, BankSize, WordSize, RwSize} \subseteq Nat \ {0}
      /\ RwSize = FlashHalf - RoSize - TopSize
  BY FlashLayoutAssumption DEF RwSize
<1>2. SlotSize(slot) \in {RoSize, RwSize}
  BY DEF SlotSize
<1>3. \A n \in {RoSize, RwSize} : BankSize <= n /\ \E s \in Nat : n = s * BankSize
  <2>1. \A n \in {RoSize, RwSize} : n % BankSize = 0 /\ n \in Nat /\ BankSize <= n
    BY <1>1, SignerAssumption, SignedHeaderAssumption
  <2>2. \A n \in {RoSize, RwSize} : n \div BankSize \in Nat /\ (n \div BankSize) * BankSize = n
    <3> TAKE n \in {RoSize, RwSize}
    <3>1. /\ n \div BankSize \in Nat
          /\ (n \div BankSize) * BankSize = n - (n % BankSize)
      BY <2>1, FlashPositive, DivMod
    <3>2. QED
      BY <2>1, <3>1
  <2>3. QED
    BY <2>1, <2>2
<1>4. slot \in Nat /\ FlashBase <= slot /\ slot + SlotSize(slot) < WordSize
  BY <1>1, FlashLayoutAssumption
     DEF Slots, RoSlots, RwSlots, RO_A_BASE, RO_B_BASE, RW_A_BASE, RW_B_BASE, SlotSize
<1>5. QED
  BY <1>1, <1>2, <1>3, <1>4

(* The image of a file that lies in a slot starts with it and ends within it. *)
LEMMA FitsItsSlot ==
    ASSUME NEW slot \in Slots, LiesIn(slot), run \in SignerRuns, run.elf # Absent
    PROVE  /\ RoundDown(MinOf(Stored(run.elf))) = slot - FlashBase
           /\ high_of(Stored(run.elf)) \in Nat
           /\ high_of(Stored(run.elf)) <= slot - FlashBase + SlotSize(slot)
           /\ BankSize <= high_of(Stored(run.elf)) - (slot - FlashBase)
<1> DEFINE S == Stored(run.elf)
           lo == slot - FlashBase
<1>1. S \in SUBSET (0 .. FlashSize - 1) /\ S # {}
  BY ElfFile
<1>2. /\ MinOf(S) \in S /\ \A i \in S : MinOf(S) <= i
      /\ MaxOr0(S) \in S /\ \A i \in S : i <= MaxOr0(S)
  BY <1>1, FirstAndLast
<1>3. S \subseteq Nat /\ lo \in Nat /\ SlotSize(slot) \in Nat /\ HeaderSize \in Nat
  BY <1>1, FlashPositive, SlotBounds, SignedHeaderAssumption
<1>4. /\ S \subseteq lo + HeaderSize .. lo + SlotSize(slot) - 1
      /\ \E i \in S : lo = RoundDown(i)
  BY DEF LiesIn
<1>5. PICK i \in S : lo = RoundDown(i)
  BY <1>4
<1>a. RoundUp(MaxOr0(S)) >= RoundDown(MinOf(S)) + BankSize
  BY SignerAssumption
<1>b. high_of(S) = RoundUp(MaxOr0(S)) /\ high_of(S) \in Nat
  BY <1>1, ImageBounds DEF high_of
<1> HIDE DEF S, lo
<1>6. PICK p \in Nat : lo = p * BankSize
  BY <1>3, <1>5, RoundingKeeps
<1>c. ASSUME NEW j \in S PROVE j \in Nat /\ lo <= j /\ j <= lo + SlotSize(slot)
  <2>1. j \in Nat /\ j \in lo + HeaderSize .. lo + SlotSize(slot) - 1
    BY <1>3, <1>4
  <2>2. QED
    BY <1>3, <2>1
<1>7. lo <= MinOf(S) /\ MinOf(S) \in Nat /\ i \in Nat
  BY <1>2, <1>c
<1>8. lo <= RoundDown(MinOf(S)) /\ RoundDown(MinOf(S)) \in Nat
  BY <1>6, <1>7, RoundingKeeps
<1>9. RoundDown(MinOf(S)) <= lo
  BY <1>2, <1>5, <1>7, RoundingKeeps
<1>10. RoundDown(MinOf(S)) = lo
  BY <1>3, <1>8, <1>9
<1>11. PICK s \in Nat : SlotSize(slot) = s * BankSize
  BY SlotBounds
<1>12. lo + SlotSize(slot) = (p + s) * BankSize /\ p + s \in Nat
  BY <1>6, <1>11, FlashPositive
<1>13. MaxOr0(S) <= lo + SlotSize(slot) /\ MaxOr0(S) \in Nat
  BY <1>2, <1>c
<1>14. high_of(S) <= lo + SlotSize(slot)
  BY <1>12, <1>13, <1>b, RoundingKeeps
<1>15. BankSize <= high_of(S) - lo
  BY <1>a, <1>b, <1>10, <1>3, FlashPositive
<1>16. QED
  BY <1>b, <1>10, <1>14, <1>15 DEF S, lo

LEMMA BoundedMax ==
    ASSUME NEW n \in Nat, NEW T \in SUBSET (0 .. n)
    PROVE  MaxOr0(T) \in 0 .. n /\ (\A t \in T : t <= MaxOr0(T)) /\ (T # {} => MaxOr0(T) \in T)
<1>1. CASE T = {}
  BY <1>1 DEF MaxOr0
<1>2. CASE T # {}
  <2>1. n + 1 \in Nat /\ T \in SUBSET (0 .. (n + 1) - 1)
    OBVIOUS
  <2>2. \E a \in T : \A b \in T : b <= a
    BY <1>2, <2>1, GreatestOf
  <2>3. QED
    BY <1>2, <2>2 DEF MaxOr0
<1>3. QED
  BY <1>1, <1>2

(* The ends of data and code, and what LeavesRoom says of the latter. *)
LEMMA EndsFit ==
    ASSUME NEW slot \in Slots, LiesIn(slot), run \in SignerRuns, run.elf # Absent
    PROVE  LET ro == MaxOr0({p.paddr + p.filesz : p \in Loaded(run.elf)})
               rx == MaxOr0({s.addr + s.size : s \in Code(run.elf)})
           IN  /\ ro \in Nat /\ ro <= slot + SlotSize(slot)
               /\ rx \in Nat
               /\ LeavesRoom(slot) <=> rx + RxSlack <= slot + SlotSize(slot)
               /\ \A s \in Code(run.elf) : s.addr + s.size <= rx
<1> DEFINE end == slot + SlotSize(slot)
           P == {p.paddr + p.filesz : p \in Loaded(run.elf)}
           C == {s.addr + s.size : s \in Code(run.elf)}
<1>1. end \in Nat /\ RxSlack \in Nat /\ RxSlack <= end
  BY SlotBounds, SignerAssumption, FlashPositive
<1>2. /\ \A p \in Loaded(run.elf) : p.paddr \in Nat /\ p.filesz \in Nat
      /\ \A s \in Code(run.elf) : s.addr \in Nat /\ s.size \in Nat
  BY SignerAssumption DEF Loaded, Code
<1>3. /\ \A p \in Loaded(run.elf) : p.paddr + p.filesz <= end
      /\ \A s \in Code(run.elf) : s.addr + s.size <= end
  BY DEF LiesIn
<1>4. LeavesRoom(slot) <=> \A c \in C : c + RxSlack <= end
  BY DEF LeavesRoom
<1> HIDE DEF end
<1>5. MaxOr0(P) \in 0 .. end
  <2>1. P \in SUBSET (0 .. end)
    BY <1>1, <1>2, <1>3
  <2>2. QED
    BY <1>1, <2>1, BoundedMax
<1>6. MaxOr0(C) \in 0 .. end /\ (\A c \in C : c <= MaxOr0(C)) /\ (C # {} => MaxOr0(C) \in C)
  <2>1. C \in SUBSET (0 .. end)
    BY <1>1, <1>2, <1>3
  <2>2. QED
    BY <1>1, <2>1, BoundedMax
<1>7. \A s \in Code(run.elf) : s.addr + s.size \in C
  OBVIOUS
<1>8. C \subseteq Nat
  BY <1>2
<1> HIDE DEF P, C
<1>9. LeavesRoom(slot) <=> MaxOr0(C) + RxSlack <= end
  <2>1. CASE C = {}
    <3>1. MaxOr0(C) = 0
      BY <2>1 DEF MaxOr0
    <3>2. QED
      BY <1>1, <1>4, <2>1, <3>1
  <2>2. CASE C # {}
    BY <1>1, <1>4, <1>6, <1>8, <2>2
  <2>3. QED
    BY <2>1, <2>2
<1>10. /\ MaxOr0(P) \in Nat /\ MaxOr0(P) <= end /\ MaxOr0(C) \in Nat
       /\ \A s \in Code(run.elf) : s.addr + s.size <= MaxOr0(C)
  BY <1>1, <1>5, <1>6, <1>7
<1>11. QED
  BY <1>9, <1>10 DEF P, C, end

LEMMA HeaderTaken ==
    ASSUME ImageInv, Whole, ~run.fill, NEW slot \in Slots, LiesIn(slot)
    PROVE  /\ verify_SignedHeader(Signed, SlotSize(slot), slot)
                 = IF LeavesRoom(slot) THEN LAUNCH_SUCCESS ELSE LAUNCH_RX_MAX_AFTER_REGION
           /\ \A s \in Code(run.elf) :
                 Signed.rx_base <= s.addr /\ s.addr + s.size <= Signed.rx_max
<1> DEFINE end == slot + SlotSize(slot)
           rx == MaxOr0({s.addr + s.size : s \in Code(run.elf)})
<1>1. /\ pc = "exit0" /\ Digested(hdr) /\ run.elf # Absent /\ run \in SignerRuns
      /\ Signed = hdr /\ Len(Cells) = img.high - img.base
  BY WholeOutput DEF Signed
<1>2. /\ img.base = RoundDown(MinOf(Stored(run.elf))) /\ img.high = high_of(Stored(run.elf))
      /\ img.ro_max = MaxOr0({p.paddr + p.filesz : p \in Loaded(run.elf)})
      /\ img.rx_max = rx
  BY <1>1 DEF ImageInv, FromElfFile, AfterElf
<1>3. /\ hdr.magic = MAGIC_HAVEN /\ hdr.image_size = img.high - img.base
      /\ hdr.ro_base = FlashBase + img.base /\ hdr.ro_max = img.ro_max
      /\ hdr.rx_base = FlashBase + img.base + HeaderSize /\ hdr.rx_max = rx + RxSlack
  BY <1>1, <1>2 DEF Digested, Described, rx_max_of
<1>4. /\ slot \in Nat /\ FlashBase \in Nat /\ SlotSize(slot) \in Nat /\ BankSize \in Nat
      /\ slot + SlotSize(slot) < WordSize /\ HeaderSize \in Nat /\ RxSlack \in Nat
  BY SlotBounds, FlashPositive, SignedHeaderAssumption, SignerAssumption
<1>5. WAdd(slot, SlotSize(slot)) = end
  BY <1>4 DEF WAdd
<1>6. /\ img.base = slot - FlashBase /\ img.high \in Nat
      /\ img.high <= slot - FlashBase + SlotSize(slot)
      /\ BankSize <= img.high - (slot - FlashBase)
  BY <1>1, <1>2, FitsItsSlot
<1>7. /\ img.ro_max \in Nat /\ img.ro_max <= end
      /\ rx \in Nat /\ (LeavesRoom(slot) <=> rx + RxSlack <= end)
      /\ \A s \in Code(run.elf) : s.addr + s.size <= rx
  BY <1>1, <1>2, EndsFit
<1>8. \A s \in Code(run.elf) : s.addr \in Nat /\ s.size \in Nat /\ slot + HeaderSize <= s.addr
  BY <1>1, SignerAssumption DEF Code, LiesIn
<1> HIDE DEF rx, end
<1>9. /\ hdr.ro_base = slot /\ hdr.rx_base = slot + HeaderSize
      /\ BankSize <= hdr.image_size /\ hdr.image_size <= SlotSize(slot)
      /\ hdr.image_size \in Int /\ end \in Nat
  BY <1>3, <1>4, <1>6 DEF end
<1>10. verify_SignedHeader(hdr, SlotSize(slot), slot)
          = IF LeavesRoom(slot) THEN LAUNCH_SUCCESS ELSE LAUNCH_RX_MAX_AFTER_REGION
  BY <1>3, <1>4, <1>5, <1>7, <1>9 DEF verify_SignedHeader
<1>11. \A s \in Code(run.elf) : hdr.rx_base <= s.addr /\ s.addr + s.size <= hdr.rx_max
  BY <1>3, <1>4, <1>7, <1>8, <1>9
<1>12. QED
  BY <1>1, <1>10, <1>11

(* An image that lies in a slot passes the loader's header checks there unless *)
(* its code reaches into the slack, and its window holds all of its code: for   *)
(* every flash, bank size and ELF file (main, Image::sign; verify_SignedHeader). *)
THEOREM HeaderIsTaken == Spec => []LoaderTakesHeader
<1>1. ImageInv => LoaderTakesHeader
  BY HeaderTaken DEF LoaderTakesHeader
<1>2. QED
  BY <1>1, ImageInvariance, PTL

(* A list's fuses have the number and the width of their first entry in it. *)
LEMMA FirstEntry ==
    ASSUME NEW xml, xml.items \in Seq([name : Nat, offset : Nat, width : Nat])
    PROVE  \A f \in DOMAIN find_fuses(xml).ids :
              \E j \in 1 .. Len(xml.items) :
                 /\ xml.items[j].name = f /\ \A i \in 1 .. j - 1 : xml.items[i].name # f
                 /\ find_fuses(xml).ids[f] = [index |-> j - 1, width |-> xml.items[j].width]
<1> DEFINE items == xml.items
           falls == {j \in 2 .. Len(items) : items[j].offset < items[j - 1].offset}
           cut == CHOOSE j \in falls : \A k \in falls : j <= k
           listed == IF falls = {} THEN DOMAIN items ELSE 1 .. cut - 1
           First(f, j) == items[j].name = f /\ \A i \in 1 .. j - 1 : items[i].name # f
           first(f) == CHOOSE j \in DOMAIN items : First(f, j)
           names == {items[j].name : j \in listed}
<1>1. DOMAIN items = 1 .. Len(items) /\ Len(items) \in Nat
  OBVIOUS
<1>2. find_fuses(xml).ids = [f \in names |->
                                [index |-> first(f) - 1, width |-> items[first(f)].width]]
  BY DEF find_fuses
<1>3. falls \subseteq 2 .. Len(items)
  OBVIOUS
<1> HIDE DEF items, falls
<1>4. falls # {} => cut \in 2 .. Len(items)
  <2>1. ASSUME falls # {} PROVE \E j \in falls : \A k \in falls : j <= k
    <3>1. falls \in SUBSET Nat
      BY <1>1, <1>3
    <3>2. QED
      BY <2>1, <3>1, SmallestOf
  <2>2. QED
    BY <1>3, <2>1
<1> HIDE DEF cut
<1>5. listed \subseteq 1 .. Len(items)
  BY <1>1, <1>4
<1> HIDE DEF listed
<1>6. ASSUME NEW f \in names PROVE first(f) \in 1 .. Len(items) /\ First(f, first(f))
  <2> DEFINE S == {j \in 1 .. Len(items) : items[j].name = f}
  <2>1. S \in SUBSET Nat
    BY <1>1
  <2>2. S # {}
    BY <1>5
  <2>3. PICK a \in S : \A b \in S : a <= b
    BY <2>1, <2>2, SmallestOf
  <2>4. a \in 1 .. Len(items) /\ items[a].name = f
    OBVIOUS
  <2>5. ASSUME NEW i \in 1 .. a - 1 PROVE items[i].name # f
    <3>1. i \in 1 .. Len(items) /\ ~(a <= i)
      BY <1>1, <2>4
    <3>2. QED
      BY <2>3, <3>1
  <2>6. First(f, a)
    BY <2>4, <2>5
  <2> HIDE DEF First
  <2>7. QED
    BY <1>1, <2>4, <2>6
<1> HIDE DEF first, names
<1>7. DOMAIN find_fuses(xml).ids = names
  BY <1>2
<1>8. ASSUME NEW f \in names
      PROVE  \E j \in 1 .. Len(items) :
                 First(f, j) /\ find_fuses(xml).ids[f] = [index |-> j - 1, width |-> items[j].width]
  <2>1. first(f) \in 1 .. Len(items) /\ First(f, first(f))
    BY <1>6
  <2>2. find_fuses(xml).ids[f] = [index |-> first(f) - 1, width |-> items[first(f)].width]
    BY <1>2
  <2> HIDE DEF First
  <2>3. QED
    BY <2>1, <2>2
<1>9. QED
  BY <1>7, <1>8 DEF items

(* What read_xml() leaves: the numbers of the list, of which Blk6's was       *)
(* asserted, or that of Blk6 alone.                                           *)
FoundIds == IF run.xml = Absent THEN NoneFound.ids ELSE find_fuses(run.xml).ids
IdsListed == pc \in {"header"} \cup AfterHeader => ids = with_blk6(FoundIds) /\ ids_accepted(FoundIds)

LEMMA ListedStep == IdsListed /\ [Next]_vars => IdsListed'
<1> SUFFICES ASSUME IdsListed, [Next]_vars PROVE IdsListed'
  OBVIOUS
<1> USE DEF AfterHeader
<1>1. run' = run
  BY DEF Next, vars, session, getOptions, load_key, fromElf, fill, read_xml, header, sign,
     run_gnubby, gnubby_result, generate, Step
<1>2. FoundIds' = FoundIds
  BY <1>1 DEF FoundIds
<1>3. CASE read_xml
  <2>1. ids' = with_blk6(FoundIds) /\ (pc' = "abort" \/ ids_accepted(FoundIds))
    <3>1. (IF run.xml = Absent THEN NoneFound ELSE find_fuses(run.xml)).ids = FoundIds
      BY DEF FoundIds
    <3>2. QED
      BY <1>3, <3>1 DEF read_xml, Step
  <2>2. QED
    BY <1>2, <2>1 DEF IdsListed
<1>4. CASE UNCHANGED vars
  BY <1>2, <1>4 DEF vars, IdsListed
<1>5. CASE getOptions \/ load_key \/ fromElf \/ fill
  BY <1>5 DEF getOptions, load_key, fromElf, fill, Step, IdsListed
<1>6. CASE header \/ sign \/ run_gnubby \/ gnubby_result \/ generate
  <2>1. ids' = ids /\ pc \in {"header"} \cup AfterHeader
    BY <1>6 DEF header, sign, run_gnubby, gnubby_result, generate, Step
  <2>2. QED
    BY <1>2, <2>1 DEF IdsListed
<1>7. QED
  BY <1>3, <1>4, <1>5, <1>6 DEF Next

(* Each fuse is numbered by its entry, and no two alike. *)
LEMMA ListedPlaces ==
    ASSUME run \in SignerRuns, ids = with_blk6(FoundIds), ids_accepted(FoundIds)
    PROVE  Numbered(ids) /\ \A f \in DOMAIN ids : ids[f] = ListedAs(f)
<1>1. CASE run.xml = Absent
  <2>1. DOMAIN FoundIds = {}
    BY <1>1 DEF FoundIds, NoneFound
  <2>2. DOMAIN ids = {Blk6} /\ ids[Blk6] = [index |-> 125, width |-> 5]
    BY <2>1 DEF with_blk6
  <2>3. QED
    BY <2>2 DEF Numbered, ListedAs
<1>2. CASE run.xml # Absent /\ DOMAIN FoundIds = {}
  <2>1. DOMAIN ids = {Blk6} /\ ids[Blk6] = [index |-> 125, width |-> 5]
    BY <1>2 DEF with_blk6
  <2>2. QED
    BY <2>1 DEF Numbered, ListedAs
<1>3. CASE run.xml # Absent /\ DOMAIN FoundIds # {}
  <2> DEFINE items == run.xml.items
             First(f, j) == items[j].name = f /\ \A i \in 1 .. j - 1 : items[i].name # f
  <2>1. Blk6 \in DOMAIN FoundIds /\ FoundIds[Blk6] = [index |-> 125, width |-> 5]
    BY <1>3 DEF ids_accepted
  <2>2. DOMAIN ids = DOMAIN FoundIds /\ \A f \in DOMAIN FoundIds : ids[f] = FoundIds[f]
    BY <2>1 DEF with_blk6
  <2>3. items \in Seq([name : Nat, offset : Nat, width : Nat])
    BY <1>3, SignerAssumption
  <2>4. FoundIds = find_fuses(run.xml).ids
    BY <1>3 DEF FoundIds
  <2>5. ASSUME NEW f \in DOMAIN ids
        PROVE  \E j \in 1 .. Len(items) :
                  First(f, j) /\ ids[f] = [index |-> j - 1, width |-> items[j].width]
    <3>1. f \in DOMAIN find_fuses(run.xml).ids /\ ids[f] = find_fuses(run.xml).ids[f]
      BY <2>2, <2>4
    <3>2. PICK j \in 1 .. Len(items) :
            /\ items[j].name = f /\ \A i \in 1 .. j - 1 : items[i].name # f
            /\ find_fuses(run.xml).ids[f] = [index |-> j - 1, width |-> items[j].width]
      BY <2>3, <3>1, FirstEntry
    <3>3. QED
      BY <3>1, <3>2
  <2>6. Len(items) \in Nat /\ DOMAIN items = 1 .. Len(items)
    BY <2>3
  <2>7. Numbered(ids)
    BY <2>5, <2>6 DEF Numbered
  <2>8. ASSUME NEW f \in DOMAIN ids, f # Blk6 PROVE ids[f] = ListedAs(f)
    <3>1. PICK j \in 1 .. Len(items) :
            First(f, j) /\ ids[f] = [index |-> j - 1, width |-> items[j].width]
      BY <2>5
    <3> DEFINE S == {k \in DOMAIN items : items[k].name = f}
    <3>2. j \in S /\ \A k \in S : j <= k
      BY <2>6, <3>1
    <3>3. S \subseteq Nat
      BY <2>6
    <3> HIDE DEF S
    <3>4. \A a \in S : (\A b \in S : a <= b) => a = j
      BY <3>2, <3>3
    <3>5. MinOf(S) = j
      BY <3>2, <3>4 DEF MinOf
    <3>6. Entry(f) = j
      BY <3>5 DEF Entry, S
    <3>7. QED
      BY <2>8, <3>1, <3>6 DEF ListedAs
  <2>9. QED
    BY <2>1, <2>2, <2>7, <2>8 DEF ListedAs
<1>4. QED
  BY <1>1, <1>2, <1>3

(* An image launches from the slot it fits on exactly the chips that have the *)
(* manifest's values at their fuses' places in the XML, be it in the header's  *)
(* order or not (main, readXML, hash_region, launch_RW).                       *)
THEOREM LaunchesWhereMeant == Spec => []SignedImageLaunches
<1>1. ASSUME ImageInv, IdsListed, Whole, ~run.fill, NEW slot \in Slots, NEW chip \in Chips, Fits(slot)
      PROVE  LoaderVerdict(slot, chip) = LAUNCH_SUCCESS
                <=> \A f \in DOMAIN Fuses : HasValue(chip, ListedAs(f), Fuses[f])
  <2>1. verify_SignedHeader(Signed, SlotSize(slot), slot) = LAUNCH_SUCCESS
    BY <1>1, HeaderTaken DEF Fits
  <2>2. /\ Digested(hdr) /\ Signed = hdr /\ output.cells = Cells
        /\ pc = "exit0" /\ run \in SignerRuns
    BY <1>1, WholeOutput DEF Signed
  <2>3. /\ Signed.img_chk_ = Digest(Signed, output.cells, Signed.image_size)
        /\ Signed.fuses_chk_ = fuse_values(Fuses, ids, FUSE_IGNORE)
        /\ Signed.fusemap = markFuse(Fuses, ids) /\ fuses_accepted(Fuses, ids)
    BY <2>2 DEF Digested, Described
  <2>4. fuse_array(Signed, efuse_of(chip)) = LoaderArray(chip, markFuse(Fuses, ids), FUSE_IGNORE)
    BY <2>3, SignerAssumption DEF fuse_array, LoaderArray
  <2>5. Numbered(ids) /\ \A f \in DOMAIN ids : ids[f] = ListedAs(f)
    BY <1>1, <2>2, ListedPlaces DEF IdsListed, AfterHeader
  <2>6. \A f \in DOMAIN Fuses : ids[f] = ListedAs(f)
    BY <2>3, <2>5 DEF fuses_accepted
  <2>7. Chip(chip)
    BY <1>1, SignerAssumption DEF Chip, BlownBits, Zero
  <2>8. fuse_values(Fuses, ids, FUSE_IGNORE)
            = LoaderArray(chip, markFuse(Fuses, ids), FUSE_IGNORE)
           <=> \A f \in DOMAIN Fuses : HasValue(chip, ids[f], Fuses[f])
    BY <2>3, <2>5, <2>7, SignedForTheseFuses
  <2>9. LoaderVerdict(slot, chip) = LAUNCH_SUCCESS
           <=> Signed.fuses_chk_ = fuse_array(Signed, efuse_of(chip))
    BY <2>1, <2>3 DEF LoaderVerdict, LAUNCH_SUCCESS, LAUNCH_INVALID_HASH
  <2>10. QED
    BY <2>3, <2>4, <2>6, <2>8, <2>9
<1>2. ImageInv /\ IdsListed => SignedImageLaunches
  BY <1>1 DEF SignedImageLaunches
<1>3. Init => IdsListed
  BY DEF Init, IdsListed, AfterHeader
<1>4. Spec => []IdsListed
  BY <1>3, ListedStep, PTL DEF Spec
<1>5. QED
  BY <1>2, <1>4, ImageInvariance, PTL
=============================================================================
