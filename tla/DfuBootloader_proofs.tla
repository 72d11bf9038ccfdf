------------------------ MODULE DfuBootloader_proofs ------------------------
(***************************************************************************)
(* Proofs about DfuBootloader, for every set of blocks, payloads, request  *)
(* lengths and IAP failures: type correctness, the protection of the       *)
(* bootloader region, the agreement of status and state, and the action    *)
(* property that only an open, error-free session changes flash.           *)
(***************************************************************************)
EXTENDS DfuBootloader, TLAPS

(* The arithmetic heart of the protection: flash.h's sector_number never   *)
(* puts a block that memory_policy permits and one of the bootloader's     *)
(* image into the same sector, so erasing the sector of a permitted block  *)
(* spares the bootloader.                                                  *)
LEMMA ProtectedSector ==
  ASSUME NEW b \in Nat, NEW c \in Nat,
         write_permitted(Address(b)), InBootloader(c)
  PROVE  sector_number(Address(c)) # sector_number(Address(b))
BY SMT DEF write_permitted, InBootloader, Address, sector_number, transfer_size

(* Every effect of Flash::write has a well-typed flash. *)
LEMMA WritesType ==
  ASSUME NEW f \in [Block -> Content], NEW b \in Block, NEW data \in Payload,
         NEW w \in Writes(f, b, data)
  PROVE  w.flash \in [Block -> Content]
<1>1. /\ Erased(f, sector_number(Address(b))) \in [Block -> Content]
      /\ Spoiled(f, sector_number(Address(b))) \in [Block -> Content]
  BY DEF Erased, Spoiled, Content
<1>2. ASSUME NEW g \in [Block -> Content] PROVE Programmed(g, b, data) \in [Block -> Content]
  BY DEF Programmed, Content
<1> QED
  BY <1>1, <1>2 DEF Writes

(* No effect of Flash::write on a permitted block touches the bootloader. *)
LEMMA WritesSpare ==
  ASSUME NEW f \in [Block -> Content], NEW b \in Block, NEW data \in Payload,
         NEW w \in Writes(f, b, data), NEW c \in Block,
         write_permitted(Address(b)), InBootloader(c)
  PROVE  w.flash[c] = f[c]
<1>1. b \in Nat /\ c \in Nat
  BY BlockAssumption
<1>2. sector_number(Address(c)) # sector_number(Address(b)) /\ c # b
  BY <1>1, ProtectedSector
<1>3. /\ Erased(f, sector_number(Address(b)))[c] = f[c]
      /\ Spoiled(f, sector_number(Address(b)))[c] = f[c]
      /\ Erased(f, sector_number(Address(b))) \in [Block -> Content]
  BY <1>2 DEF Erased, Spoiled, Content
<1>4. ASSUME NEW g \in [Block -> Content], g[c] = f[c] PROVE Programmed(g, b, data)[c] = f[c]
  BY <1>2, <1>4 DEF Programmed
<1> QED
  BY <1>3, <1>4 DEF Writes

(* The same two facts for a write that is cut off by a loss of power. *)
LEMMA TornWritesSpare ==
  ASSUME NEW f \in [Block -> Content], NEW b \in Block,
         NEW g \in TornWrites(f, b), NEW c \in Block,
         write_permitted(Address(b)), InBootloader(c)
  PROVE  g \in [Block -> Content] /\ g[c] = f[c]
<1>1. b \in Nat /\ c \in Nat
  BY BlockAssumption
<1>2. sector_number(Address(c)) # sector_number(Address(b)) /\ c # b
  BY <1>1, ProtectedSector
<1> QED
  BY <1>2 DEF TornWrites, Erased, Spoiled, Content

(* A torn write leaves contents.                                           *)
LEMMA TornWritesType ==
  ASSUME NEW f \in [Block -> Content], NEW b \in Block, NEW g \in TornWrites(f, b)
  PROVE  g \in [Block -> Content]
BY DEF TornWrites, Erased, Spoiled, Content
-----------------------------------------------------------------------------
(* The inductive invariant: the three parts need each other only through   *)
(* TypeOK.                                                                 *)
Inv == TypeOK /\ BootloaderIntact /\ ErrorConsistent

(* Power-on satisfies the invariant.                                       *)
LEMMA InitInv == Init => Inv
<1> SUFFICES ASSUME Init PROVE Inv
  OBVIOUS
<1>1. TypeOK
  BY DEF Init, TypeOK, State, Status, APPDETACH, DFUIDLE
<1>2. BootloaderIntact
  BY DEF Init, BootloaderIntact
<1>3. ErrorConsistent
  BY DEF Init, ErrorConsistent
<1> QED
  BY <1>1, <1>2, <1>3 DEF Inv

(* What a request handler may do to the DFU machine, whatever it is asked: *)
(* the common postcondition of all eight branches of request_handler.      *)
Handled ==
  /\ state' \in State /\ status' \in Status /\ virginity' \in BOOLEAN
  /\ flash' \in [Block -> Content]
  /\ reply' \in {"ack", "stall"}
  /\ BootloaderIntact'
  /\ state' >= DFUIDLE => (status' # "OK" <=> state' = DFUERROR)
  /\ flash' # flash => status = "OK" /\ virginity' = FALSE /\ state' # DFUIDLE

(* Every request handler keeps the invariant.                              *)
LEMMA HandlerInv ==
  ASSUME Inv, running = "dfu", in_dfu_mode,
         NEW r \in BRequest, NEW s \in Setup, NEW data \in Payload,
         request_handler(r, s, data)
  PROVE  Handled
<1> USE DEF APPIDLE, APPDETACH, DFUIDLE, DFUDNLOAD_SYNC, DFUDNLOAD_IDLE,
            DFUMANIFEST_SYNC, DFUUPLOAD_IDLE, DFUERROR, State, Status
<1>0. /\ state \in State /\ status \in Status /\ virginity \in BOOLEAN
      /\ flash \in [Block -> Content]
      /\ state >= DFUIDLE /\ (status # "OK" <=> state = DFUERROR)
      /\ BootloaderIntact
      /\ s.wValue \in Block
  BY DEF Inv, TypeOK, ErrorConsistent, in_dfu_mode, Setup
<1>e. ASSUME NEW st \in Status \ {"OK"}, error(st) PROVE Handled
  <2>1. state' = DFUERROR /\ virginity' = FALSE /\ status' = st /\ flash' = flash /\ reply' = "stall"
    BY <1>0, <1>e DEF error, set_state
  <2>2. BootloaderIntact'
    BY <1>0, <2>1 DEF BootloaderIntact
  <2>3. state' \in State /\ status' \in Status
    BY <1>0, <2>1 
  <2>4. virginity' \in BOOLEAN
    BY <1>0, <2>1 
  <2>5. flash' \in [Block -> Content]
    BY <1>0, <2>1 
  <2>6. state' >= DFUIDLE => (status' # "OK" <=> state' = DFUERROR)
    BY <1>0, <2>1 
  <2>7. flash' # flash => status = "OK" /\ virginity' = FALSE /\ state' # DFUIDLE
    BY <1>0, <2>1 
  <2> QED
    BY <2>1, <2>2,<2>3,<2>4, <2>5, <2>6, <2>7 DEF Handled
<1>q. ASSUME state' \in State, status' = status, flash' = flash, virginity' \in BOOLEAN,
             reply' \in {"ack", "stall"},
             state' >= DFUIDLE => (status # "OK" <=> state' = DFUERROR)
      PROVE  Handled
  BY <1>0, <1>q DEF Handled, BootloaderIntact
<1> HIDE DEF State, Status
<1>s. ASSUME NEW t \in State, t # DFUERROR, state # DFUERROR \/ t = APPDETACH,
             set_state(t), reply' = "ack", status' = status, flash' = flash
      PROVE  Handled
  <2>1. state' = t /\ virginity' = FALSE
    BY <1>s DEF set_state
  <2>2. virginity' \in BOOLEAN
    BY <2>1, Zenon
  <2>3. state' >= DFUIDLE => (status # "OK" <=> state' = DFUERROR)
    BY <1>0, <1>s, <2>1
  <2> QED
    BY <1>q, <1>s, <2>1, <2>2, <2>3
<1>u. ASSUME state' = state, virginity' = virginity, reply' \in {"ack", "stall"},
             status' = status, flash' = flash
      PROVE  Handled
  BY <1>0, <1>q, <1>u
<1>t. /\ {APPDETACH, DFUIDLE, DFUDNLOAD_SYNC, DFUDNLOAD_IDLE, DFUMANIFEST_SYNC} \subseteq State
      /\ {"ERRWRITE", "ERRPROG", "ERRADDRESS", "ERRUNKNOWN", "ERRSTALLEDPKT"} \subseteq Status \ {"OK"}
  BY DEF State, Status
<1>1. CASE request_detach(s)
  BY <1>1, <1>e, <1>s, <1>t DEF request_detach
<1>2. CASE request_dnload(s, data)
  <2>1. CASE dnload_end
    BY <2>1, <1>e, <1>s, <1>t DEF dnload_end
  <2>2. CASE dnload_block(s.wValue, data)
    <3>1. CASE error("ERRSTALLEDPKT") \/ error("ERRWRITE")
      BY <1>e, <1>t, <3>1
    <3>2. CASE /\ state \in {DFUIDLE, DFUDNLOAD_IDLE}
               /\ write_permitted(Address(s.wValue))
               /\ \E w \in Writes(flash, s.wValue, data) :
                    /\ flash' = w.flash
                    /\ set_state(IF w.result = "success" THEN DFUDNLOAD_SYNC ELSE DFUERROR)
                    /\ status' = IF w.result = "success" THEN status ELSE "ERRPROG"
                    /\ reply' = IF w.result = "success" THEN "ack" ELSE "stall"
      <4>1. PICK w \in Writes(flash, s.wValue, data) :
                    /\ flash' = w.flash
                    /\ set_state(IF w.result = "success" THEN DFUDNLOAD_SYNC ELSE DFUERROR)
                    /\ status' = IF w.result = "success" THEN status ELSE "ERRPROG"
                    /\ reply' = IF w.result = "success" THEN "ack" ELSE "stall"
        BY <3>2
      <4>2. flash' \in [Block -> Content]
        BY <1>0, <4>1, WritesType
      <4>3. BootloaderIntact'
        BY <1>0, <3>2, <4>1, WritesSpare DEF BootloaderIntact
      <4>4. virginity' = FALSE /\ state' \in {DFUDNLOAD_SYNC, DFUERROR}
        BY <4>1 DEF set_state
      <4>5. status' \in Status /\ (status' # "OK" <=> state' = DFUERROR) /\ status = "OK"
        BY <1>0, <1>t, <3>2, <4>1 DEF set_state
      <4>6. reply' \in {"ack", "stall"} /\ state' \in State /\ state' # DFUIDLE
        BY <4>1, <4>4 DEF State
      <4> QED
        BY <4>2, <4>3, <4>4, <4>5, <4>6 DEF Handled
    <3> QED
      BY <2>2, <3>1, <3>2 DEF dnload_block
  <2>3. CASE error("ERRUNKNOWN")
    BY <1>e, <1>t, <2>3
  <2> QED
    BY <1>2, <2>1, <2>2, <2>3 DEF request_dnload
<1>3. CASE request_upload(s)
  BY <1>3, <1>e, <1>s, <1>t DEF request_upload, upload_accepted
<1>4. CASE request_getstatus(s)
  BY <1>4, <1>s, <1>u, <1>t DEF request_getstatus
<1>5. CASE request_clrstatus(s)
  <2>1. CASE error("ERRUNKNOWN")
    BY <1>e, <1>t, <2>1
  <2>2. CASE status' = "OK" /\ set_state(DFUIDLE) /\ reply' = "ack" /\ flash' = flash
    <3>1. BootloaderIntact' /\ flash' \in [Block -> Content]
      BY <1>0, <2>2 DEF BootloaderIntact
    <3>2. state' = DFUIDLE /\ virginity' = FALSE
      BY <2>2 DEF set_state
    <3>3. virginity' \in BOOLEAN
      BY <3>2, Zenon
    <3>4. status' \in Status /\ (status' # "OK" <=> state' = DFUERROR) /\ state' \in State
      BY <1>t, <2>2, <3>2 DEF Status
    <3> QED
      BY <2>2, <3>1, <3>3, <3>4 DEF Handled
  <2> QED
    BY <1>5, <2>1, <2>2 DEF request_clrstatus
<1>6. CASE request_getstate(s)
  BY <1>6, <1>e, <1>u, <1>t DEF request_getstate
<1>7. CASE request_abort(s)
  BY <1>7, <1>e, <1>s, <1>t DEF request_abort
<1>8. CASE UNCHANGED <<state, status, virginity, flash>> /\ reply' = "stall"
  BY <1>8, <1>u
<1> QED
  BY <1>1, <1>2, <1>3, <1>4, <1>5, <1>6, <1>7, <1>8 DEF request_handler

(* Every step keeps the invariant.                                         *)
LEMMA NextInv == Inv /\ [Next]_vars => Inv'
<1> SUFFICES ASSUME Inv, [Next]_vars PROVE Inv'
  OBVIOUS
<1>0. TypeOK /\ BootloaderIntact /\ ErrorConsistent
  BY DEF Inv
<1>1. ASSUME NEW r \in BRequest, NEW s \in Setup, NEW data \in Payload, Request(r, s, data)
      PROVE  Inv'
  <2>1. Handled
    BY <1>1, HandlerInv DEF Request
  <2> QED
    BY <1>0, <1>1, <2>1 DEF Inv, Handled, Request, bootVars, TypeOK, BootloaderIntact,
                            ErrorConsistent, in_dfu_mode
<1>2. CASE LeaveDfuMode
  BY <1>0, <1>2 DEF Inv, LeaveDfuMode, dfuVars, TypeOK, BootloaderIntact, ErrorConsistent
<1>3. CASE DfuTimeout
  BY <1>0, <1>3 DEF Inv, DfuTimeout, dfuVars, TypeOK, BootloaderIntact, ErrorConsistent
<1>4. CASE Main
  <2>1. TypeOK'
    BY <1>0, <1>4 DEF Main, TypeOK, State, Status, DFUIDLE
  <2>2. BootloaderIntact' /\ ErrorConsistent'
    BY <1>0, <1>4 DEF Main, BootloaderIntact, ErrorConsistent, DFUIDLE, DFUERROR
  <2> QED
    BY <2>1, <2>2 DEF Inv
<1>5. CASE AppFlash
  BY <1>0, <1>5 DEF Inv, AppFlash, dfuVars, TypeOK, BootloaderIntact, ErrorConsistent
<1>6. ASSUME NEW m \in {"IDLE", "RESET"}, AppRequestMode(m)
      PROVE  Inv'
  BY <1>0, <1>6 DEF Inv, AppRequestMode, dfuVars, TypeOK, BootloaderIntact, ErrorConsistent
<1>7. CASE AppReset
  BY <1>0, <1>7 DEF Inv, AppReset, dfuVars, TypeOK, BootloaderIntact, ErrorConsistent
<1>8. ASSUME NEW v \in BOOLEAN, PowerOn(v)
      PROVE  Inv'
  BY <1>0, <1>8 DEF Inv, PowerOn, dfuVars, TypeOK, BootloaderIntact, ErrorConsistent
<1>9. CASE PowerLoss
  BY <1>0, <1>9 DEF Inv, PowerLoss, dfuVars, TypeOK, BootloaderIntact, ErrorConsistent
<1>10. ASSUME NEW b \in Block, PowerLossInWrite(b)
       PROVE  Inv'
  <2>1. flash' \in [Block -> Content]
    BY <1>0, <1>10, TornWritesType DEF PowerLossInWrite, TypeOK
  <2>2. BootloaderIntact'
    BY <1>0, <1>10, TornWritesSpare DEF PowerLossInWrite, TypeOK, BootloaderIntact
  <2> QED
    BY <1>0, <1>10, <2>1, <2>2 DEF Inv, PowerLossInWrite, TypeOK, ErrorConsistent
<1>11. CASE MoveJumper
  BY <1>0, <1>11 DEF Inv, MoveJumper, dfuVars, TypeOK, BootloaderIntact, ErrorConsistent,
                     in_dfu_mode
<1>12. CASE UNCHANGED vars
  BY <1>0, <1>12 DEF Inv, vars, TypeOK, BootloaderIntact, ErrorConsistent, in_dfu_mode
<1> QED
  BY <1>1, <1>2, <1>3, <1>4, <1>5, <1>6, <1>7, <1>8, <1>9, <1>10, <1>11, <1>12
     DEF Next, Device, World

(* The invariant holds throughout.                                         *)
LEMMA Invariance == Spec => []Inv
<1>1. Init => Inv
  BY InitInv
<1>2. Inv /\ [Next]_vars => Inv'
  BY NextInv
<1> QED
  BY <1>1, <1>2, PTL DEF Spec

(* Every reachable state of the device is well typed; in particular the    *)
(* DFU machine stays within the six states dfu.cpp enters.                 *)
THEOREM TypeCorrect == Spec => []TypeOK
<1>1. Inv => TypeOK
  BY DEF Inv
<1> QED
  BY <1>1, Invariance, PTL

(* memory_policy and the sector geometry together keep every host, every   *)
(* IAP failure and every loss of power out of the bootloader's 16 KiB.     *)
THEOREM BootloaderProtected == Spec => []BootloaderIntact
<1>1. Inv => BootloaderIntact
  BY DEF Inv
<1> QED
  BY <1>1, Invariance, PTL

(* The DFU status byte and the DFU state never disagree about an error. *)
THEOREM ErrorsConsistent == Spec => []ErrorConsistent
<1>1. Inv => ErrorConsistent
  BY DEF Inv
<1> QED
  BY <1>1, Invariance, PTL

(* Only an accepted DNLOAD of an error-free session, or a power loss in    *)
(* one, changes flash, and the session is then no longer virgin.           *)
THEOREM FlashOnlyInSession == Spec => FlashChangesOpenSession
<1> DEFINE Step == flash' # flash =>
                     /\ running = "dfu" /\ status = "OK"
                     /\ running' = "off" \/ (~virginity' /\ state' # DFUIDLE)
<1>1. ASSUME Inv, [Next]_vars PROVE [Step]_vars
  <2>1. ASSUME NEW r \in BRequest, NEW s \in Setup, NEW data \in Payload, Request(r, s, data)
        PROVE  Step
    <3>1. Handled /\ running = "dfu"
      BY <1>1, <2>1, HandlerInv DEF Request
    <3> QED
      BY <3>1 DEF Handled
  <2>2. ASSUME NEW b \in Block, PowerLossInWrite(b) PROVE Step
    BY <1>1, <2>2 DEF PowerLossInWrite, Inv, ErrorConsistent, in_dfu_mode,
                      DFUIDLE, DFUDNLOAD_IDLE, DFUERROR
  <2>3. CASE flash' = flash
    BY <2>3
  <2> QED
    BY <1>1, <2>1, <2>2, <2>3
       DEF Next, Device, World, LeaveDfuMode, DfuTimeout, Main, AppFlash, AppRequestMode,
           AppReset, PowerOn, PowerLoss, MoveJumper, dfuVars, vars
<1>2. FlashChangesOpenSession <=> [][Step]_vars
  BY DEF FlashChangesOpenSession
<1> QED
  BY <1>1, <1>2, Invariance, PTL DEF Spec
=============================================================================
