----------------------- MODULE FirmwareUpdate_proofs -----------------------
(***************************************************************************)
(* Proofs about ubertooth-dfu on the device of DfuBootloader, and about    *)
(* `ubertooth flash` around the two, for every image, option set, number   *)
(* of faults, runs and power losses, wherever the time limit ends the tool *)
(* and whenever a second Ubertooth is plugged in.                          *)
(*                                                                         *)
(* Of the tool: its types, that it writes erased blocks only, that a quiet *)
(* success is a complete image, and that it implements DfuUpdate.  The     *)
(* inductive invariant follows a download block by block: what has been    *)
(* written (Image), and what is still erased behind it (Progress).  The    *)
(* latter is about the device's state alone, since an error there stops    *)
(* every further block, whatever the tool has noticed.                     *)
(*                                                                         *)
(* Of the command: its types, and what a reported success means.  The      *)
(* invariant of the tool survives its end by the time limit.  On top of    *)
(* it: the command waits for the device only after a tool has ended with   *)
(* the image complete, and while no tool runs nothing writes it.           *)
(***************************************************************************)
EXTENDS FlashCommand, DfuBootloader_proofs

-----------------------------------------------------------------------------
(* Sectors.                                                                *)

Sector(b) == sector_number(Address(b))
Boundary(b) == at_sector_boundary(Address(b))

(* A block at a boundary is the first of its sector.                       *)
LEMMA FirstOfSector ==
  ASSUME NEW b \in Nat, NEW c \in Nat, Boundary(b), Sector(c) = Sector(b)
  PROVE  b <= c
<1>1. CASE Address(b) < 65536
  <2>1. Address(b) % 4096 = 0
    BY <1>1 DEF Boundary, at_sector_boundary, sector_size
  <2>2. QED
    BY <1>1, <2>1 DEF Sector, sector_number, Address, transfer_size
<1>2. CASE ~(Address(b) < 65536)
  <2>1. Address(b) % 32768 = 0
    BY <1>2 DEF Boundary, at_sector_boundary, sector_size
  <2>2. QED
    BY <1>2, <2>1 DEF Sector, sector_number, Address, transfer_size
<1>3. QED
  BY <1>1, <1>2

(* The block after b is in b's sector or at a boundary.                    *)
LEMMA NextOfSector ==
  ASSUME NEW b \in Nat, ~Boundary(b + 1)
  PROVE  Sector(b + 1) = Sector(b)
<1>1. CASE Address(b + 1) < 65536
  <2>1. Address(b + 1) % 4096 # 0
    BY <1>1 DEF Boundary, at_sector_boundary, sector_size
  <2>2. QED
    BY <1>1, <2>1 DEF Sector, sector_number, Address, transfer_size
<1>2. CASE ~(Address(b + 1) < 65536)
  <2>1. Address(b + 1) % 32768 # 0
    BY <1>2 DEF Boundary, at_sector_boundary, sector_size
  <2>2. QED
    BY <1>2, <2>1 DEF Sector, sector_number, Address, transfer_size
<1>3. QED
  BY <1>1, <1>2

(* A download begins at a boundary.                                        *)
LEMMA FirstIsBoundary == FirstBlock \in Nat /\ Boundary(FirstBlock)
  BY DEF FirstBlock, Boundary, at_sector_boundary, Address, sector_size, transfer_size
-----------------------------------------------------------------------------
(* The invariant.                                                          *)

Plain ==
  /\ pc \in {"idle", "find", "wait", "claim", "check_suffix", "upload", "download", "detach",
            "enter", "abort", "clear", "upload_entered", "download_entered",
            "detach_entered", "get_status", "detaching", "stop", "exited"}
  /\ ret \in {"none", "upload", "download", "detach"}
  /\ functions \in SUBSET {"UPLOAD", "DOWNLOAD", "RESET"}
  /\ signed \in BOOLEAN /\ unsupported \in BOOLEAN
  /\ devh \in {"none", "open", "stale"}
  /\ block \in Nat
  /\ exit \in {"none", "fail", "success"}
  /\ faults \in 0..MaxFaults /\ runs \in 0..MaxRuns /\ losses \in 0..MaxLosses

Entering == pc \in {"enter", "abort", "clear"}

(* Where the tool is agrees with the block, the handle and the options.    *)
Position ==
  /\ devh = "open" => running = "dfu"
  /\ exit # "none" <=> pc = "exited"
  /\ pc \in {"download_entered", "get_status"} => block \in ImageBlocks
  /\ pc = "upload_entered" => block \in FirstBlock .. FirstBlock + NUpload - 1
  /\ Entering => block = FirstBlock /\ ret # "none"
  /\ pc \in {"check_suffix", "download", "download_entered", "get_status"}
       \/ (Entering /\ ret = "download") => "DOWNLOAD" \in functions

(* The rest of the sector that block m continues is erased, while the      *)
(* device accepts blocks.                                                  *)
Blank(m) == ~Boundary(m) => \A c \in Block : m <= c /\ Sector(c) = Sector(m) => flash[c] = "blank"
Accepting == devh = "open" /\ state # DFUERROR
Progress ==
  /\ pc = "download_entered" /\ Accepting => Blank(block)
  /\ pc = "get_status" /\ Accepting => Blank(block + 1)

(* The blocks before m are the file's; all of them once download is over.  *)
Written(m) == \A b \in ImageBlocks : b < m => flash[b] = "new"
Over ==
  \/ pc \in {"detach", "detach_entered", "detaching", "stop"}
  \/ Entering /\ ret = "detach"
  \/ exit = "success"
Image ==
  /\ pc = "download_entered" /\ devh = "open" /\ ~unsupported => Written(block)
  /\ pc = "get_status" /\ ~unsupported => Written(block + 1)
  /\ Over /\ ~unsupported /\ "DOWNLOAD" \in functions => Complete

CopiesSucceed == "copy" \notin IapFault

ToolInv == Inv /\ Plain /\ Position /\ Progress /\ (CopiesSucceed => Image)
-----------------------------------------------------------------------------
(* Transfers.                                                              *)

(* What the tool sends is a request of the device's.                       *)
LEMMA SetupIs ==
  ASSUME NEW v \in {0} \cup ImageBlocks \cup (FirstBlock .. FirstBlock + NUpload - 1),
         NEW l \in {0, 1, 6, transfer_size}
  PROVE  [wValue |-> v, wLength |-> l] \in Setup
<1>1. v \in Block /\ l \in WLength
  BY RequestAssumption, BlockAssumption
<1>2. QED
  BY <1>1 DEF Setup

(* Whatever becomes of a transfer, the device keeps its invariant.         *)
LEMMA TransferInv ==
  ASSUME Inv, Plain, NEW r \in BRequest, NEW s \in Setup, NEW rv \in Result,
         Transfer(r, s, "new", rv)
  PROVE  /\ Inv' /\ faults' \in 0..MaxFaults /\ bootVars' = bootVars
         /\ \/ flash' = flash
            \/ devh = "open" /\ running = "dfu" /\ request_handler(r, s, "new")
<1>1. "new" \in Payload
  BY ToolAssumption
<1>2. Request(r, s, "new") \/ vars' = vars
  BY DEF Transfer
<1>3. Inv'
  <2>1. [Next]_vars
    BY <1>1, <1>2 DEF Next, World
  <2>2. QED
    BY <2>1, NextInv
<1>4. faults' \in 0..MaxFaults
  BY ToolAssumption DEF Transfer, Plain
<1>5. bootVars' = bootVars
  BY <1>2 DEF Request, bootVars, vars
<1>6. flash' = flash \/ (devh = "open" /\ running = "dfu" /\ request_handler(r, s, "new"))
  BY DEF Transfer, Request, vars
<1>7. QED
  BY <1>3, <1>4, <1>5, <1>6

(* Only DNLOAD changes flash.                                              *)
LEMMA ReadsOnly ==
  ASSUME NEW r \in BRequest \ {"DNLOAD"}, NEW s, NEW data, request_handler(r, s, data)
  PROVE  flash' = flash
  BY DEF request_handler, request_detach, request_upload, request_getstatus, request_clrstatus,
         request_getstate, request_abort, error, set_state, upload_accepted

(* A request of the tool that is no DNLOAD.                                *)
LEMMA CallInv ==
  ASSUME Inv, Plain, NEW r \in BRequest, NEW rv \in Result,
         NEW v \in {0} \cup ImageBlocks \cup (FirstBlock .. FirstBlock + NUpload - 1),
         NEW l \in {0, 1, 6, transfer_size}, Call(r, v, l, rv)
  PROVE  /\ Inv' /\ faults' \in 0..MaxFaults /\ running' = running
         /\ unsupported' \in BOOLEAN /\ (unsupported => unsupported')
         /\ rv = "pipe" => unsupported'
         /\ functions' = functions /\ signed' = signed /\ devh' = devh
         /\ runs' = runs /\ losses' = losses
         /\ r # "DNLOAD" => flash' = flash
<1>1. Transfer(r, [wValue |-> v, wLength |-> l], "new", rv) /\ [wValue |-> v, wLength |-> l] \in Setup
  BY SetupIs DEF Call
<1>2. /\ Inv' /\ faults' \in 0..MaxFaults /\ bootVars' = bootVars
      /\ \/ flash' = flash
         \/ request_handler(r, [wValue |-> v, wLength |-> l], "new")
  BY <1>1, TransferInv
<1>3. r # "DNLOAD" => flash' = flash
  BY <1>2, ReadsOnly
<1>4. /\ unsupported' \in BOOLEAN /\ (unsupported => unsupported')
      /\ rv = "pipe" => unsupported'
  <2>1. unsupported' = (unsupported \/ rv = "pipe") /\ unsupported \in BOOLEAN
    BY DEF Call, Warn, Plain
  <2>2. QED
    BY <2>1
<1>5. QED
  BY <1>2, <1>3, <1>4 DEF Call, bootVars

-----------------------------------------------------------------------------
(* The steps that do not write.                                            *)

(* They carry a download's block along, begin one, or leave it.            *)
LEMMA QuietSteps ==
  ASSUME Plain, Progress, flash' = flash,
         pc' = "download_entered" /\ Accepting' =>
           \/ pc = "get_status" /\ Accepting /\ block' = block + 1
           \/ pc = "download_entered" /\ Accepting /\ block' = block
           \/ block' = FirstBlock,
         pc' = "get_status" /\ Accepting' => pc = "get_status" /\ Accepting /\ block' = block
  PROVE  Progress'
<1>1. \A m \in Nat : Blank(m) <=> Blank(m)'
  BY DEF Blank
<1>2. Blank(FirstBlock)
  BY FirstIsBoundary DEF Blank
<1>3. block \in Nat /\ block + 1 \in Nat /\ FirstBlock \in Nat
  BY FirstIsBoundary DEF Plain
<1>4. ASSUME NEW m \in Nat, Blank(m), block' = m PROVE Blank(block)'
  BY <1>4 DEF Blank
<1>5. ASSUME block' = block, Blank(block + 1) PROVE Blank(block + 1)'
  BY <1>5 DEF Blank
<1>6. QED
  BY <1>2, <1>3, <1>4, <1>5 DEF Progress

(* The same of what has been written.                                      *)
LEMMA QuietImage ==
  ASSUME Plain, Position, Image, flash' = flash, unsupported => unsupported',
         functions' = functions,
         pc' = "download_entered" /\ devh' = "open" =>
           \/ pc = "get_status" /\ block' = block + 1
           \/ pc = "download_entered" /\ devh = "open" /\ block' = block
           \/ block' = FirstBlock,
         pc' = "get_status" => pc = "get_status" /\ block' = block,
         Over' => \/ Over
                  \/ "DOWNLOAD" \notin functions
                  \/ pc = "get_status" /\ block >= FirstBlock + NImage - 1
  PROVE  Image'
<1>1. Written(FirstBlock)
  BY FirstIsBoundary, ToolAssumption DEF Written, ImageBlocks
<1>2. ASSUME NEW m, Written(m), block' = m PROVE Written(block)'
  BY <1>2 DEF Written
<1>3. ASSUME block' = block, Written(block + 1) PROVE Written(block + 1)'
  BY <1>3 DEF Written
<1>4. ASSUME block >= FirstBlock + NImage - 1, Written(block + 1) PROVE Complete
  <2>1. block \in Nat /\ NImage \in Nat /\ FirstBlock \in Nat
    BY FirstIsBoundary, ToolAssumption DEF Plain
  <2>2. \A b \in ImageBlocks : b < block + 1
    BY <1>4, <2>1 DEF ImageBlocks
  <2>3. QED
    BY <1>4, <2>2 DEF Written, Complete
<1>5. Complete => Complete'
  BY DEF Complete
<1>6. QED
  BY <1>1, <1>2, <1>3, <1>4, <1>5 DEF Image
-----------------------------------------------------------------------------
(* Each step keeps the invariant.                                          *)

(* main's own steps: no transfer, and nothing is written.                  *)
LEMMA LocalInv ==
  ASSUME ToolInv, Find \/ Wait \/ Claim \/ CheckSuffix \/ Begin \/ Stop
  PROVE  ToolInv'
<1>1. Inv /\ Plain /\ Position /\ Progress /\ (CopiesSucceed => Image)
  BY DEF ToolInv
<1>2. /\ vars' = vars \/ AppFlash
      /\ functions' = functions /\ signed' = signed /\ unsupported' = unsupported
      /\ faults' = faults /\ runs' = runs /\ losses' = losses
  BY DEF Find, Wait, Claim, CheckSuffix, Begin, Stop
<1>3. flash' = flash /\ running' = running
  BY <1>2 DEF vars, AppFlash, dfuVars
<1>4. Inv'
  <2>1. [Next]_vars
    BY <1>2 DEF Next, World
  <2>2. QED
    BY <1>1, <2>1, NextInv
<1>5. pc' \notin {"download_entered", "get_status"}
  BY DEF Find, Wait, Claim, CheckSuffix, Begin, Stop, Goto, Exit, AfterUpload
<1>6. Plain'
  BY <1>1, <1>2, FirstIsBoundary
     DEF Plain, Find, Wait, Claim, CheckSuffix, Begin, Stop, Goto, Exit, AfterUpload
<1>7. Position' /\ (Over' => Over \/ "DOWNLOAD" \notin functions)
  <2>1. CASE Find \/ Wait
    BY <1>1, <1>2, <1>3, <2>1 DEF Position, Over, Entering, Find, Wait, Goto, Exit
  <2>2. CASE Claim
    BY <1>1, <1>2, <1>3, <2>2 DEF Position, Over, Entering, Claim, Goto, Exit, AfterUpload
  <2>3. CASE CheckSuffix
    BY <1>1, <1>2, <1>3, <2>3 DEF Position, Over, Entering, CheckSuffix, Goto, Exit
  <2>4. CASE Begin
    BY <1>1, <1>2, <1>3, <2>4 DEF Position, Over, Entering, Begin, Goto
  <2>5. CASE Stop
    BY <1>1, <1>2, <1>3, <2>5 DEF Position, Over, Entering, Stop, Goto, Exit
  <2>6. QED
    BY <2>1, <2>2, <2>3, <2>4, <2>5
<1>8. Progress'
  BY <1>1, <1>3, <1>5, QuietSteps
<1>9. CopiesSucceed => Image'
  BY <1>1, <1>2, <1>3, <1>5, <1>7, QuietImage
<1>10. QED
  BY <1>4, <1>6, <1>7, <1>8, <1>9 DEF ToolInv, CopiesSucceed

(* The user starts the tool.                                               *)
LEMMA StartInv ==
  ASSUME ToolInv, Start
  PROVE  ToolInv'
<1>1. Inv /\ Plain
  BY DEF ToolInv
<1>2. /\ vars' = vars /\ pc' = "find" /\ ret' = "none" /\ functions' \in Functions
      /\ signed' \in BOOLEAN /\ devh' = "none" /\ block' = FirstBlock /\ exit' = "none"
      /\ unsupported' = FALSE /\ faults' = faults /\ losses' = losses
      /\ runs < MaxRuns /\ runs' = runs + 1
  BY DEF Start, Goto
<1>3. Inv'
  BY <1>1, <1>2, NextInv
<1>4. Plain'
  <2>1. functions' \in SUBSET {"UPLOAD", "DOWNLOAD", "RESET"}
    BY <1>2, ToolAssumption
  <2>2. runs' \in 0..MaxRuns
    BY <1>1, <1>2, ToolAssumption DEF Plain
  <2>3. signed' \in BOOLEAN /\ unsupported' \in BOOLEAN /\ block' \in Nat
    BY <1>2, FirstIsBoundary, Zenon
  <2>4. QED
    BY <1>1, <1>2, <2>1, <2>2, <2>3 DEF Plain
<1>5. Position' /\ Progress' /\ Image'
  BY <1>2 DEF Position, Progress, Image, Over, Entering
<1>6. QED
  BY <1>3, <1>4, <1>5 DEF ToolInv

(* enter_dfu_mode.                                                         *)
LEMMA EnterInv ==
  ASSUME ToolInv, EnterState \/ EnterAbort \/ EnterClear
  PROVE  ToolInv'
<1>1. Inv /\ Plain /\ Position /\ Progress /\ (CopiesSucceed => Image)
  BY DEF ToolInv
<1>2. Entering /\ block = FirstBlock /\ ret \in {"upload", "download", "detach"}
  BY <1>1 DEF EnterState, EnterAbort, EnterClear, Entering, Position, Plain
<1>3. PICK r \in {"GETSTATE", "ABORT", "CLRSTATUS"}, l \in {0, 1}, rv \in Result : Call(r, 0, l, rv)
  BY DEF EnterState, EnterAbort, EnterClear
<1>4. /\ Inv' /\ faults' \in 0..MaxFaults /\ running' = running
      /\ unsupported' \in BOOLEAN /\ (unsupported => unsupported')
      /\ functions' = functions /\ signed' = signed /\ devh' = devh
      /\ runs' = runs /\ losses' = losses /\ flash' = flash
  BY <1>1, <1>3, CallInv DEF BRequest
<1>5. /\ block' = block /\ ret' = ret
      /\ \/ pc' \in {"enter", "abort", "clear"} /\ exit' = exit
         \/ ret = "detach" /\ pc' \in {"detach_entered", "stop"} /\ exit' = exit
         \/ ret = "upload" /\ pc' = "upload_entered" /\ exit' = exit
         \/ ret = "download" /\ pc' = "download_entered" /\ exit' = exit
         \/ ret # "detach" /\ pc' = "exited" /\ exit' = "fail"
  <2>1. CASE EnterState
    <3>1. Entered[ret] = CASE ret = "upload" -> "upload_entered"
                           [] ret = "download" -> "download_entered"
                           [] OTHER -> "detach_entered"
      BY <1>2 DEF Entered
    <3>2. QED
      BY <1>2, <2>1, <3>1 DEF EnterState, Goto
  <2>2. CASE EnterAbort
    BY <1>2, <2>2 DEF EnterAbort, Goto, Failed, Exit
  <2>3. CASE EnterClear
    BY <1>2, <2>3 DEF EnterClear, Goto
  <2>4. QED
    BY <2>1, <2>2, <2>3
<1>6. pc \notin {"exited", "download_entered", "get_status"}
  BY <1>2 DEF Entering
<1>7. Plain'
  BY <1>1, <1>4, <1>5 DEF Plain
<1>8. Position'
  <2>1. FirstBlock \in ImageBlocks /\ FirstBlock \in FirstBlock .. FirstBlock + NUpload - 1
    BY FirstIsBoundary, ToolAssumption DEF ImageBlocks
  <2>2. QED
    BY <1>1, <1>2, <1>4, <1>5, <1>6, <2>1 DEF Position, Entering
<1>9. Progress'
  BY <1>1, <1>2, <1>4, <1>5, QuietSteps
<1>10. CopiesSucceed => Image'
  <2>1. Over' => Over
    BY <1>1, <1>2, <1>5, <1>6 DEF Over, Entering, Position
  <2>2. QED
    BY <1>1, <1>2, <1>4, <1>5, <2>1, QuietImage
<1>11. QED
  BY <1>4, <1>7, <1>8, <1>9, <1>10 DEF ToolInv, CopiesSucceed

(* Uploading, asking for the status and detaching.                         *)
LEMMA ReadInv ==
  ASSUME ToolInv, UploadBlock \/ DownloadStatus \/ DetachState \/ DetachRequest
  PROVE  ToolInv'
<1>1. Inv /\ Plain /\ Position /\ Progress /\ (CopiesSucceed => Image)
  BY DEF ToolInv
<1>2. PICK r \in {"UPLOAD", "GETSTATUS", "GETSTATE", "DETACH"},
           v \in {0} \cup (FirstBlock .. FirstBlock + NUpload - 1),
           l \in {0, 1, 6, transfer_size}, rv \in Result :
        Call(r, v, l, rv)
  <2>1. UploadBlock => block \in FirstBlock .. FirstBlock + NUpload - 1
    BY <1>1 DEF UploadBlock, Position
  <2>2. QED
    BY <2>1 DEF UploadBlock, DownloadStatus, DetachState, DetachRequest
<1>3. /\ Inv' /\ faults' \in 0..MaxFaults /\ running' = running
      /\ unsupported' \in BOOLEAN /\ (unsupported => unsupported')
      /\ functions' = functions /\ signed' = signed /\ devh' = devh
      /\ runs' = runs /\ losses' = losses /\ flash' = flash
  BY <1>1, <1>2, CallInv DEF BRequest
<1>4. FirstBlock \in Nat /\ block \in Nat /\ NImage \in Nat /\ NUpload \in Nat /\ ret' = ret
  BY <1>1, FirstIsBoundary, ToolAssumption
     DEF Plain, UploadBlock, DownloadStatus, DetachState, DetachRequest
<1>5. CASE UploadBlock
  <2>1. /\ pc = "upload_entered" /\ block' \in {block, block + 1}
        /\ \/ /\ pc' = "upload_entered" /\ exit' = exit /\ block' = block + 1
              /\ block < FirstBlock + NUpload - 1
           \/ /\ exit' = exit
              /\ \/ pc' = "check_suffix" /\ "DOWNLOAD" \in functions
                 \/ pc' \in {"detach", "stop"} /\ "DOWNLOAD" \notin functions
           \/ pc' = "exited" /\ exit' = "fail"
    BY <1>5 DEF UploadBlock, Goto, Failed, Exit, AfterUpload
  <2>2. Plain'
    BY <1>1, <1>3, <1>4, <2>1 DEF Plain
  <2>3. Position'
    BY <1>1, <1>3, <1>4, <2>1 DEF Position, Entering
  <2>4. Progress'
    BY <1>1, <1>3, <2>1, QuietSteps
  <2>5. CopiesSucceed => Image'
    <3>1. Over' => Over \/ "DOWNLOAD" \notin functions
      BY <1>1, <2>1 DEF Over, Entering, Position
    <3>2. QED
      BY <1>1, <1>3, <2>1, <3>1, QuietImage
  <2>6. QED
    BY <1>3, <2>2, <2>3, <2>4, <2>5 DEF ToolInv, CopiesSucceed
<1>6. CASE DownloadStatus
  <2>1. /\ pc = "get_status" /\ block' = block + 1 /\ exit' = exit
        /\ \/ pc' = "download_entered" /\ block < FirstBlock + NImage - 1
           \/ pc' \in {"detach", "stop"} /\ ~(block < FirstBlock + NImage - 1)
    BY <1>6 DEF DownloadStatus, Goto
  <2>2. Plain'
    BY <1>1, <1>3, <1>4, <2>1 DEF Plain
  <2>3. Position'
    BY <1>1, <1>3, <1>4, <2>1 DEF Position, Entering, ImageBlocks
  <2>4. Progress'
    <3>1. state' # DFUERROR => state # DFUERROR
      <4>1. PICK q \in Result : Call("GETSTATUS", 0, 6, q)
        BY <1>6 DEF DownloadStatus
      <4>2. \/ vars' = vars
            \/ request_handler("GETSTATUS", [wValue |-> 0, wLength |-> 6], "new")
        BY <4>1 DEF Call, Transfer, Request
      <4>3. request_getstatus([wValue |-> 0, wLength |-> 6]) => (state' # DFUERROR => state # DFUERROR)
        BY DEF request_getstatus, DFUERROR, DFUDNLOAD_SYNC, DFUMANIFEST_SYNC
      <4>4. QED
        BY <4>2, <4>3 DEF request_handler, vars
    <3>2. Accepting' => Accepting
      BY <1>3, <3>1 DEF Accepting, DFUERROR
    <3>3. QED
      BY <1>1, <1>3, <2>1, <3>2, QuietSteps
  <2>5. CopiesSucceed => Image'
    <3>1. Over' => block >= FirstBlock + NImage - 1
      BY <1>1, <1>4, <2>1 DEF Over, Entering, Position
    <3>2. QED
      BY <1>1, <1>3, <2>1, <3>1, QuietImage
  <2>6. QED
    BY <1>3, <2>2, <2>3, <2>4, <2>5 DEF ToolInv, CopiesSucceed
<1>7. CASE DetachState \/ DetachRequest
  <2>1. /\ pc \in {"detach_entered", "detaching"} /\ pc' \in {"detaching", "stop"}
        /\ block' = block /\ exit' = exit
    BY <1>7 DEF DetachState, DetachRequest, Goto
  <2>2. Plain'
    BY <1>1, <1>3, <1>4, <2>1 DEF Plain
  <2>3. Position'
    BY <1>1, <1>3, <1>4, <2>1 DEF Position, Entering
  <2>4. Progress'
    BY <1>1, <1>3, <2>1, QuietSteps
  <2>5. CopiesSucceed => Image'
    <3>1. Over' => Over
      BY <2>1 DEF Over
    <3>2. QED
      BY <1>1, <1>3, <2>1, <3>1, QuietImage
  <2>6. QED
    BY <1>3, <2>2, <2>3, <2>4, <2>5 DEF ToolInv, CopiesSucceed
<1>8. QED
  BY <1>5, <1>6, <1>7

(* The device's own steps and the power supply: none of them leaves the    *)
(* handle open, and only a loss of power in a write changes flash.         *)
LEMMA DeviceInv ==
  ASSUME ToolInv, DeviceStep \/ PowerStep
  PROVE  ToolInv'
<1>1. Inv /\ Plain /\ Position /\ Progress /\ (CopiesSucceed => Image)
  BY DEF ToolInv
<1>2. /\ pc' = pc /\ ret' = ret /\ functions' = functions /\ signed' = signed
      /\ block' = block /\ exit' = exit /\ unsupported' = unsupported
      /\ faults' = faults /\ runs' = runs /\ losses' \in 0..MaxLosses
      /\ Unplugged
  <2>1. losses' \in 0..MaxLosses
    <3>1. losses' = losses \/ (losses < MaxLosses /\ losses' = losses + 1)
      BY DEF DeviceStep, PowerStep
    <3>2. QED
      BY <1>1, <3>1, ToolAssumption DEF Plain
  <2>2. QED
    BY <2>1 DEF DeviceStep, PowerStep
<1>3. [Next]_vars
  <2>1. CASE DeviceStep
    BY <2>1 DEF DeviceStep, Next
  <2>2. CASE PowerStep
    <3>1. PowerOn(TRUE) \/ PowerLoss \/ (pc = "download_entered" /\ PowerLossInWrite(block))
      BY <2>2 DEF PowerStep
    <3>2. pc = "download_entered" => block \in Block
      BY <1>1, RequestAssumption DEF Position
    <3>3. QED
      BY <3>1, <3>2 DEF Next, World
  <2>3. QED
    BY <2>1, <2>2
<1>4. Inv'
  BY <1>1, <1>3, NextInv
<1>5. devh = "open" => running' # "dfu"
  BY <1>1 DEF Position, DeviceStep, PowerStep, Device, LeaveDfuMode, DfuTimeout, Main, AppReset,
              PowerOn, PowerLoss, PowerLossInWrite
<1>6. devh' \in {"none", "stale"}
  BY <1>1, <1>2, <1>5 DEF Unplugged, Position, Plain
<1>7. Plain'
  BY <1>1, <1>2, <1>6 DEF Plain
<1>8. Position'
  BY <1>1, <1>2, <1>6 DEF Position, Entering
<1>9. Progress'
  BY <1>6 DEF Progress, Accepting
<1>10. CopiesSucceed => Image'
  <2>1. flash' = flash \/ pc = "download_entered"
    BY DEF DeviceStep, PowerStep, Device, LeaveDfuMode, DfuTimeout, Main, AppReset,
           PowerOn, PowerLoss, dfuVars
  <2>2. Over' => Over
    BY <1>2 DEF Over, Entering
  <2>3. CASE flash' = flash
    BY <1>1, <1>2, <1>6, <2>2, <2>3, QuietImage
  <2>4. CASE pc = "download_entered"
    BY <1>1, <1>2, <1>6, <2>4 DEF Image, Over, Entering, Position
  <2>5. QED
    BY <2>1, <2>3, <2>4
<1>11. QED
  BY <1>4, <1>7, <1>8, <1>9, <1>10 DEF ToolInv, CopiesSucceed

(* What Flash::write finds where it programs block b.                      *)
Prepared(f, b) == IF Boundary(b) THEN Erased(f, Sector(b)) ELSE f

(* A DNLOAD of the tool is stalled, or writes.                             *)
LEMMA DnloadIs ==
  ASSUME Inv, running = "dfu", in_dfu_mode, NEW b \in Block,
         request_handler("DNLOAD", [wValue |-> b, wLength |-> transfer_size], "new")
  PROVE  \/ state' = DFUERROR /\ reply' = "stall"
         \/ /\ state \in {DFUIDLE, DFUDNLOAD_IDLE} /\ state' = DFUDNLOAD_SYNC /\ reply' = "ack"
            /\ \/ flash' = Programmed(Prepared(flash, b), b, "new")
               \/ "copy" \in IapFault /\ flash' = Prepared(flash, b)
<1> DEFINE s == [wValue |-> b, wLength |-> transfer_size]
<1>1. ASSUME NEW e, error(e) PROVE state' = DFUERROR /\ reply' = "stall"
  BY <1>1 DEF error, set_state, in_dfu_mode, APPIDLE, APPDETACH, DFUIDLE
<1>2. s.wLength = transfer_size /\ s.wValue = b /\ transfer_size # 0
  BY DEF transfer_size
<1> HIDE DEF s
<1>3. dnload_block(b, "new")
  BY <1>2 DEF request_handler, request_dnload, s
<1>4. CASE \E e : error(e)
  BY <1>1, <1>4
<1>5. ASSUME ~\E e : error(e)
      PROVE  /\ state \in {DFUIDLE, DFUDNLOAD_IDLE}
             /\ \E w \in Writes(flash, b, "new") :
                  /\ flash' = w.flash
                  /\ set_state(IF w.result = "success" THEN DFUDNLOAD_SYNC ELSE DFUERROR)
                  /\ reply' = IF w.result = "success" THEN "ack" ELSE "stall"
  BY <1>3, <1>5 DEF dnload_block
<1>6. CASE ~\E e : error(e)
  <2>1. PICK w \in Writes(flash, b, "new") :
          /\ flash' = w.flash
          /\ set_state(IF w.result = "success" THEN DFUDNLOAD_SYNC ELSE DFUERROR)
          /\ reply' = IF w.result = "success" THEN "ack" ELSE "stall"
    BY <1>5, <1>6
  <2>2. w.result = "success" =>
          \/ w.flash = Programmed(Prepared(flash, b), b, "new")
          \/ "copy" \in IapFault /\ w.flash = Prepared(flash, b)
    BY DEF Writes, Prepared, Boundary, Sector
  <2>3. QED
    BY <1>5, <1>6, <2>1, <2>2 DEF set_state
<1>7. QED
  BY <1>4, <1>6

(* It erases the sector it begins, and goes on in one that is erased.      *)
LEMMA WriteKeepsBlank ==
  ASSUME Inv, NEW b \in Block, Blank(b),
         \/ flash' = Programmed(Prepared(flash, b), b, "new")
         \/ flash' = Prepared(flash, b)
  PROVE  Blank(b + 1)' /\ Prepared(flash, b)[b] = "blank"
<1>1. b \in Nat /\ Block \subseteq Nat /\ flash \in [Block -> Content]
  BY BlockAssumption DEF Inv, TypeOK
<1>2. ASSUME NEW c \in Block, b <= c, Sector(c) = Sector(b)
      PROVE  Prepared(flash, b)[c] = "blank"
  BY <1>2 DEF Prepared, Erased, Sector, Blank
<1>3. Prepared(flash, b)[b] = "blank"
  BY <1>1, <1>2
<1>4. ASSUME NEW c \in Block, c # b PROVE flash'[c] = Prepared(flash, b)[c]
  <2>1. Prepared(flash, b) \in [Block -> Content]
    BY <1>1 DEF Prepared, Erased, Content
  <2>2. QED
    BY <1>4, <2>1 DEF Programmed
<1>5. ASSUME ~Boundary(b + 1), NEW c \in Block, b + 1 <= c, Sector(c) = Sector(b + 1)
      PROVE  flash'[c] = "blank"
  <2>1. c \in Nat /\ b <= c /\ c # b
    BY <1>1, <1>5
  <2>2. Sector(c) = Sector(b)
    BY <1>1, <1>5, NextOfSector
  <2>3. QED
    BY <1>2, <1>4, <2>1, <2>2
<1>6. Blank(b + 1)'
  BY <1>5 DEF Blank
<1>7. QED
  BY <1>3, <1>6

(* And the blocks before it stay as they were written.                     *)
LEMMA WriteKeepsWritten ==
  ASSUME Inv, NEW b \in ImageBlocks, Blank(b), Written(b),
         flash' = Programmed(Prepared(flash, b), b, "new")
  PROVE  Written(b + 1)'
<1>1. b \in Block /\ b \in Nat /\ ImageBlocks \subseteq Block /\ Block \subseteq Nat
  <2>1. ImageBlocks \subseteq Block
    BY RequestAssumption, Zenon
  <2>2. Block \subseteq Nat
    BY BlockAssumption
  <2>3. QED
    BY <2>1, <2>2
<1>2. flash \in [Block -> Content] /\ Prepared(flash, b) \in [Block -> Content]
  BY DEF Inv, TypeOK, Prepared, Erased, Content
<1>3. flash'[b] = "new"
  <2>1. Prepared(flash, b)[b] = "blank"
    BY <1>1, WriteKeepsBlank
  <2>2. QED
    BY <1>1, <1>2, <2>1 DEF Programmed
<1>4. ASSUME NEW c \in ImageBlocks, c < b PROVE flash'[c] = "new"
  <2>1. c \in Block /\ c \in Nat /\ c # b /\ ~(b <= c)
    BY <1>1, <1>4
  <2>2. Boundary(b) => Sector(c) # Sector(b)
    BY <1>1, <2>1, FirstOfSector
  <2>3. Prepared(flash, b)[c] = flash[c]
    BY <1>2, <2>1, <2>2 DEF Prepared, Erased, Sector
  <2>4. flash'[c] = Prepared(flash, b)[c]
    BY <1>2, <2>1 DEF Programmed
  <2>5. QED
    BY <1>4, <2>3, <2>4 DEF Written
<1>5. \A c \in ImageBlocks : c < b + 1 => c < b \/ c = b
  BY <1>1
<1>6. QED
  BY <1>3, <1>4, <1>5 DEF Written

(* download writes a block.                                                *)
LEMMA DownloadInv ==
  ASSUME ToolInv, DownloadBlock
  PROVE  ToolInv'
<1>1. Inv /\ Plain /\ Position /\ Progress /\ (CopiesSucceed => Image)
  BY DEF ToolInv
<1>2. /\ pc = "download_entered" /\ block \in ImageBlocks /\ block \in Block
      /\ ret' = ret /\ block' = block /\ block \in Nat
  BY <1>1, RequestAssumption DEF DownloadBlock, Position, Plain
<1>3. PICK rv \in Result :
        /\ Call("DNLOAD", block, transfer_size, rv)
        /\ \/ rv = "err" /\ pc' = "exited" /\ exit' = "fail"
           \/ rv # "err" /\ pc' = "get_status" /\ exit' = exit
  BY DEF DownloadBlock, Stops, Failed, Exit, Goto
<1>4. /\ Inv' /\ faults' \in 0..MaxFaults /\ running' = running
      /\ unsupported' \in BOOLEAN /\ (unsupported => unsupported')
      /\ rv = "pipe" => unsupported'
      /\ functions' = functions /\ signed' = signed /\ devh' = devh
      /\ runs' = runs /\ losses' = losses
  BY <1>1, <1>2, <1>3, CallInv DEF BRequest
<1>5. Plain'
  BY <1>1, <1>2, <1>3, <1>4 DEF Plain
<1>6. Position'
  BY <1>1, <1>2, <1>3, <1>4 DEF Position, Entering
<1>7. ~Over'
  BY <1>1, <1>2, <1>3 DEF Over, Entering, Position
<1>8. CASE rv = "err"
  <2>1. Progress' /\ Image'
    BY <1>3, <1>7, <1>8 DEF Progress, Image
  <2>2. QED
    BY <1>4, <1>5, <1>6, <2>1 DEF ToolInv
<1>9. CASE rv # "err"
  <2>1. /\ devh = "open" /\ Request("DNLOAD", [wValue |-> block, wLength |-> transfer_size], "new")
        /\ rv = IF reply' = "ack" THEN "ok" ELSE "pipe"
    BY <1>3, <1>9 DEF Call, Transfer
  <2>2. \/ state' = DFUERROR /\ reply' = "stall"
        \/ /\ state \in {DFUIDLE, DFUDNLOAD_IDLE} /\ state' = DFUDNLOAD_SYNC /\ reply' = "ack"
           /\ \/ flash' = Programmed(Prepared(flash, block), block, "new")
              \/ "copy" \in IapFault /\ flash' = Prepared(flash, block)
    BY <1>1, <1>2, <2>1, DnloadIs DEF Request
  <2>3. CASE state' = DFUERROR /\ reply' = "stall"
    <3>1. unsupported'
      BY <1>4, <2>1, <2>3
    <3>2. Progress' /\ Image'
      BY <1>3, <1>7, <1>9, <2>3, <3>1 DEF Progress, Image, Accepting, DFUERROR
    <3>3. QED
      BY <1>4, <1>5, <1>6, <3>2 DEF ToolInv
  <2>4. CASE /\ state \in {DFUIDLE, DFUDNLOAD_IDLE}
             /\ \/ flash' = Programmed(Prepared(flash, block), block, "new")
                \/ "copy" \in IapFault /\ flash' = Prepared(flash, block)
    <3>1. Blank(block)
      BY <1>1, <1>2, <2>1, <2>4 DEF Progress, Accepting, DFUIDLE, DFUDNLOAD_IDLE, DFUERROR
    <3>2. \A m \in {block} : Blank(m + 1)'
      BY <1>1, <1>2, <2>4, <3>1, WriteKeepsBlank
    <3>3. Progress'
      BY <1>2, <1>3, <1>9, <3>2 DEF Progress, Blank
    <3>4. CopiesSucceed => Image'
      <4>1. SUFFICES ASSUME CopiesSucceed, ~unsupported PROVE Written(block + 1)'
        BY <1>3, <1>4, <1>7, <1>9 DEF Image
      <4>2. Written(block)
        BY <1>1, <1>2, <2>1, <4>1 DEF Image
      <4>3. \A m \in {block} : Written(m + 1)'
        BY <1>1, <1>2, <2>4, <3>1, <4>1, <4>2, WriteKeepsWritten DEF CopiesSucceed
      <4>4. QED
        BY <1>2, <4>3 DEF Written
    <3>5. QED
      BY <1>4, <1>5, <1>6, <3>3, <3>4 DEF ToolInv, CopiesSucceed
  <2>5. QED
    BY <2>2, <2>3, <2>4
<1>10. QED
  BY <1>8, <1>9

(* Every step keeps the invariant.                                         *)
LEMMA ToolStepInv == ToolInv /\ [ToolNext]_allVars => ToolInv'
<1> SUFFICES ASSUME ToolInv, [ToolNext]_allVars PROVE ToolInv'
  OBVIOUS
<1>1. CASE Find \/ Wait \/ Claim \/ CheckSuffix \/ Begin \/ Stop
  BY <1>1, LocalInv
<1>2. CASE EnterState \/ EnterAbort \/ EnterClear
  BY <1>2, EnterInv
<1>3. CASE UploadBlock \/ DownloadStatus \/ DetachState \/ DetachRequest
  BY <1>3, ReadInv
<1>4. CASE DownloadBlock
  BY <1>4, DownloadInv
<1>5. CASE Start
  BY <1>5, StartInv
<1>6. CASE DeviceStep \/ PowerStep
  BY <1>6, DeviceInv
<1>7. CASE UNCHANGED allVars
  <2>1. vars' = vars /\ toolVars' = toolVars
    BY <1>7 DEF allVars
  <2>2. Inv'
    BY <2>1, NextInv DEF ToolInv
  <2>3. Plain' /\ Position'
    BY <2>1 DEF ToolInv, Plain, Position, Entering, vars, toolVars
  <2>4. Progress' /\ (Image => Image')
    BY <2>1 DEF ToolInv, Progress, Accepting, Blank, Image, Written, Over, Entering, Complete,
                vars, toolVars
  <2>5. QED
    BY <2>2, <2>3, <2>4 DEF ToolInv, CopiesSucceed
<1>8. QED
  BY <1>1, <1>2, <1>3, <1>4, <1>5, <1>6, <1>7 DEF ToolNext, Tool

(* It holds at the start.                                                  *)
LEMMA ToolInitInv == ToolInit => ToolInv
<1> SUFFICES ASSUME ToolInit PROVE ToolInv
  OBVIOUS
<1>1. TypeOK
  <2>1. flash \in [Block -> Content]
    BY ToolAssumption DEF ToolInit, Content
  <2>2. QED
    BY <2>1 DEF ToolInit, TypeOK, State, Status, APPDETACH, DFUIDLE
<1>2. BootloaderIntact /\ ErrorConsistent
  BY DEF ToolInit, BootloaderIntact, ErrorConsistent
<1>3. Plain
  <2>1. faults \in 0..MaxFaults /\ runs \in 0..MaxRuns /\ losses \in 0..MaxLosses
    BY ToolAssumption DEF ToolInit
  <2>2. block \in Nat /\ signed \in BOOLEAN /\ unsupported \in BOOLEAN
    BY FirstIsBoundary, Zenon DEF ToolInit
  <2>3. QED
    BY <2>1, <2>2 DEF ToolInit, Plain
<1>4. Position /\ Progress /\ Image
  BY DEF ToolInit, Position, Progress, Image, Over, Entering
<1>5. QED
  BY <1>1, <1>2, <1>3, <1>4 DEF ToolInv, Inv

(* It holds throughout.                                                    *)
LEMMA ToolInvariance == ToolSpec => []ToolInv
  BY ToolInitInv, ToolStepInv, PTL DEF ToolSpec

(* Every variable of the tool and of the device it drives keeps its type:  *)
(* ToolTypeOK.                                                             *)
THEOREM ToolTypeCorrect == ToolSpec => []ToolTypeOK
<1>1. ToolInv => ToolTypeOK
  BY DEF ToolInv, Inv, Plain, ToolTypeOK
<1>2. QED
  BY <1>1, ToolInvariance, PTL

(* The tool, its faults and the losses of power leave the bootloader of    *)
(* its device alone: BootloaderIntact.                                     *)
THEOREM ToolSparesBootloader == ToolSpec => []BootloaderIntact
<1>1. ToolInv => BootloaderIntact
  BY DEF ToolInv, Inv
<1>2. QED
  BY <1>1, ToolInvariance, PTL

(* A download that ends with success and no warning has written the whole  *)
(* image, if no IAP copy fails: QuietSuccessIsComplete.                    *)
THEOREM QuietSuccess ==
  ASSUME CopiesSucceed
  PROVE  ToolSpec => []QuietSuccessIsComplete
<1>1. ToolInv => QuietSuccessIsComplete
  BY DEF ToolInv, Image, Over, QuietSuccessIsComplete
<1>2. QED
  BY <1>1, ToolInvariance, PTL

(* Every block a download writes lands on erased flash, whatever fails:    *)
(* WritesErasedBlocks.                                                     *)
THEOREM ErasedBlocksWritten == ToolSpec => WritesErasedBlocks
<1> DEFINE Step == (pc = "download_entered" /\ state # DFUDNLOAD_SYNC /\ state' = DFUDNLOAD_SYNC)
                     => at_sector_boundary(Address(block)) \/ flash[block] = "blank"
<1>1. ASSUME ToolInv, [ToolNext]_allVars PROVE [Step]_allVars
  <2> SUFFICES ASSUME ToolNext, pc = "download_entered", state # DFUDNLOAD_SYNC,
                      state' = DFUDNLOAD_SYNC, ~Boundary(block)
               PROVE  flash[block] = "blank"
    BY <1>1 DEF Boundary
  <2>1. Inv /\ Position /\ Progress /\ block \in ImageBlocks /\ block \in Block /\ block \in Nat
    BY <1>1, RequestAssumption DEF ToolInv, Position, Plain
  <2>2. DownloadBlock
    <3>1. ~(DeviceStep \/ PowerStep)
      BY DEF DeviceStep, PowerStep, Device, LeaveDfuMode, DfuTimeout, Main, AppReset,
             PowerOn, PowerLoss, PowerLossInWrite, dfuVars, DFUIDLE, DFUDNLOAD_SYNC
    <3>2. QED
      BY <3>1 DEF ToolNext, Tool, Start, Find, Wait, Claim, CheckSuffix, Begin, Stop, EnterState,
                  EnterAbort, EnterClear, UploadBlock, DownloadStatus, DetachState, DetachRequest
  <2>3. devh = "open" /\ Request("DNLOAD", [wValue |-> block, wLength |-> transfer_size], "new")
    BY <2>2 DEF DownloadBlock, Call, Transfer, vars
  <2>4. state \in {DFUIDLE, DFUDNLOAD_IDLE}
    BY <2>1, <2>3, DnloadIs DEF Request, DFUERROR, DFUDNLOAD_SYNC
  <2>5. Blank(block)
    BY <2>1, <2>3, <2>4 DEF Progress, Accepting, DFUIDLE, DFUDNLOAD_IDLE, DFUERROR
  <2>6. QED
    BY <2>1, <2>5 DEF Blank
<1>2. WritesErasedBlocks <=> [][Step]_allVars
  BY DEF WritesErasedBlocks
<1>3. QED
  BY <1>1, <1>2, ToolInvariance, PTL DEF ToolSpec

-----------------------------------------------------------------------------
(* The tool implements DfuUpdate.                                          *)

Run == CASE pc = "idle" -> "none"
         [] pc = "exited" /\ exit = "fail" -> "failed"
         [] pc = "exited" /\ exit # "fail" -> "succeeded"
         [] OTHER -> IF "DOWNLOAD" \in functions THEN "downloading" ELSE "reading"

(* A run is under way, or how it ended.                                    *)
LEMMA RunIs ==
  /\ pc = "idle" => Run = "none"
  /\ pc = "exited" => Run = IF exit = "fail" THEN "failed" ELSE "succeeded"
  /\ pc \notin {"idle", "exited"} =>
       Run = IF "DOWNLOAD" \in functions THEN "downloading" ELSE "reading"
  BY DEF Run

(* The tool but for DownloadBlock writes nothing, and fails if it ends     *)
(* before main returns.                                                    *)
LEMMA ToolReads ==
  ASSUME ToolInv, Tool, ~DownloadBlock, ~Stop
  PROVE  /\ flash' = flash /\ functions' = functions /\ (unsupported => unsupported')
         /\ pc \notin {"idle", "exited"} /\ pc' # "idle" /\ (pc' = "exited" => exit' = "fail")
<1>1. ASSUME NEW r \in BRequest \ {"DNLOAD"}, NEW v, NEW l, NEW rv, Call(r, v, l, rv)
      PROVE  flash' = flash /\ functions' = functions /\ (unsupported => unsupported')
  <2>1. \/ vars' = vars
        \/ request_handler(r, [wValue |-> v, wLength |-> l], "new")
    BY <1>1 DEF Call, Transfer, Request
  <2>2. flash' = flash
    BY <2>1, ReadsOnly DEF vars
  <2>3. unsupported' = (unsupported \/ rv = "pipe") /\ unsupported \in BOOLEAN
    BY <1>1 DEF Call, Warn, ToolInv, Plain
  <2>4. QED
    BY <1>1, <2>2, <2>3 DEF Call
<1>2. CASE Find \/ Wait \/ Claim \/ CheckSuffix \/ Begin
  <2>1. flash' = flash /\ functions' = functions /\ unsupported' = unsupported
    BY <1>2 DEF Find, Wait, Claim, CheckSuffix, Begin, vars, AppFlash, dfuVars
  <2>2. pc \notin {"idle", "exited"} /\ pc' # "idle" /\ (pc' = "exited" => exit' = "fail")
    BY <1>2 DEF Find, Wait, Claim, CheckSuffix, Begin, Goto, Exit, AfterUpload
  <2>3. QED
    BY <2>1, <2>2
<1>3. CASE EnterState \/ EnterAbort \/ EnterClear
  <2>1. flash' = flash /\ functions' = functions /\ (unsupported => unsupported')
    BY <1>1, <1>3 DEF EnterState, EnterAbort, EnterClear, BRequest
  <2>2. ret \in {"upload", "download", "detach"}
    BY <1>3 DEF ToolInv, Plain, Position, Entering, EnterState, EnterAbort, EnterClear
  <2>3. Entered[ret] \notin {"idle", "exited"}
    BY <2>2 DEF Entered
  <2>4. pc \notin {"idle", "exited"} /\ pc' # "idle" /\ (pc' = "exited" => exit' = "fail")
    BY <1>3, <2>3 DEF EnterState, EnterAbort, EnterClear, Goto, Exit, Failed
  <2>5. QED
    BY <2>1, <2>4
<1>4. CASE UploadBlock \/ DownloadStatus \/ DetachState \/ DetachRequest
  <2>1. flash' = flash /\ functions' = functions /\ (unsupported => unsupported')
    BY <1>1, <1>4 DEF UploadBlock, DownloadStatus, DetachState, DetachRequest, BRequest
  <2>2. pc \notin {"idle", "exited"} /\ pc' # "idle" /\ (pc' = "exited" => exit' = "fail")
    BY <1>4 DEF UploadBlock, DownloadStatus, DetachState, DetachRequest, Goto, Exit, Failed,
                AfterUpload
  <2>3. QED
    BY <2>1, <2>2
<1>5. QED
  BY <1>2, <1>3, <1>4 DEF Tool

(* What ubertooth-dfu promises, whatever the bus and the power supply do,  *)
(* if no IAP copy fails: ImplementsUpdate.                                 *)
THEOREM UpdateImplemented ==
  ASSUME CopiesSucceed
  PROVE  ToolSpec => ImplementsUpdate
<1> DEFINE I == [b \in ImageBlocks \cap Block |-> flash[b]]
<1>1. ToolInit => Update!Init
  <2> SUFFICES ASSUME ToolInit PROVE ~Complete /\ Run = "none" /\ ~unsupported
    BY DEF Update!Init, Run
  <2>1. FirstBlock \in ImageBlocks /\ FirstBlock \in Block /\ ~InBootloader(FirstBlock)
    <3>1. FirstBlock \in ImageBlocks
      BY FirstIsBoundary, ToolAssumption DEF ImageBlocks
    <3>2. QED
      BY <3>1, RequestAssumption DEF InBootloader, Address, transfer_size, FirstBlock
  <2>2. flash[FirstBlock] = "old"
    BY <2>1 DEF ToolInit
  <2>3. QED
    BY <2>1, <2>2, RunIs DEF ToolInit, Complete
<1>2. ASSUME ToolInv, [ToolNext]_allVars PROVE [Update!Next]_(Update!vars)
  <2>1. Plain /\ Position /\ Image
    BY <1>2 DEF ToolInv
  <2>2. flash' = flash => I' = I /\ Complete' = Complete
    BY DEF Complete
  <2>3. CASE Start
    <3>1. I' = I /\ Complete' = Complete /\ ~unsupported'
      BY <2>2, <2>3 DEF Start, vars
    <3>2. Run \in {"none", "failed", "succeeded"} /\ Run' \in {"reading", "downloading"}
      <4>1. pc \in {"idle", "exited"} /\ pc' = "find"
        BY <2>3 DEF Start, Goto
      <4>2. Run \in {"none", "failed", "succeeded"}
        BY <4>1, RunIs
      <4>3. Run' \in {"reading", "downloading"}
        BY <4>1 DEF Run
      <4>4. QED
        BY <4>2, <4>3
    <3>3. Update!Start
      BY <3>1, <3>2 DEF Update!Start, Update!Ended, Update!Active, Run
    <3>4. QED
      BY <3>3 DEF Update!Next
  <2>4. CASE Stop
    <3>1. /\ I' = I /\ Complete' = Complete /\ unsupported' = unsupported /\ pc = "stop"
          /\ pc' = "exited" /\ exit' = "success"
      BY <2>2, <2>4 DEF Stop, Exit, Goto, vars
    <3>2. Run \in {"reading", "downloading"} /\ (Run = "downloading" /\ ~unsupported => Complete)
      BY <2>1, <3>1, RunIs DEF Image, Over
    <3>3. Run' = "succeeded"
      BY <3>1 DEF Run
    <3>4. Update!Succeed
      BY <3>1, <3>2, <3>3 DEF Update!Succeed, Update!Active, Run
    <3>5. QED
      BY <3>4 DEF Update!Next
  <2>5. CASE Tool /\ ~DownloadBlock /\ ~Stop
    <3>1. /\ flash' = flash /\ functions' = functions /\ (unsupported => unsupported')
          /\ pc \notin {"idle", "exited"} /\ pc' # "idle" /\ (pc' = "exited" => exit' = "fail")
      BY <1>2, <2>5, ToolReads
    <3>2. Run \in {"reading", "downloading"} /\ Run' \in {Run, "failed"}
      BY <3>1 DEF Run
    <3>3. Update!Step
      BY <2>2, <3>1, <3>2 DEF Update!Step, Update!Active, Run
    <3>4. QED
      BY <3>3 DEF Update!Next
  <2>6. CASE DownloadBlock
    <3>1. /\ pc = "download_entered" /\ functions' = functions /\ "DOWNLOAD" \in functions
          /\ pc' = "get_status" \/ (pc' = "exited" /\ exit' = "fail")
      BY <2>1, <2>6 DEF DownloadBlock, Call, Failed, Exit, Goto, Position
    <3>2. unsupported => unsupported'
      <4>1. PICK rv : unsupported' = (unsupported \/ rv = "pipe")
        BY <2>6 DEF DownloadBlock, Call, Warn
      <4>2. QED
        BY <4>1
    <3>3. Run = "downloading" /\ Run' \in {Run, "failed"}
      BY <3>1 DEF Run
    <3>4. Update!Write
      BY <3>2, <3>3 DEF Update!Write, Run
    <3>5. QED
      BY <3>4 DEF Update!Next
  <2>7. CASE DeviceStep \/ PowerStep
    <3>1. /\ pc' = pc /\ functions' = functions /\ exit' = exit /\ unsupported' = unsupported
          /\ flash' = flash \/ pc = "download_entered"
      BY <2>7 DEF DeviceStep, PowerStep, Device, LeaveDfuMode, DfuTimeout, Main, AppReset,
                  PowerOn, PowerLoss, dfuVars
    <3>2. Run' = Run
      BY <3>1 DEF Run
    <3>3. CASE flash' = flash
      BY <2>2, <3>1, <3>2, <3>3 DEF Update!vars, Run
    <3>4. CASE pc = "download_entered"
      <4>1. Run = "downloading"
        BY <2>1, <3>4, RunIs DEF Position
      <4>2. Update!Write
        BY <3>1, <3>2, <4>1 DEF Update!Write, Run
      <4>3. QED
        BY <4>2 DEF Update!Next
    <3>5. QED
      BY <3>1, <3>3, <3>4
  <2>8. CASE UNCHANGED allVars
    <3>1. flash' = flash /\ pc' = pc /\ functions' = functions /\ exit' = exit
          /\ unsupported' = unsupported
      BY <2>8 DEF allVars, vars, toolVars
    <3>2. Run' = Run
      BY <3>1 DEF Run
    <3>3. QED
      BY <2>2, <3>1, <3>2 DEF Update!vars, Run
  <2>9. QED
    BY <1>2, <2>3, <2>4, <2>5, <2>6, <2>7, <2>8 DEF ToolNext
<1>3. QED
  BY <1>1, <1>2, ToolInvariance, PTL DEF ToolSpec, ImplementsUpdate, Update!Spec

-----------------------------------------------------------------------------
(* The command around the tool.                                            *)

CommandType ==
  /\ step \in {"preflight", "spawn", "child", "astray", "reconnect", "recovery", "done"}
  /\ report \in {"none", "guardrail", "failed", "recovery_required",
                 "reconnect_timeout", "success"}
  /\ report = "none" <=> step # "done"
  /\ target \in {"none"} \cup Mode
  /\ other \in {"absent"} \cup Mode
  /\ strayed \in BOOLEAN

Waiting == step \in {"reconnect", "recovery"}
Starting == pc \in {"idle", "find", "wait"}

(* Where the child is, what it has opened, and that our flash is as it was *)
(* until the child has opened our device.                                  *)
Phase ==
  /\ step \in {"preflight", "spawn"} => pc = "idle" /\ ~strayed
  /\ step = "child" => "DOWNLOAD" \in functions /\ ~strayed
  /\ step = "astray" => strayed
  /\ Waiting /\ ~strayed => pc = "exited"
  /\ strayed => Starting
  /\ Starting => Untouched

Done == CopiesSucceed /\ Waiting /\ ~strayed => Complete

FlashInv == ToolInv /\ CommandType /\ Phase /\ Done
-----------------------------------------------------------------------------
(* Ending the tool at any point, or sending it on to its second search,    *)
(* keeps the invariant of the tool.                                        *)
LEMMA EndInv ==
  ASSUME ToolInv, devh' \in {devh, "none"},
         UNCHANGED <<vars, ret, functions, signed, block, unsupported, faults, runs, losses>>,
         \/ pc' = "exited" /\ exit' = "fail"
         \/ pc = "find" /\ pc' = "wait" /\ exit' = exit
  PROVE  ToolInv'
<1>1. /\ vars' = vars /\ ret' = ret /\ functions' = functions /\ signed' = signed
      /\ block' = block /\ unsupported' = unsupported /\ faults' = faults /\ runs' = runs
      /\ losses' = losses
  OBVIOUS
<1>2. Inv'
  BY <1>1, NextInv DEF ToolInv
<1>3. Plain' /\ Position'
  BY <1>1 DEF ToolInv, Plain, Position, Entering, vars, bootVars, dfuVars
<1>4. Progress' /\ Image'
  <2>1. pc' \in {"exited", "wait"} /\ exit' # "success"
    BY DEF ToolInv, Position
  <2>2. QED
    BY <2>1 DEF Progress, Image, Over, Entering
<1>5. QED
  BY <1>2, <1>3, <1>4 DEF ToolInv

(* The device and the power supply leave the tool's place alone, and the   *)
(* flash unless power fails in a write of the tool.                        *)
LEMMA BelowKeeps ==
  ASSUME DeviceStep \/ PowerStep
  PROVE  pc' = pc /\ functions' = functions /\ (pc # "download_entered" => flash' = flash)
BY DEF DeviceStep, PowerStep, Device, LeaveDfuMode, DfuTimeout, Main, AppReset,
       PowerOn, PowerLoss, dfuVars

(* Steps of the tool keep main's options, and it never searches again.     *)
LEMMA ToolKeeps ==
  ASSUME ToolInv, Tool
  PROVE  /\ functions' = functions
         /\ pc \notin {"idle", "exited"}
         /\ Starting' => pc \in {"find", "wait"} /\ flash' = flash
<1>1. CASE DownloadBlock
  <2>1. pc = "download_entered" /\ functions' = functions /\ pc' \in {"exited", "get_status", "stop"}
    BY <1>1 DEF DownloadBlock, Call, Failed, Goto, Exit
  <2>2. QED
    BY <2>1 DEF Starting
<1>2. CASE Stop
  BY <1>2 DEF Stop, Exit, Goto, Starting
<1>3. CASE Tool /\ ~DownloadBlock /\ ~Stop
  <2>1. functions' = functions /\ flash' = flash /\ pc \notin {"idle", "exited"}
    BY <1>3, ToolReads
  <2>2. CASE Find \/ Wait
    BY <2>1, <2>2 DEF Find, Wait
  <2>3. CASE Claim \/ CheckSuffix \/ Begin \/ DownloadStatus \/ DetachState \/ DetachRequest
             \/ UploadBlock
    <3>1. ~Starting'
      BY <2>3 DEF Claim, CheckSuffix, Begin, DownloadStatus, DetachState, DetachRequest,
                  UploadBlock, Goto, Exit, AfterUpload, Failed, Starting
    <3>2. QED
      BY <2>1, <3>1
  <2>4. CASE EnterState \/ EnterAbort \/ EnterClear
    <3>1. ret \in {"upload", "download", "detach"}
      BY <2>4 DEF ToolInv, Plain, Position, Entering, EnterState, EnterAbort, EnterClear
    <3>2. Entered[ret] \notin {"idle", "find", "wait"}
      BY <3>1 DEF Entered
    <3>3. ~Starting'
      BY <2>4, <3>2 DEF EnterState, EnterAbort, EnterClear, Goto, Exit, Failed, Starting
    <3>4. QED
      BY <2>1, <3>3
  <2>5. QED
    BY <1>3, <2>2, <2>3, <2>4 DEF Tool
<1>4. QED
  BY <1>1, <1>2, <1>3

(* Every step of the command keeps the invariant.                          *)
LEMMA FlashStepInv == FlashInv /\ [FlashNext]_flashVars => FlashInv'
<1> SUFFICES ASSUME FlashInv, [FlashNext]_flashVars PROVE FlashInv'
  OBVIOUS
<1>1. ToolInv /\ CommandType /\ Phase /\ Done
  BY DEF FlashInv
<1>2. ASSUME UNCHANGED allVars
      PROVE  /\ ToolInv' /\ functions' = functions /\ pc' = pc /\ flash' = flash
             /\ (Complete <=> Complete') /\ (Untouched <=> Untouched')
  <2>1. ToolInv'
    BY <1>1, <1>2, ToolStepInv
  <2>2. functions' = functions /\ pc' = pc /\ flash' = flash
    BY <1>2 DEF allVars, vars, dfuVars, toolVars
  <2>3. QED
    BY <2>1, <2>2 DEF Complete, Untouched
<1>3. CASE Preflight \/ (Spawn /\ UNCHANGED allVars)
  <2>1. /\ UNCHANGED <<allVars, other, strayed>> /\ step \in {"preflight", "spawn"}
        /\ target' \in {target, running} /\ (target' # target => Attached)
        /\ \/ step' = "spawn" /\ report' = report
           \/ step' = "done" /\ report' = "guardrail"
           \/ step' = "child" /\ Start
    BY <1>3 DEF Preflight, Spawn, Report
  <2>2. ~(UNCHANGED allVars /\ Start)
    <3>1. SUFFICES ASSUME pc' = pc, Start, pc \in {"idle", "exited"} PROVE FALSE
      BY DEF allVars, toolVars, Start
    <3>2. QED
      BY <3>1 DEF Start, Goto
  <2>3. CommandType' /\ ~Waiting'
    BY <1>1, <2>1, <2>2 DEF CommandType, Waiting, Attached
  <2>4. Phase'
    BY <1>1, <1>2, <2>1, <2>2, <2>3 DEF Phase, Starting
  <2>5. QED
    BY <1>2, <2>1, <2>3, <2>4 DEF FlashInv, Done
<1>4. CASE Spawn /\ Start
  <2>1. ToolInv'
    BY <1>1, <1>4, StartInv
  <2>2. /\ pc' = "find" /\ flash' = flash
        /\ step' = "child" /\ report' = report /\ UNCHANGED <<target, other, strayed>>
        /\ step = "spawn" /\ functions' = {"DOWNLOAD", "RESET"}
    <3>1. ~UNCHANGED allVars
      <4>1. pc \in {"idle", "exited"} /\ pc' = "find"
        BY <1>4 DEF Start, Goto
      <4>2. QED
        BY <4>1 DEF allVars, toolVars
    <3>2. pc' = "find" /\ flash' = flash
      BY <1>4 DEF Start, Goto, vars, dfuVars
    <3>3. QED
      BY <1>4, <3>1, <3>2 DEF Spawn
  <2>3. CommandType' /\ ~Waiting'
    BY <1>1, <2>2 DEF CommandType, Waiting
  <2>4. Phase'
    BY <1>1, <2>2, <2>3 DEF Phase, Starting, Untouched
  <2>5. QED
    BY <2>1, <2>3, <2>4 DEF FlashInv, Done
<1>5. CASE Classify
  <2>1. /\ UNCHANGED <<allVars, target, other, strayed>> /\ step = "child" /\ pc = "exited"
        /\ \/ step' = "reconnect" /\ report' = report /\ ~unsupported /\ exit = "success"
           \/ step' = "done" /\ report' \in {"recovery_required", "failed"}
    BY <1>5 DEF Classify, Report
  <2>2. CommandType'
    BY <1>1, <2>1 DEF CommandType
  <2>3. Phase'
    BY <1>1, <1>2, <2>1 DEF Phase, Waiting, Starting
  <2>4. CopiesSucceed /\ Waiting' => Complete
    BY <1>1, <2>1 DEF Waiting, Phase, ToolInv, Image, Over
  <2>5. QED
    BY <1>2, <2>1, <2>2, <2>3, <2>4 DEF FlashInv, Done, CopiesSucceed
<1>6. CASE ClassifyAstray \/ Reconnect \/ Recovery
  <2>1. /\ UNCHANGED <<allVars, target, other, strayed>> /\ (Waiting \/ step = "astray")
        /\ \/ step' = "reconnect" /\ report' = report /\ step = "astray"
           \/ step' = "recovery" /\ report' = report
           \/ step' = "done" /\ report' # "none"
                /\ report' \in {"failed", "recovery_required", "reconnect_timeout", "success"}
    BY <1>6 DEF ClassifyAstray, Reconnect, Recovery, Report, Waiting
  <2>2. CommandType'
    BY <1>1, <2>1 DEF CommandType, Waiting
  <2>3. Phase'
    BY <1>1, <1>2, <2>1 DEF Phase, Waiting, Starting
  <2>4. Done'
    BY <1>1, <1>2, <2>1 DEF Done, Phase, Waiting, CopiesSucceed
  <2>5. QED
    BY <1>2, <2>1, <2>2, <2>3, <2>4 DEF FlashInv
<1>7. CASE Kill \/ RefuseTwo \/ SwitchOther
  <2>1. /\ step = "child" /\ UNCHANGED <<step, report, target, strayed>>
        /\ other' \in {other} \cup Mode
        /\ UNCHANGED <<vars, ret, functions, signed, block, unsupported, faults, runs, losses>>
        /\ devh' \in {devh, "none"}
        /\ \/ pc' = "exited" /\ exit' = "fail"
           \/ pc = "find" /\ pc' = "wait" /\ exit' = exit
    BY <1>7 DEF Kill, RefuseTwo, SwitchOther, commandVars, Exit, Goto
  <2>2. ToolInv'
    BY <1>1, <2>1, EndInv
  <2>3. flash' = flash /\ functions' = functions
    BY <2>1 DEF vars, dfuVars
  <2>4. CommandType' /\ ~Waiting'
    BY <1>1, <2>1 DEF CommandType, Waiting
  <2>5. Phase'
    BY <1>1, <2>1, <2>3, <2>4 DEF Phase, Starting, Untouched
  <2>6. QED
    BY <2>2, <2>4, <2>5 DEF FlashInv, Done
<1>8. CASE PlugOther \/ OpenOther
  <2>1. /\ UNCHANGED <<allVars, report, target>>
        /\ other' \in {"absent"} \cup Mode
        /\ \/ step' = step /\ strayed' = strayed
           \/ step = "child" /\ pc \in {"find", "wait"} /\ step' = "astray" /\ strayed' = TRUE
    BY <1>1, <1>8 DEF PlugOther, OpenOther, CommandType
  <2>2. CommandType'
    BY <1>1, <2>1 DEF CommandType
  <2>3. Phase'
    BY <1>1, <1>2, <2>1 DEF Phase, Waiting, Starting
  <2>4. Done'
    BY <1>1, <1>2, <2>1 DEF Done, Waiting, CopiesSucceed
  <2>5. QED
    BY <1>2, <2>1, <2>2, <2>3, <2>4 DEF FlashInv
<1>9. CASE ChildTool
  <2>1. Tool /\ step = "child" /\ UNCHANGED commandVars
    BY <1>9 DEF ChildTool
  <2>2. ToolInv'
    BY <1>1, <2>1, ToolStepInv DEF ToolNext
  <2>3. /\ functions' = functions /\ pc \notin {"idle", "exited"}
        /\ Starting' => pc \in {"find", "wait"} /\ flash' = flash
    BY <1>1, <2>1, ToolKeeps
  <2>4. CommandType' /\ ~Waiting'
    BY <1>1, <2>1 DEF CommandType, commandVars, Waiting
  <2>5. Phase'
    BY <1>1, <2>1, <2>3, <2>4 DEF Phase, commandVars, Starting, Untouched
  <2>6. QED
    BY <2>2, <2>4, <2>5 DEF FlashInv, Done
<1>10. CASE Below
  <2>1. (DeviceStep \/ PowerStep) /\ UNCHANGED commandVars
    BY <1>10 DEF Below
  <2>2. ToolInv'
    BY <1>1, <2>1, ToolStepInv DEF ToolNext
  <2>3. pc' = pc /\ functions' = functions /\ (pc # "download_entered" => flash' = flash)
    BY <2>1, BelowKeeps
  <2>4. CommandType' /\ Waiting' = Waiting
    BY <1>1, <2>1 DEF CommandType, commandVars, Waiting
  <2>5. Phase'
    BY <1>1, <2>1, <2>3, <2>4 DEF Phase, commandVars, Starting, Untouched
  <2>6. Done'
    BY <1>1, <2>1, <2>3, <2>4 DEF Done, Phase, Complete, commandVars, CopiesSucceed
  <2>7. QED
    BY <2>2, <2>4, <2>5, <2>6 DEF FlashInv
<1>11. CASE UNCHANGED flashVars
  <2>1. UNCHANGED allVars /\ UNCHANGED <<step, report, target, other, strayed>>
    BY <1>11 DEF flashVars, commandVars
  <2>2. CommandType'
    BY <1>1, <2>1 DEF CommandType
  <2>3. Phase'
    BY <1>1, <1>2, <2>1 DEF Phase, Waiting, Starting
  <2>4. Done'
    BY <1>1, <1>2, <2>1 DEF Done, Waiting, CopiesSucceed
  <2>5. QED
    BY <1>2, <2>1, <2>2, <2>3, <2>4 DEF FlashInv
<1>12. Spawn => Start \/ UNCHANGED allVars
  BY DEF Spawn
<1>13. QED
  BY <1>3, <1>4, <1>5, <1>6, <1>7, <1>8, <1>9, <1>10, <1>11, <1>12 DEF FlashNext, Command, Child

(* The invariant holds throughout.                                         *)
LEMMA FlashInvariance == FlashSpec => []FlashInv
<1>1. FlashInit => FlashInv
  <2> SUFFICES ASSUME FlashInit PROVE FlashInv
    OBVIOUS
  <2>1. ToolInv
    BY ToolInitInv DEF FlashInit
  <2>2. CommandType /\ ~Waiting /\ pc = "idle"
    BY DEF FlashInit, ToolInit, CommandType, Waiting
  <2>3. Untouched
    BY DEF FlashInit, ToolInit, Untouched
  <2>4. Phase
    BY <2>2, <2>3 DEF FlashInit, Phase
  <2>5. QED
    BY <2>1, <2>2, <2>4 DEF FlashInv, Done
<1>2. QED
  BY <1>1, FlashStepInv, PTL DEF FlashSpec

(* Every variable of the command, the tool and the device keeps its type,  *)
(* and a report is there exactly when the command is done: FlashTypeOK.    *)
THEOREM FlashTypeCorrect == FlashSpec => []FlashTypeOK
<1>1. FlashInv => FlashTypeOK
  BY DEF FlashInv, ToolInv, Inv, Plain, ToolTypeOK, CommandType, FlashTypeOK
<1>2. QED
  BY <1>1, FlashInvariance, PTL

(* However the command ends the tool and whatever power does, the          *)
(* bootloader stays whole, so the device can be flashed again:             *)
(* BootloaderIntact.                                                       *)
THEOREM FlashSparesBootloader == FlashSpec => []BootloaderIntact
<1>1. FlashInv => BootloaderIntact
  BY DEF FlashInv, ToolInv, Inv
<1>2. QED
  BY <1>1, FlashInvariance, PTL

(* A success is reported only with the new image complete in our flash, or *)
(* with our flash as it was when the tool opened a second Ubertooth; the   *)
(* device that answered runs the application and is ours, or the other one *)
(* while ours is away; if no IAP copy fails: SuccessMeansUpdated.          *)
THEOREM ReportedSuccess ==
  ASSUME CopiesSucceed
  PROVE  FlashSpec => SuccessMeansUpdated
<1> DEFINE Step == report # "success" /\ report' = "success"
                     => /\ running = "application" \/ (~Attached /\ other = "application")
                        /\ IF strayed THEN Untouched ELSE Complete
<1>1. ASSUME FlashInv, [FlashNext]_flashVars PROVE [Step]_flashVars
  <2> SUFFICES ASSUME FlashNext, report # "success", report' = "success"
               PROVE  /\ running = "application" \/ (~Attached /\ other = "application")
                      /\ IF strayed THEN Untouched ELSE Complete
    BY <1>1
  <2>1. Recovery
    <3>1. ~(Child \/ Kill \/ PlugOther \/ Below)
      BY DEF Child, ChildTool, OpenOther, RefuseTwo, SwitchOther, Kill, PlugOther, Below, commandVars
    <3>2. QED
      BY <3>1 DEF FlashNext, Command, Preflight, Spawn, Classify, ClassifyAstray, Reconnect, Report
  <2>2. /\ step = "recovery"
        /\ running = "application" \/ (~Attached /\ other = "application")
    BY <2>1 DEF Recovery, Report, MatchesOther
  <2>3. IF strayed THEN Untouched ELSE Complete
    BY <1>1, <2>2 DEF FlashInv, Phase, Done, Waiting
  <2>4. QED
    BY <2>2, <2>3
<1>2. SuccessMeansUpdated <=> [][Step]_flashVars
  BY DEF SuccessMeansUpdated
<1>3. QED
  BY <1>1, <1>2, FlashInvariance, PTL DEF FlashSpec

=============================================================================
