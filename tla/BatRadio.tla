------------------------------ MODULE BatRadio ------------------------------
(***************************************************************************)
(* The kernel module batradio and its clients.  The module is inserted,    *)
(* with a failure possible at any step of init_bat, and removed, at any    *)
(* moment: its file_operations have no owner, so that an open device does  *)
(* not keep it.  Clients run batradio_client.c and may be interrupted.     *)
(* The ARM timer runs by itself, and its interrupt, when it is routed to   *)
(* the FIQ, runs bradio_handler.S on top of everything else.               *)
(*                                                                         *)
(* Nothing in the driver locks.  Every store of an ioctl and both halves   *)
(* of "status += 100" in batradio_mmap are steps: the kernel the module is *)
(* built for may be preemptible or, with setenv7.sh, have several cores.   *)
(***************************************************************************)
EXTENDS BatPrograms, Naturals, FiniteSets

CONSTANTS
  Modules,   \* the programs to try: a subset of Programs
  MayFail,   \* resources that may be refused, and "remap": batradio_mmap
  Clients,   \* processes that run batradio_client
  Loops,     \* rounds of the client's loop: 5, in batradio_client_1.c 20
  MaxLoads   \* bound: how often the module is inserted

ASSUME ModulesAssumption  == Modules \subseteq Programs
ASSUME MayFailAssumption  == MayFail \subseteq Resources \cup {"remap"}
ASSUME LoopsAssumption    == Loops \in Nat
ASSUME MaxLoadsAssumption == MaxLoads \in Nat

VARIABLES
  prog,      \* which of the programs it is
  phase,     \* "out", "init", "in", "exit": the life of the module
  step,      \* next step of init_bat or exit_bat
  loads,
  has,       \* resources the kernel holds for the module, present or past
  hw,        \* timer: enabled; pend: its interrupt; route: of the FIQ;
             \* status: the byte in fiq_buf, which every store goes with
  fd,        \* a client's descriptor: "none", "open", or "stale": open, and
             \* the module it leads to is gone
  place,     \* next line of a client's script
  call,      \* the steps left of the call it is in
  tmp,       \* status as loaded by "status += 100"
  oops,      \* why the kernel has crashed, or "no"
  failed,    \* history: an init_bat has failed
  abandoned, \* history: one has failed with the FIQ routed
  overlap    \* history: two calls were in progress at the same time

modVars    == <<prog, phase, step, loads, has>>
clientVars == <<fd, place, call, tmp>>
histVars   == <<failed, abandoned, overlap>>
vars       == <<modVars, hw, clientVars, oops, histVars>>

Init ==
  /\ prog \in Modules
  /\ phase = "out" /\ step = 1 /\ loads = 0 /\ has = {}
  /\ hw = [timer |-> FALSE, pend |-> FALSE, route |-> "off", status |-> 0]
  /\ fd = [c \in Clients |-> "none"] /\ place = [c \in Clients |-> 1]
  /\ call = [c \in Clients |-> <<>>] /\ tmp = [c \in Clients |-> 0]
  /\ oops = "no" /\ failed = FALSE /\ abandoned = FALSE /\ overlap = FALSE

Up == oops = "no"

(* What a store to a register or to the status byte does.                  *)
Stored(s) ==
  [tim_on  |-> [hw EXCEPT !.timer = TRUE],
   tim_off |-> [hw EXCEPT !.timer = FALSE],
   cint    |-> [hw EXCEPT !.pend = FALSE],
   handler |-> hw,
   fiq_on  |-> [hw EXCEPT !.route = "timer"],
   fiq_0   |-> [hw EXCEPT !.route = "other"],
   fiq_off |-> [hw EXCEPT !.route = "off"],
   st56    |-> [hw EXCEPT !.status = 56],
   st55    |-> [hw EXCEPT !.status = 55],
   st23    |-> [hw EXCEPT !.status = 23],
   st7     |-> [hw EXCEPT !.status = 7],
   st1     |-> [hw EXCEPT !.status = 1],
   st0     |-> [hw EXCEPT !.status = 0]][s]

-----------------------------------------------------------------------------
(* The module.                                                             *)

Insert ==
  /\ Up /\ phase = "out" /\ loads < MaxLoads
  /\ phase' = "init" /\ step' = 1 /\ loads' = loads + 1
  /\ UNCHANGED <<prog, has, hw, clientVars, oops, histVars>>

Do == Inits[prog][step]
InitNext ==
  /\ step' = step + 1
  /\ phase' = IF step = Len(Inits[prog]) THEN "in" ELSE "init"
  /\ UNCHANGED <<prog, loads, clientVars, oops, histVars>>

InitStore ==
  /\ Up /\ phase = "init" /\ Do \notin Resources
  /\ hw' = Stored(Do)
  /\ InitNext /\ UNCHANGED has

InitTake ==
  /\ Up /\ phase = "init" /\ Do \in Resources
  /\ Do \in Named => Do \notin has
  /\ has' = has \cup {Do}
  /\ InitNext /\ UNCHANGED hw

(* return ret or -ENOMEM: insmod fails and the module's memory is freed    *)
InitFails ==
  /\ Up /\ phase = "init" /\ Do \in Resources
  /\ Do \in MayFail \/ Do \in Named \cap has
  /\ has' = has \ GivenBack(prog, Do)
  /\ phase' = "out"
  /\ failed' = TRUE
  /\ abandoned' = (abandoned \/ hw.route = "timer")
  /\ UNCHANGED <<prog, step, loads, hw, clientVars, oops, overlap>>

Remove ==
  /\ Up /\ phase = "in"
  /\ phase' = "exit" /\ step' = 1
  /\ UNCHANGED <<prog, loads, has, hw, clientVars, oops, histVars>>

Undo == Exits[prog][step]
Crash(why) ==
  /\ oops' = why
  /\ UNCHANGED <<modVars, hw, clientVars, histVars>>

ExitNext ==
  /\ step' = step + 1
  /\ IF step = Len(Exits[prog])
     THEN /\ phase' = "out"
          /\ fd' = [c \in Clients |-> IF fd[c] = "open" THEN "stale"
                                                        ELSE fd[c]]
     ELSE UNCHANGED <<phase, fd>>
  /\ UNCHANGED <<prog, loads, place, call, tmp, oops, histVars>>

ExitStore ==
  /\ Up /\ phase = "exit" /\ Undo \notin Resources
  /\ hw' = Stored(Undo)
  /\ ExitNext /\ UNCHANGED has

ExitGive ==
  /\ Up /\ phase = "exit" /\ Undo \in Resources
  /\ has' = has \ GoesWith(Undo)
  /\ ExitNext /\ UNCHANGED hw

(* dma_free_coherent(&pdev->dev, ..., batradio_data->...) after the device *)
(* and with it batradio_data were freed may go well or not                 *)
ExitUsesFreed ==
  /\ Up /\ phase = "exit"
  /\ Undo = "dmabuf" /\ "pdev" \notin has
  /\ Crash("use after free")

-----------------------------------------------------------------------------
(* The timer and the FIQ.                                                  *)

Expire ==
  /\ Up /\ hw.timer /\ ~hw.pend
  /\ hw' = [hw EXCEPT !.pend = TRUE]
  /\ UNCHANGED <<modVars, clientVars, oops, histVars>>

(* bradio_handler.S, which set_fiq_handler has copied to the vectors: it   *)
(* pushes two registers, acknowledges the timer, counts in r10 and writes  *)
(* to the pin                                                              *)
Fiq ==
  /\ Up /\ hw.pend /\ hw.route = "timer"
  /\ \/ /\ prog \notin NoPin
        /\ hw' = [hw EXCEPT !.pend = FALSE]
        /\ UNCHANGED <<modVars, clientVars, oops, histVars>>
     \/ prog \in NoPin /\ Crash("FIQ without a pin")
     \/ /\ prog \notin SetsStack \/ phase = "out"
        /\ Crash("FIQ without a stack")

-----------------------------------------------------------------------------
(* The clients.                                                            *)

Script ==
  [k \in 1..(5 + 2 * Loops) |->
     IF k <= 5 THEN <<"open", "mmap", "START", "STOP", "RESET">>[k]
     ELSE IF k % 2 = 0 THEN "START" ELSE "STOP"]

Over == Len(Script) + 1
Busy(c) == call[c] # <<>>
Ready(c) == Up /\ place[c] < Over /\ ~Busy(c)

Exit(c) ==
  /\ place' = [place EXCEPT ![c] = Over]
  /\ fd' = [fd EXCEPT ![c] = "none"]

Enter(c, steps) ==
  /\ place' = [place EXCEPT ![c] = @ + 1]
  /\ call' = [call EXCEPT ![c] = steps]
  /\ overlap' = (overlap \/ \E d \in Clients \ {c} : Busy(d) /\ steps # <<>>)

(* "if (!fiq_fd)" does not see that open has failed                        *)
Open(c) ==
  /\ Ready(c) /\ Script[place[c]] = "open"
  /\ fd' = [fd EXCEPT ![c] = IF "misc" \in has THEN "open" ELSE "none"]
  /\ place' = [place EXCEPT ![c] = 2]
  /\ UNCHANGED <<modVars, hw, call, tmp, oops, histVars>>

Mmap(c) ==
  /\ Ready(c) /\ Script[place[c]] = "mmap"
  /\ \/ fd[c] = "open" /\ Enter(c, <<"load", "add100">>) /\ UNCHANGED fd
     \/ /\ fd[c] = "none" \/ "remap" \in MayFail
        /\ Exit(c) /\ UNCHANGED <<call, overlap>>
  /\ UNCHANGED <<modVars, hw, tmp, oops, failed, abandoned>>

Ioctl(c) ==
  /\ Ready(c) /\ Script[place[c]] \in {"START", "STOP", "RESET"}
  /\ fd[c] = "open"
  /\ Enter(c, Ioctls[prog][Script[place[c]]])
  /\ UNCHANGED <<modVars, hw, fd, tmp, oops, failed, abandoned>>

(* Mutant: status as an int.                                               *)
Plus100Wide(v) == v + 100
(* status is an unsigned char                                              *)
Plus100(v) == (v + 100) % 256

(* One step of the call: a store of batradio_ioctl, or the load or the     *)
(* store of "fiq_buf->status += 100"                                       *)
CallStep(c) ==
  /\ Up /\ Busy(c) /\ fd[c] = "open"
  /\ LET s == Head(call[c]) IN
     /\ tmp' = [tmp EXCEPT ![c] = IF s = "load" THEN hw.status ELSE 0]
     /\ hw' = IF s = "load" THEN hw
              ELSE IF s = "add100"
                   THEN [hw EXCEPT !.status = Plus100(tmp[c])]
                   ELSE Stored(s)
  /\ call' = [call EXCEPT ![c] = Tail(@)]
  /\ UNCHANGED <<modVars, fd, place, oops, histVars>>

(* A call into a module that is gone.                                      *)
CallStale(c) ==
  /\ Up /\ fd[c] = "stale"
  /\ place[c] < Over \/ Busy(c)
  /\ Crash("call without a module")

(* The end of main, and control-C: intHandler does not stop the driver.    *)
Leave(c) ==
  /\ Ready(c) \/ (Up /\ place[c] = Over /\ ~Busy(c) /\ fd[c] # "none")
  /\ Exit(c)
  /\ UNCHANGED <<modVars, hw, call, tmp, oops, histVars>>

Module == Insert \/ InitStore \/ InitTake \/ InitFails \/ Remove
          \/ ExitStore \/ ExitGive \/ ExitUsesFreed
Client(c) == Open(c) \/ Mmap(c) \/ Ioctl(c) \/ CallStep(c) \/ CallStale(c)
             \/ Leave(c)

Next == Module \/ Expire \/ Fiq \/ \E c \in Clients : Client(c)
Spec == Init /\ [][Next]_vars
-----------------------------------------------------------------------------
(* Properties.                                                             *)

HwType ==
  [timer : BOOLEAN, pend : BOOLEAN, route : {"off", "timer", "other"},
   status : 0..255]
ModuleOK ==
  /\ prog \in Modules /\ phase \in {"out", "init", "in", "exit"}
  /\ step \in 1..16 /\ loads \in 0..MaxLoads /\ has \subseteq Resources
ClientsOK ==
  /\ fd \in [Clients -> {"none", "open", "stale"}]
  /\ place \in [Clients -> 1..Over]
  /\ tmp \in [Clients -> 0..255]
  /\ \A c \in Clients : Len(call[c]) <= 4
HistoryOK ==
  /\ oops \in {"no", "use after free", "FIQ without a pin",
               "FIQ without a stack", "call without a module"}
  /\ failed \in BOOLEAN /\ abandoned \in BOOLEAN /\ overlap \in BOOLEAN

TypeOK == ModuleOK /\ hw \in HwType /\ ClientsOK /\ HistoryOK

(* When the module is gone, the timer's interrupt does not reach the FIQ   *)
(* handler, whose stack went with the module - whatever the ioctls that    *)
(* were in progress during exit_bat have stored, and wherever an earlier   *)
(* init_bat has failed, except at misc_register.                           *)
NoStrayFiq == phase = "out" /\ hw.route = "timer" => abandoned

(* The current driver crashes the kernel in two ways only: when it is      *)
(* removed under a client, and after a failure of misc_register.           *)
OopsCauses ==
  prog \in SetsStack =>
    /\ oops \in {"no", "call without a module", "FIQ without a stack"}
    /\ oops = "call without a module" => \E c \in Clients : fd[c] = "stale"
    /\ oops = "FIQ without a stack" => abandoned

(* v, or v after some clients have mapped the buffer.  Up to 27 of them,   *)
(* the values for started (23) and stopped (7) cannot be mistaken.         *)
Shifted(v) == {(v + 100 * k) % 256 : k \in 0..27}

(* As long as calls do not overlap, the status byte says what the timer    *)
(* does, also while interrupts come in: "started" means that it runs,      *)
(* "stopped" that it does not, and that no interrupt is left over.         *)
StatusTells ==
  prog \in SetsStack /\ phase = "in" /\ ~overlap
  /\ (\A c \in Clients : ~Busy(c)) =>
    /\ hw.status \in Shifted(23) => hw.timer
    /\ hw.status \in Shifted(7) =>
         ~hw.timer /\ hw.route = "off" /\ ~hw.pend

(* insmod runs into something an earlier life of the module has left with  *)
(* the kernel only if an init_bat has failed before: exit_bat gives back   *)
(* every name that init_bat takes.                                         *)
Reloads == phase = "init" /\ Do \in Named \cap has => failed

(* What batradio_client.c asks FIQ_START for: "start collecting data".  A  *)
(* client that is alone and has come back from it may count on the timer's *)
(* interrupts until it stops them again, in every round of its loop.       *)
Started(c) ==
  /\ fd[c] = "open" /\ ~Busy(c)
  /\ place[c] > 1 /\ Script[place[c] - 1] = "START"

StartCollects ==
  phase = "in" /\ Cardinality(Clients) = 1 =>
    \A c \in Clients : Started(c) => hw.timer /\ hw.route = "timer"
-----------------------------------------------------------------------------
(* The inductive invariant of the proofs.                                  *)

Stores ==
  {"handler", "tim_on", "tim_off", "cint", "fiq_on", "fiq_0", "fiq_off",
   "st56", "st55", "st23", "st7", "st1", "st0"}
CallSteps == {"load", "add100"} \cup (Stores \ {"fiq_on", "fiq_0"})

(* r is among the first n steps of init_bat; exit_bat still comes to r.    *)
Takes(r, n) == \E k \in 1..n : Inits[prog][k] = r
Comes(r)    == \E k \in step..Len(Exits[prog]) : Exits[prog][k] = r

PhaseInv ==
  /\ phase = "init" => step <= Len(Inits[prog])
  /\ phase = "exit" => step <= Len(Exits[prog])

(* The device is there from the last step of init_bat to the first one of  *)
(* exit_bat, and a descriptor leads to the module as long as it is in.     *)
OpenInv ==
  /\ \A r \in has : Takes(r, Len(Inits[prog]))
  /\ "misc" \in has => phase = "in" \/ (phase = "exit" /\ step = 1)
  /\ \A c \in Clients : fd[c] = "open" =>
       prog \in DOMAIN Ioctls /\ phase \in {"in", "exit"}

(* The steps left of a call: none of them turns the routing on.            *)
CallInv == call \in [Clients -> Seq(CallSteps)]

(* Where the FIQ may be routed to the timer.                               *)
RouteInv ==
  hw.route = "timer" /\ ~abandoned =>
    /\ phase # "out" /\ Takes("fiq_on", Len(Inits[prog]))
    /\ phase = "exit" => Comes("fiq_off")

(* What the kernel holds by name in the course of a life.                  *)
NamedInv ==
  ~failed => \A r \in Named \cap has :
    /\ phase # "out"
    /\ phase = "init" => Takes(r, step - 1)
    /\ phase = "exit" => Comes(r)

IInv == TypeOK /\ PhaseInv /\ OpenInv /\ CallInv /\ RouteInv /\ NamedInv
        /\ OopsCauses

(* What the status byte says between two calls, and the calls themselves,  *)
(* step by step.  Mapped: the clients that have called mmap.               *)
Mapped == {c \in Clients : place[c] > 2}
Says(n) == \E k \in 0..n :
  \/ hw.status = (56 + 100 * k) % 256
  \/ hw.status = (23 + 100 * k) % 256 /\ hw.timer
  \/ /\ hw.status = (7 + 100 * k) % 256
     /\ ~hw.timer /\ hw.route = "off" /\ ~hw.pend

Within(c) ==
  \/ /\ call[c] = <<"load", "add100">> \/ call[c] = <<"add100">>
     /\ c \in Mapped /\ Says(Cardinality(Mapped) - 1)
     /\ call[c] = <<"add100">> => tmp[c] = hw.status
  \/ call[c] \in {<<"cint", "tim_on", "st23">>, <<"tim_on", "st23">>}
  \/ call[c] = <<"st23">> /\ hw.timer
  \/ call[c] = <<"tim_off", "fiq_off", "cint", "st7">>
  \/ call[c] = <<"fiq_off", "cint", "st7">> /\ ~hw.timer
  \/ call[c] = <<"cint", "st7">> /\ ~hw.timer /\ hw.route = "off"
  \/ /\ call[c] = <<"st7">>
     /\ ~hw.timer /\ hw.route = "off" /\ ~hw.pend

AloneInv ==
  ~overlap => \A c, d \in Clients : Busy(c) /\ Busy(d) => c = d
FreshInv ==
  phase = "init" /\ prog \in SetsStack /\ 3 < step => hw.status = 56
ValueInv ==
  prog \in SetsStack /\ phase = "in" /\ ~overlap =>
    /\ (\A c \in Clients : ~Busy(c)) => Says(Cardinality(Mapped))
    /\ \A c \in Clients : Busy(c) /\ fd[c] = "open" => Within(c)

StatusInv == AloneInv /\ FreshInv /\ ValueInv
=============================================================================
