--------------------------- MODULE BatRadio_proofs --------------------------
(***************************************************************************)
(* Proofs about BatRadio, for any of the ten programs, any resources that  *)
(* may be refused, any number of clients and of insertions.  What the      *)
(* tables of BatPrograms have in common (Fits) is all that the proofs use  *)
(* of them, except those about the current driver.                         *)
(***************************************************************************)
EXTENDS BatRadio, FiniteSetTheorems, TLAPS

(* What init_bat and exit_bat of every program have in common: exit_bat    *)
(* turns off the routing that init_bat turns on, gives back by name what   *)
(* init_bat takes by name, once; the device is the last to come and the    *)
(* first to go.                                                            *)
Fits(init, exit) ==
  /\ init \in Seq(Resources \cup Stores)
  /\ exit \in Seq((Resources \cup Stores) \ {"fiq_on"})
  /\ Len(init) \in 1..14 /\ Len(exit) \in 1..5
  /\ \A k \in 1..Len(init) : init[k] = "fiq_on" =>
       \E l \in 1..Len(exit) : exit[l] = "fiq_off"
  /\ \A k \in 1..Len(init) : init[k] \in Named =>
       \E l \in 1..Len(exit) : exit[l] = init[k]
  /\ \A j, k \in 1..Len(init) : init[j] \in Named /\ init[j] = init[k] =>
       j = k
  /\ \A k \in 1..Len(init) : init[k] = "misc" =>
       k = Len(init) /\ exit[1] = "misc"

(* The tables of each program fit.                                         *)
LEMMA TablesFit == \A p \in Programs : Fits(Inits[p], Exits[p])
<1> USE DEF Fits, Resources, Stores, Named
<1>1. Fits(bradio_init, bradio_exit)
  BY DEF bradio_init, bradio_exit
<1>2. Fits(fiqtest_3_init, fiqtest_3_exit)
  BY DEF fiqtest_3_init, fiqtest_3_exit, bradio_init, bradio_exit
<1>3. Fits(fiqtest_init, fiqtest_exit)
  BY DEF fiqtest_init, fiqtest_exit
<1>4. Fits(bradio_1_init, bradio_1_exit)
  BY DEF bradio_1_init, bradio_1_exit
<1>5. Fits(testfiqtimer_init, testfiqtimer_exit)
  BY DEF testfiqtimer_init, testfiqtimer_exit
<1>6. Fits(gpiotest_init, gpiotest_exit)
  BY DEF gpiotest_init, gpiotest_exit
<1>7. Fits(alloctest_init, alloctest_exit)
  BY DEF alloctest_init, alloctest_exit
<1>8. Fits(bradio_3_init, bradio_3_exit)
  BY DEF bradio_3_init, bradio_3_exit
<1>9. Fits(fiqtest_2_init, fiqtest_2_exit)
  BY DEF fiqtest_2_init, fiqtest_2_exit
<1>10. Fits(fiqtest_4_init, fiqtest_4_exit)
  BY DEF fiqtest_4_init, fiqtest_4_exit
<1> HIDE DEF Fits
<1>11. ASSUME NEW p \in Programs
       PROVE  Fits(Inits[p], Exits[p])
  BY <1>1, <1>2, <1>3, <1>4, <1>5, <1>6, <1>7, <1>8, <1>9, <1>10
  DEF Programs, Inits, Exits
<1> QED BY <1>11

(* What the proofs need of the ioctls: every program with a device has     *)
(* them, none stores anything that turns the routing on, and none of them  *)
(* has more than four stores.                                              *)
LEMMA IoctlsFit ==
  /\ \A p \in Programs : \A k \in 1..Len(Inits[p]) :
       Inits[p][k] = "misc" => p \in DOMAIN Ioctls
  /\ \A p \in DOMAIN Ioctls : \A a \in {"START", "STOP", "RESET"} :
       Ioctls[p][a] \in Seq(CallSteps) /\ Len(Ioctls[p][a]) <= 4
<1>1. ASSUME NEW p \in Programs, NEW k \in 1..Len(Inits[p]),
             Inits[p][k] = "misc"
      PROVE  p \in DOMAIN Ioctls
  <2>1. p \in DOMAIN Ioctls
        \/ p \in {"alloctest", "bradio_3", "fiqtest_2", "fiqtest_4"}
    BY DEF Programs, Inits, Ioctls
  <2>2. CASE p = "alloctest"
    BY <1>1, <2>2 DEF Inits, alloctest_init
  <2>3. CASE p = "bradio_3"
    BY <1>1, <2>3 DEF Inits, bradio_3_init
  <2>4. CASE p = "fiqtest_2"
    BY <1>1, <2>4 DEF Inits, fiqtest_2_init
  <2>5. CASE p = "fiqtest_4"
    BY <1>1, <2>5 DEF Inits, fiqtest_4_init
  <2> QED BY <2>1, <2>2, <2>3, <2>4, <2>5
<1>2. ASSUME NEW p \in DOMAIN Ioctls, NEW a \in {"START", "STOP", "RESET"}
      PROVE  Ioctls[p][a] \in Seq(CallSteps) /\ Len(Ioctls[p][a]) <= 4
  <2> DEFINE Short(s) == s \in Seq(CallSteps) /\ Len(s) <= 4
             Good(t) == Short(t.START) /\ Short(t.STOP) /\ Short(t.RESET)
  <2>1. {"cint", "tim_on", "tim_off", "fiq_off", "st23", "st7", "st1", "st0"}
          \subseteq CallSteps
    BY DEF CallSteps, Stores
  <2>2. /\ \A s \in CallSteps : Short(<<s>>)
        /\ Short(<<>>)
    OBVIOUS
  <2>3. /\ \A r, s, u \in CallSteps : Short(<<r, s, u>>)
        /\ \A r, s, u, v \in CallSteps : Short(<<r, s, u, v>>)
    OBVIOUS
  <2> HIDE DEF Short
  <2>4. Good(bradio_ioctl) /\ Good(fiqtest_3_ioctl)
    BY <2>1, <2>2, <2>3 DEF bradio_ioctl, fiqtest_3_ioctl
  <2>5. Good(fiqtest_ioctl)
    BY <2>1, <2>2, <2>3 DEF fiqtest_ioctl
  <2>6. Good(bradio_1_ioctl)
    BY <2>1, <2>2, <2>3 DEF bradio_1_ioctl
  <2>7. Good(testfiqtimer_ioctl)
    BY <2>1, <2>2, <2>3 DEF testfiqtimer_ioctl
  <2>8. Good(gpiotest_ioctl)
    BY <2>1, <2>2, <2>3 DEF gpiotest_ioctl
  <2> HIDE DEF Good
  <2>9. Good(Ioctls[p])
    BY <2>4, <2>5, <2>6, <2>7, <2>8 DEF Ioctls
  <2> QED BY <2>9 DEF Good, Short
<1> QED BY <1>1, <1>2

(* What the current driver adds: it has no DMA buffer that it might use    *)
(* when it is freed, and it gives the FIQ a pin.                           *)
LEMMA DriverFits ==
  \A p \in SetsStack :
    /\ p \notin NoPin
    /\ \A k \in 1..Len(Exits[p]) : Exits[p][k] # "dmabuf"
    /\ Inits[p] = bradio_init /\ Ioctls[p] = bradio_ioctl
<1>1. /\ Inits["bradio"] = bradio_init /\ Inits["fiqtest_3"] = bradio_init
      /\ Exits["bradio"] = bradio_exit /\ Exits["fiqtest_3"] = bradio_exit
  BY DEF Inits, Exits, fiqtest_3_init, fiqtest_3_exit
<1>2. /\ Ioctls["bradio"] = bradio_ioctl
      /\ Ioctls["fiqtest_3"] = bradio_ioctl
  BY DEF Ioctls, fiqtest_3_ioctl
<1>3. \A k \in 1..Len(bradio_exit) : bradio_exit[k] # "dmabuf"
  BY DEF bradio_exit
<1> QED BY <1>1, <1>2, <1>3 DEF SetsStack, NoPin

-----------------------------------------------------------------------------
(* What a store to the timer, to the routing and to the status byte gives. *)
LEMMA StoredValues ==
  /\ Stored("tim_on")  = [hw EXCEPT !.timer = TRUE]
  /\ Stored("tim_off") = [hw EXCEPT !.timer = FALSE]
  /\ Stored("cint")    = [hw EXCEPT !.pend = FALSE]
  /\ Stored("handler") = hw
  /\ Stored("fiq_on")  = [hw EXCEPT !.route = "timer"]
  /\ Stored("fiq_0")   = [hw EXCEPT !.route = "other"]
  /\ Stored("fiq_off") = [hw EXCEPT !.route = "off"]
  BY DEF Stored

(* A store to the status byte changes nothing else.                        *)
LEMMA StoredStatus ==
  \A s \in {"st56", "st55", "st23", "st7", "st1", "st0"} :
    \E v \in 0..255 : Stored(s) = [hw EXCEPT !.status = v]
<1>1. /\ Stored("st56") = [hw EXCEPT !.status = 56]
      /\ Stored("st55") = [hw EXCEPT !.status = 55]
      /\ Stored("st23") = [hw EXCEPT !.status = 23]
      /\ Stored("st7") = [hw EXCEPT !.status = 7]
      /\ Stored("st1") = [hw EXCEPT !.status = 1]
      /\ Stored("st0") = [hw EXCEPT !.status = 0]
  BY DEF Stored
<1>2. {56, 55, 23, 7, 1, 0} \subseteq 0..255
  OBVIOUS
<1> QED BY <1>1, <1>2

(* A store keeps the type of the registers; two of them turn the routing   *)
(* on, and one of those for the timer.                                     *)
LEMMA StoredTypes ==
  ASSUME hw \in HwType, NEW s \in Stores
  PROVE  /\ Stored(s) \in HwType
         /\ s # "fiq_on" /\ Stored(s).route = "timer" => hw.route = "timer"
         /\ s = "fiq_off" => Stored(s).route = "off"
         /\ s \notin {"fiq_on", "fiq_0"} /\ hw.route = "off" =>
              Stored(s).route = "off"
<1>1. CASE s = "tim_on" \/ s = "tim_off"
  <2>1. \A b \in BOOLEAN : /\ [hw EXCEPT !.timer = b] \in HwType
                          /\ [hw EXCEPT !.timer = b].route = hw.route
    BY DEF HwType
  <2>2. /\ s = "tim_on" => Stored(s) = [hw EXCEPT !.timer = TRUE]
        /\ s = "tim_off" => Stored(s) = [hw EXCEPT !.timer = FALSE]
    BY StoredValues
  <2>3. Stored(s) \in HwType /\ Stored(s).route = hw.route
    BY <1>1, <2>1, <2>2
  <2> QED BY <1>1, <2>3
<1>2. CASE s = "cint" \/ s = "handler"
  <2>1. /\ [hw EXCEPT !.pend = FALSE] \in HwType
        /\ [hw EXCEPT !.pend = FALSE].route = hw.route
    BY DEF HwType
  <2>2. /\ s = "cint" => Stored(s) = [hw EXCEPT !.pend = FALSE]
        /\ s = "handler" => Stored(s) = hw
    BY StoredValues
  <2>3. Stored(s) \in HwType /\ Stored(s).route = hw.route
    BY <1>2, <2>1, <2>2
  <2> QED BY <1>2, <2>3
<1>3. CASE s \in {"fiq_on", "fiq_0", "fiq_off"}
  <2>1. \A r \in {"off", "timer", "other"} :
          /\ [hw EXCEPT !.route = r] \in HwType
          /\ [hw EXCEPT !.route = r].route = r
    BY DEF HwType
  <2>2. /\ s = "fiq_on" => Stored(s) = [hw EXCEPT !.route = "timer"]
        /\ s = "fiq_0" => Stored(s) = [hw EXCEPT !.route = "other"]
        /\ s = "fiq_off" => Stored(s) = [hw EXCEPT !.route = "off"]
    BY StoredValues
  <2>3. CASE s = "fiq_on"
    BY <2>1, <2>2, <2>3
  <2>4. CASE s = "fiq_0"
    BY <2>1, <2>2, <2>4
  <2>5. CASE s = "fiq_off"
    BY <2>1, <2>2, <2>5
  <2> QED BY <1>3, <2>3, <2>4, <2>5
<1>4. CASE s \in {"st56", "st55", "st23", "st7", "st1", "st0"}
  <2>1. PICK v \in 0..255 : Stored(s) = [hw EXCEPT !.status = v]
    BY <1>4, StoredStatus
  <2>2. Stored(s) \in HwType /\ Stored(s).route = hw.route
    BY <2>1 DEF HwType
  <2> QED BY <1>4, <2>2
<1> QED BY <1>1, <1>2, <1>3, <1>4 DEF Stores

(* The program is one of those whose tables fit; the step of init_bat, or  *)
(* of exit_bat, is one of its table.                                       *)
LEMMA AtStep ==
  ASSUME TypeOK, PhaseInv
  PROVE  /\ prog \in Programs /\ Fits(Inits[prog], Exits[prog])
         /\ step \in Nat /\ 1 <= step /\ step <= 16
         /\ Len(Inits[prog]) \in Nat /\ Len(Exits[prog]) \in Nat
         /\ 1 <= Len(Inits[prog]) /\ Len(Inits[prog]) <= 14
         /\ 1 <= Len(Exits[prog]) /\ Len(Exits[prog]) <= 5
         /\ phase = "init" =>
              step <= Len(Inits[prog]) /\ Do \in Resources \cup Stores
         /\ phase = "exit" =>
              /\ step <= Len(Exits[prog])
              /\ Undo \in (Resources \cup Stores) \ {"fiq_on"}
<1>1. prog \in Programs /\ step \in Nat /\ 1 <= step /\ step <= 16
  BY ModulesAssumption DEF TypeOK, ModuleOK
<1>2. Fits(Inits[prog], Exits[prog])
  BY <1>1, TablesFit
<1>3. /\ Len(Inits[prog]) \in Nat /\ Len(Exits[prog]) \in Nat
      /\ 1 <= Len(Inits[prog]) /\ Len(Inits[prog]) <= 14
      /\ 1 <= Len(Exits[prog]) /\ Len(Exits[prog]) <= 5
  <2>1. Len(Inits[prog]) \in 1..14 /\ Len(Exits[prog]) \in 1..5
    BY <1>2 DEF Fits
  <2>2. \A m, n \in Nat : \A k \in m..n : k \in Nat /\ m <= k /\ k <= n
    OBVIOUS
  <2> QED BY <2>1, <2>2
<1>4. phase = "init" =>
        step <= Len(Inits[prog]) /\ Do \in Resources \cup Stores
  <2> SUFFICES ASSUME phase = "init"
               PROVE  step <= Len(Inits[prog]) /\ Do \in Resources \cup Stores
    OBVIOUS
  <2>1. step <= Len(Inits[prog])
    BY DEF PhaseInv
  <2> QED BY <1>1, <1>2, <1>3, <2>1 DEF Fits, Do
<1>5. phase = "exit" => /\ step <= Len(Exits[prog])
                        /\ Undo \in (Resources \cup Stores) \ {"fiq_on"}
  <2> SUFFICES ASSUME phase = "exit"
               PROVE  /\ step <= Len(Exits[prog])
                      /\ Undo \in (Resources \cup Stores) \ {"fiq_on"}
    OBVIOUS
  <2>1. step <= Len(Exits[prog])
    BY DEF PhaseInv
  <2> QED BY <1>1, <1>2, <1>3, <2>1 DEF Fits, Undo
<1> QED BY <1>1, <1>2, <1>3, <1>4, <1>5

(* The script ends.                                                        *)
LEMMA ScriptEnds == Over \in Nat /\ Over > 5 /\ Over = 6 + 2 * Loops
  BY LoopsAssumption DEF Over, Script

(* Nothing is in the kernel, nobody has opened anything.                   *)
LEMMA InitIInv == Init => IInv
<1> SUFFICES ASSUME Init PROVE IInv
  OBVIOUS
<1> USE DEF Init
<1>1. ModuleOK
  BY MaxLoadsAssumption DEF ModuleOK
<1>2. hw \in HwType
  BY DEF HwType
<1>3. HistoryOK
  BY DEF HistoryOK
<1>4. ClientsOK /\ CallInv
  BY ScriptEnds DEF ClientsOK, CallInv
<1>5. PhaseInv /\ OpenInv /\ RouteInv /\ NamedInv /\ OopsCauses
  BY DEF PhaseInv, OpenInv, RouteInv, NamedInv, OopsCauses
<1> QED BY <1>1, <1>2, <1>4, <1>5, <1>3 DEF IInv, TypeOK

-----------------------------------------------------------------------------
(* Steps of the module.                                                    *)

(* insmod finds no descriptor that leads to the module, and none of the    *)
(* names taken unless an init_bat has failed.                              *)
LEMMA InsertStep == IInv /\ Insert => IInv'
<1> SUFFICES ASSUME IInv, Insert PROVE IInv'
  OBVIOUS
<1> USE DEF IInv, TypeOK, Insert, clientVars, histVars
<1>1. ModuleOK'
  BY MaxLoadsAssumption DEF ModuleOK
<1>2. (hw \in HwType)' /\ ClientsOK' /\ HistoryOK' /\ CallInv'
  BY DEF ClientsOK, HistoryOK, CallInv
<1>3. Len(Inits[prog]) \in Nat /\ 1 <= Len(Inits[prog])
  BY AtStep
<1>4. PhaseInv'
  <2>1. prog' = prog /\ step' = 1 /\ phase' = "init"
    OBVIOUS
  <2> QED BY <1>3, <2>1 DEF PhaseInv
<1>5. OpenInv'
  BY DEF OpenInv, ModuleOK, Takes
<1>6. RouteInv' /\ NamedInv'
  BY DEF RouteInv, NamedInv, Takes
<1>7. OopsCauses'
  BY DEF OopsCauses
<1> QED BY <1>1, <1>2, <1>5, <1>6, <1>7, <1>4

(* A store of init_bat: the routing comes with a step of it.               *)
LEMMA InitStoreStep == IInv /\ InitStore => IInv'
<1> SUFFICES ASSUME IInv, InitStore PROVE IInv'
  OBVIOUS
<1> USE DEF IInv, TypeOK, InitStore, InitNext, clientVars, histVars
<1>1. /\ step \in Nat /\ 1 <= step /\ step <= Len(Inits[prog])
      /\ Len(Inits[prog]) \in Nat /\ Len(Inits[prog]) <= 14
      /\ Len(Exits[prog]) \in Nat /\ 1 <= Len(Exits[prog])
      /\ Do \in Stores /\ hw' \in HwType
  BY AtStep, StoredTypes
<1>2. ModuleOK'
  <2>1. step' \in 1..16 /\ phase' \in {"out", "init", "in", "exit"}
    BY <1>1
  <2> QED BY <2>1 DEF ModuleOK
<1>3. ClientsOK' /\ HistoryOK' /\ CallInv'
  BY DEF ClientsOK, HistoryOK, CallInv
<1>4. PhaseInv'
  BY <1>1 DEF PhaseInv
<1>5. OpenInv'
  BY <1>1 DEF OpenInv, Takes
<1>6. RouteInv'
  <2>1. Do = "fiq_on" => Takes("fiq_on", Len(Inits[prog]))
    BY <1>1 DEF Do, Takes
  <2>2. hw'.route = "timer" => hw.route = "timer" \/ Do = "fiq_on"
    BY <1>1, StoredTypes
  <2> QED BY <2>1, <2>2 DEF RouteInv, Takes
<1>7. NamedInv'
  BY <1>1 DEF NamedInv, Takes, Comes
<1>8. OopsCauses'
  BY DEF OopsCauses
<1> QED BY <1>1, <1>2, <1>3, <1>4, <1>5, <1>6, <1>7, <1>8

(* A resource that init_bat gets: by name, it is not there yet; the device *)
(* is the last one.                                                        *)
LEMMA InitTakeStep == IInv /\ InitTake => IInv'
<1> SUFFICES ASSUME IInv, InitTake PROVE IInv'
  OBVIOUS
<1> USE DEF IInv, TypeOK, InitTake, InitNext, clientVars, histVars
<1>1. /\ step \in Nat /\ 1 <= step /\ step <= Len(Inits[prog])
      /\ Len(Inits[prog]) \in Nat /\ Len(Inits[prog]) <= 14
      /\ Len(Exits[prog]) \in Nat /\ 1 <= Len(Exits[prog])
      /\ Fits(Inits[prog], Exits[prog]) /\ prog \in Programs
  BY AtStep
<1>2. ModuleOK'
  <2>1. step' \in 1..16 /\ phase' \in {"out", "init", "in", "exit"}
    BY <1>1
  <2> QED BY <2>1 DEF ModuleOK
<1>3. (hw \in HwType)' /\ ClientsOK' /\ HistoryOK' /\ CallInv'
  BY DEF ClientsOK, HistoryOK, CallInv
<1>4. PhaseInv'
  BY <1>1 DEF PhaseInv
<1>5. OpenInv'
  <2>1. Takes(Do, Len(Inits[prog]))
    BY <1>1 DEF Do, Takes
  <2>2. \A r \in has' : Takes(r, Len(Inits[prog]))'
    BY <2>1 DEF OpenInv, Takes
  <2>3. Do = "misc" => step = Len(Inits[prog])
    BY <1>1 DEF Fits, Do
  <2>4. "misc" \in has' => phase' = "in"
    BY <2>3 DEF OpenInv
  <2>5. \A c \in Clients : fd[c] # "open"
    BY DEF OpenInv
  <2> QED BY <2>2, <2>4, <2>5 DEF OpenInv
<1>6. RouteInv'
  BY DEF RouteInv, Takes
<1>7. NamedInv'
  <2>1. ASSUME ~failed, NEW r \in Named \cap has'
        PROVE  phase' = "init" => Takes(r, step - 1)'
    <3>1. step' - 1 = step
      BY <1>1
    <3>2. CASE r = Do
      BY <1>1, <3>1, <3>2 DEF Takes, Do
    <3>3. CASE r \in has
      BY <1>1, <2>1, <3>1, <3>3 DEF NamedInv, Takes
    <3> QED BY <2>1, <3>2, <3>3
  <2> QED BY <1>1, <2>1 DEF NamedInv
<1>8. OopsCauses'
  BY DEF OopsCauses
<1> QED BY <1>2, <1>3, <1>4, <1>5, <1>6, <1>7, <1>8

(* An init_bat that fails: what it leaves is for the histories to tell.    *)
LEMMA InitFailsStep == IInv /\ InitFails => IInv'
<1> SUFFICES ASSUME IInv, InitFails PROVE IInv'
  OBVIOUS
<1> USE DEF IInv, TypeOK, InitFails, clientVars
<1>1. ModuleOK'
  BY DEF ModuleOK
<1>2. (hw \in HwType)' /\ ClientsOK' /\ CallInv'
  BY DEF ClientsOK, CallInv
<1>3. HistoryOK'
  <2>1. abandoned' \in BOOLEAN
    BY Zenon DEF HistoryOK
  <2> QED BY <2>1 DEF HistoryOK
<1>4. PhaseInv'
  BY DEF PhaseInv
<1>5. OpenInv'
  BY DEF OpenInv, Takes
<1>6. RouteInv' /\ NamedInv'
  BY DEF RouteInv, NamedInv
<1>7. OopsCauses'
  BY DEF OopsCauses, Up
<1> QED BY <1>1, <1>2, <1>3, <1>4, <1>5, <1>6, <1>7

(* rmmod: all that was taken by name is on the list of exit_bat, and so is *)
(* the routing.                                                            *)
LEMMA RemoveStep == IInv /\ Remove => IInv'
<1> SUFFICES ASSUME IInv, Remove PROVE IInv'
  OBVIOUS
<1> USE DEF IInv, TypeOK, Remove, clientVars, histVars
<1>1. /\ Len(Inits[prog]) \in Nat
      /\ Len(Exits[prog]) \in Nat /\ 1 <= Len(Exits[prog])
      /\ Fits(Inits[prog], Exits[prog])
  BY AtStep
<1>2. ModuleOK'
  BY DEF ModuleOK
<1>3. (hw \in HwType)' /\ ClientsOK' /\ HistoryOK' /\ CallInv'
  BY DEF ClientsOK, HistoryOK, CallInv
<1>4. PhaseInv'
  BY <1>1 DEF PhaseInv
<1>5. OpenInv'
  BY DEF OpenInv, Takes
<1>6. \A r \in Named \cup {"fiq_on"} : Takes(r, Len(Inits[prog])) =>
        Comes(IF r = "fiq_on" THEN "fiq_off" ELSE r)'
  BY <1>1 DEF Fits, Takes, Comes, Named
<1>7. RouteInv'
  BY <1>6 DEF RouteInv, Takes
<1>8. NamedInv'
  BY <1>6 DEF NamedInv, OpenInv, Named
<1>9. OopsCauses'
  BY DEF OopsCauses
<1> QED BY <1>2, <1>3, <1>4, <1>5, <1>7, <1>8, <1>9

(* What exit_bat comes to is the next step or comes later.                 *)
LEMMA ComesNext ==
  ASSUME NEW r, Comes(r), step \in Nat, Len(Exits[prog]) \in Nat,
         ExitNext, r # Undo
  PROVE  Comes(r)' /\ phase' = phase
<1>1. PICK k \in step..Len(Exits[prog]) : Exits[prog][k] = r
  BY DEF Comes
<1>2. k # step
  BY <1>1 DEF Undo
<1>3. k \in (step + 1)..Len(Exits[prog]) /\ step # Len(Exits[prog])
  BY <1>1, <1>2
<1> QED BY <1>1, <1>3 DEF Comes, ExitNext

(* The types and what is open after a step of exit_bat.                    *)
LEMMA ExitKeeps ==
  ASSUME IInv, ExitNext, phase = "exit", has' \subseteq has,
         hw' \in HwType, "misc" \in has => Undo = "misc" /\ "misc" \notin has'
  PROVE  TypeOK' /\ PhaseInv' /\ OpenInv' /\ CallInv'
<1> USE DEF IInv, TypeOK, ExitNext, histVars
<1>1. /\ step \in Nat /\ 1 <= step /\ step <= Len(Exits[prog])
      /\ Len(Exits[prog]) \in Nat /\ Len(Exits[prog]) <= 5
  BY AtStep
<1>2. ModuleOK'
  <2>1. step' \in 1..16 /\ phase' \in {"out", "init", "in", "exit"}
    BY <1>1
  <2> QED BY <2>1 DEF ModuleOK
<1>3. ClientsOK' /\ HistoryOK' /\ CallInv'
  BY DEF ClientsOK, HistoryOK, CallInv
<1>4. PhaseInv'
  BY <1>1 DEF PhaseInv
<1>5. OpenInv'
  BY DEF OpenInv, ClientsOK, Takes
<1> QED BY <1>2, <1>3, <1>4, <1>5

(* If the device is there, it is the first to go.                          *)
LEMMA MiscGoesFirst ==
  ASSUME IInv, phase = "exit", "misc" \in has
  PROVE  Undo = "misc"
<1>1. Fits(Inits[prog], Exits[prog])
  BY AtStep DEF IInv
<1>2. Takes("misc", Len(Inits[prog])) /\ step = 1
  BY DEF IInv, OpenInv
<1> QED BY <1>1, <1>2 DEF Fits, Takes, Undo

(* A store of exit_bat: if it is not the one that turns the routing off,   *)
(* that one comes later.                                                   *)
LEMMA ExitStoreStep == IInv /\ ExitStore => IInv'
<1> SUFFICES ASSUME IInv, ExitStore PROVE IInv'
  OBVIOUS
<1> USE DEF IInv, TypeOK
<1>1. /\ step \in Nat /\ Len(Exits[prog]) \in Nat /\ ExitNext
      /\ Undo \in Stores \ {"fiq_on"} /\ hw' = Stored(Undo)
      /\ hw' \in HwType /\ phase = "exit" /\ has' = has /\ prog' = prog
      /\ Undo \notin Resources
  BY AtStep, StoredTypes DEF ExitStore, ExitNext
<1>2. TypeOK' /\ PhaseInv' /\ OpenInv' /\ CallInv'
  BY <1>1, MiscGoesFirst, ExitKeeps DEF Resources
<1>3. RouteInv'
  <2> SUFFICES ASSUME hw'.route = "timer", ~abandoned'
               PROVE  /\ phase' # "out"
                      /\ Takes("fiq_on", Len(Inits[prog]))'
                      /\ phase' = "exit" => Comes("fiq_off")'
    BY DEF RouteInv
  <2>1. hw.route = "timer" /\ Undo # "fiq_off"
    BY <1>1, StoredTypes
  <2>2. Comes("fiq_off") /\ Takes("fiq_on", Len(Inits[prog]))
    BY <1>1, <2>1 DEF RouteInv, ExitNext, histVars
  <2>3. Comes("fiq_off")' /\ phase' = phase
    BY <1>1, <2>1, <2>2, ComesNext
  <2> QED BY <1>1, <2>2, <2>3 DEF Takes
<1>4. NamedInv'
  <2>1. ASSUME ~failed, NEW r \in Named \cap has
        PROVE  Comes(r)' /\ phase' = "exit"
    <3>1. Comes(r) /\ r # Undo
      BY <1>1, <2>1 DEF NamedInv, ModuleOK
    <3> QED BY <1>1, <3>1, ComesNext
  <2> QED BY <1>1, <2>1 DEF NamedInv, ExitNext, histVars
<1>5. OopsCauses'
  BY <1>1 DEF OopsCauses, ExitStore, ExitNext, Up
<1> QED BY <1>2, <1>3, <1>4, <1>5

(* A resource that exit_bat gives back: what is left of those taken by     *)
(* name comes later.                                                       *)
LEMMA ExitGiveStep == IInv /\ ExitGive => IInv'
<1> SUFFICES ASSUME IInv, ExitGive PROVE IInv'
  OBVIOUS
<1> USE DEF IInv, TypeOK
<1>1. /\ step \in Nat /\ Len(Exits[prog]) \in Nat /\ ExitNext
      /\ hw' = hw /\ phase = "exit" /\ prog' = prog
      /\ Undo \in Resources /\ has' = has \ GoesWith(Undo)
  BY AtStep DEF ExitGive, ExitNext
<1>2. has' \subseteq has /\ Undo \notin has'
  BY <1>1 DEF GoesWith
<1>3. TypeOK' /\ PhaseInv' /\ OpenInv' /\ CallInv'
  BY <1>1, <1>2, MiscGoesFirst, ExitKeeps
<1>4. RouteInv'
  <2> SUFFICES ASSUME hw.route = "timer", ~abandoned
               PROVE  /\ phase' # "out"
                      /\ Takes("fiq_on", Len(Inits[prog]))'
                      /\ phase' = "exit" => Comes("fiq_off")'
    BY <1>1 DEF RouteInv, ExitNext, histVars
  <2>1. Comes("fiq_off") /\ Takes("fiq_on", Len(Inits[prog]))
    BY <1>1 DEF RouteInv
  <2>2. Undo # "fiq_off"
    BY <1>1 DEF Resources
  <2>3. Comes("fiq_off")' /\ phase' = phase
    BY <1>1, <2>1, <2>2, ComesNext
  <2> QED BY <1>1, <2>1, <2>3 DEF Takes
<1>5. NamedInv'
  <2>1. ASSUME ~failed, NEW r \in Named \cap has'
        PROVE  Comes(r)' /\ phase' = "exit"
    <3>1. Comes(r) /\ r # Undo
      BY <1>1, <1>2, <2>1 DEF NamedInv
    <3> QED BY <1>1, <3>1, ComesNext
  <2> QED BY <1>1, <2>1 DEF NamedInv, ExitNext, histVars
<1>6. OopsCauses'
  BY <1>1 DEF OopsCauses, ExitGive, ExitNext, Up
<1> QED BY <1>3, <1>4, <1>5, <1>6

(* A crash leaves all but its cause as it is.                              *)
LEMMA CrashKeeps ==
  ASSUME IInv, NEW why \in {"use after free", "FIQ without a pin",
                            "FIQ without a stack", "call without a module"},
         Crash(why), OopsCauses'
  PROVE  IInv'
<1> USE DEF IInv, TypeOK, Crash, modVars, clientVars, histVars
<1>1. ModuleOK' /\ ClientsOK' /\ CallInv' /\ (hw \in HwType)'
  BY DEF ModuleOK, ClientsOK, CallInv
<1>2. HistoryOK'
  BY DEF HistoryOK
<1>3. PhaseInv' /\ OpenInv'
  BY DEF PhaseInv, OpenInv, Takes
<1>4. RouteInv' /\ NamedInv'
  BY DEF RouteInv, NamedInv, Takes, Comes
<1> QED BY <1>1, <1>2, <1>3, <1>4

(* Only programs with a DMA buffer free one.                               *)
LEMMA ExitUsesFreedStep == IInv /\ ExitUsesFreed => IInv'
<1> SUFFICES ASSUME IInv, ExitUsesFreed PROVE IInv'
  OBVIOUS
<1>1. /\ step \in Nat /\ 1 <= step /\ step <= Len(Exits[prog])
      /\ Len(Exits[prog]) \in Nat
  BY AtStep DEF IInv, ExitUsesFreed
<1>2. step \in 1..Len(Exits[prog])
  BY <1>1
<1>3. prog \notin SetsStack
  BY <1>2, DriverFits DEF ExitUsesFreed, Undo
<1>4. OopsCauses'
  BY <1>3 DEF OopsCauses, ExitUsesFreed, Crash, modVars
<1> QED BY <1>4, CrashKeeps DEF ExitUsesFreed

-----------------------------------------------------------------------------
(* Steps of the timer and of the FIQ.                                      *)

(* A change of the timer's state leaves the routing to the others.         *)
LEMMA TimerKeeps ==
  ASSUME IInv, NEW b \in BOOLEAN, hw' = [hw EXCEPT !.pend = b], Up,
         UNCHANGED <<modVars, clientVars, oops, histVars>>
  PROVE  IInv'
<1> USE DEF IInv, TypeOK, modVars, clientVars, histVars
<1>1. hw' \in HwType /\ hw'.route = hw.route
  BY DEF HwType
<1>2. ModuleOK' /\ ClientsOK' /\ CallInv'
  BY DEF ModuleOK, ClientsOK, CallInv
<1>3. HistoryOK'
  BY DEF HistoryOK
<1>4. PhaseInv' /\ OpenInv' /\ OopsCauses'
  BY DEF PhaseInv, OpenInv, OopsCauses, Takes
<1>5. RouteInv' /\ NamedInv'
  BY <1>1 DEF RouteInv, NamedInv, Takes, Comes
<1> QED BY <1>1, <1>2, <1>3, <1>4, <1>5

(* The timer runs out.                                                     *)
LEMMA ExpireStep == IInv /\ Expire => IInv'
  BY TimerKeeps DEF Expire

(* The handler runs: without a stack in the current driver only after a    *)
(* failed init_bat, as the routing is off when the module is gone.         *)
LEMMA FiqStep == IInv /\ Fiq => IInv'
<1> SUFFICES ASSUME IInv, Fiq PROVE IInv'
  OBVIOUS
<1>1. CASE /\ Up /\ hw' = [hw EXCEPT !.pend = FALSE]
           /\ UNCHANGED <<modVars, clientVars, oops, histVars>>
  BY <1>1, TimerKeeps
<1>2. CASE prog \in NoPin /\ Crash("FIQ without a pin")
  <2>1. OopsCauses'
    BY <1>2, DriverFits DEF OopsCauses, Crash, modVars
  <2> QED BY <1>2, <2>1, CrashKeeps
<1>3. CASE /\ prog \notin SetsStack \/ phase = "out"
           /\ Crash("FIQ without a stack")
  <2>1. prog \in SetsStack => abandoned
    BY <1>3 DEF Fiq, IInv, RouteInv
  <2>2. OopsCauses'
    BY <1>3, <2>1 DEF OopsCauses, Crash, modVars, histVars
  <2> QED BY <1>3, <2>2, CrashKeeps
<1> QED BY <1>1, <1>2, <1>3 DEF Fiq

-----------------------------------------------------------------------------
(* Steps of the clients.                                                   *)

(* A client that opens or leaves changes its descriptor; it opens only     *)
(* what is there.                                                          *)
LEMMA DescriptorKeeps ==
  ASSUME IInv, Up, NEW c \in Clients, NEW d \in {"none", "open"},
         d = "open" => "misc" \in has,
         fd' = [fd EXCEPT ![c] = d], place' \in [Clients -> 1..Over],
         overlap' = overlap,
         UNCHANGED <<modVars, hw, call, tmp, oops, failed, abandoned>>
  PROVE  IInv'
<1> USE DEF IInv, TypeOK, modVars
<1>1. ModuleOK' /\ ClientsOK' /\ CallInv' /\ (hw \in HwType)'
  BY ScriptEnds DEF ModuleOK, ClientsOK, CallInv, Over, Script
<1>2. HistoryOK'
  BY DEF HistoryOK
<1>3. PhaseInv' /\ RouteInv' /\ NamedInv'
  BY DEF PhaseInv, RouteInv, NamedInv, Takes, Comes
<1>4. OpenInv'
  <2>1. "misc" \in has => prog \in DOMAIN Ioctls /\ phase \in {"in", "exit"}
    BY AtStep, IoctlsFit DEF OpenInv, Takes
  <2> QED BY <2>1 DEF OpenInv, ClientsOK, Takes
<1>5. OopsCauses'
  BY DEF OopsCauses, Up
<1> QED BY <1>1, <1>2, <1>3, <1>4, <1>5

(* A client's place in its script: before its last line it has a next one. *)
LEMMA NextPlace ==
  ASSUME ClientsOK, NEW c \in Clients
  PROVE  /\ [place EXCEPT ![c] = Over] \in [Clients -> 1..Over]
         /\ [place EXCEPT ![c] = 2] \in [Clients -> 1..Over]
         /\ place[c] < Over =>
              [place EXCEPT ![c] = @ + 1] \in [Clients -> 1..Over]
<1>1. Over \in 1..Over /\ 2 \in 1..Over
  BY ScriptEnds
<1>2. place[c] < Over => place[c] + 1 \in 1..Over
  BY ScriptEnds DEF ClientsOK
<1> QED BY <1>1, <1>2 DEF ClientsOK

(* open                                                                    *)
LEMMA OpenStep == ASSUME NEW c \in Clients
                  PROVE  IInv /\ Open(c) => IInv'
<1> SUFFICES ASSUME IInv, Open(c) PROVE IInv'
  OBVIOUS
<1>1. ClientsOK
  BY DEF IInv, TypeOK
<1>2. place' \in [Clients -> 1..Over]
  BY <1>1, NextPlace DEF Open
<1>3. CASE "misc" \in has
  BY <1>2, <1>3, DescriptorKeeps DEF Open, Ready, histVars
<1>4. CASE "misc" \notin has
  BY <1>2, <1>4, DescriptorKeeps DEF Open, Ready, histVars
<1> QED BY <1>3, <1>4

(* The end of main, or control-C.                                          *)
LEMMA LeaveStep == ASSUME NEW c \in Clients
                   PROVE  IInv /\ Leave(c) => IInv'
<1> SUFFICES ASSUME IInv, Leave(c) PROVE IInv'
  OBVIOUS
<1>1. place' \in [Clients -> 1..Over]
  BY NextPlace DEF Leave, Exit, IInv, TypeOK
<1> QED BY <1>1, DescriptorKeeps DEF Leave, Exit, Ready, histVars

(* A call begins: its steps are those of a table, or of batradio_mmap.     *)
LEMMA EnterKeeps ==
  ASSUME IInv, NEW c \in Clients, Ready(c),
         NEW s \in Seq(CallSteps), Len(s) <= 4, Enter(c, s),
         UNCHANGED <<modVars, hw, fd, tmp, oops, failed, abandoned>>
  PROVE  IInv'
<1> USE DEF IInv, TypeOK, modVars, Enter
<1>1. ModuleOK' /\ CallInv' /\ (hw \in HwType)'
  BY DEF ModuleOK, CallInv
<1>2. ClientsOK'
  <2>1. place' \in [Clients -> 1..Over]
    BY NextPlace DEF Ready
  <2>2. \A d \in Clients : Len(call'[d]) <= 4
    BY DEF ClientsOK, CallInv
  <2> QED BY <2>1, <2>2 DEF ClientsOK, Over, Script
<1>3. HistoryOK'
  <2>1. overlap' \in BOOLEAN
    BY Zenon DEF HistoryOK
  <2> QED BY <2>1 DEF HistoryOK
<1>4. PhaseInv' /\ OpenInv' /\ RouteInv' /\ NamedInv'
  BY DEF PhaseInv, OpenInv, RouteInv, NamedInv, Takes, Comes
<1>5. OopsCauses'
  BY DEF OopsCauses
<1> QED BY <1>1, <1>2, <1>3, <1>4, <1>5

(* mmap                                                                    *)
LEMMA MmapStep == ASSUME NEW c \in Clients
                  PROVE  IInv /\ Mmap(c) => IInv'
<1> SUFFICES ASSUME IInv, Mmap(c) PROVE IInv'
  OBVIOUS
<1>1. CASE fd[c] = "open" /\ Enter(c, <<"load", "add100">>) /\ UNCHANGED fd
  <2>1. <<"load", "add100">> \in Seq(CallSteps)
        /\ Len(<<"load", "add100">>) <= 4
    BY DEF CallSteps
  <2> QED BY <1>1, <2>1, EnterKeeps DEF Mmap
<1>2. CASE Exit(c) /\ UNCHANGED <<call, overlap>>
  <2>1. place' \in [Clients -> 1..Over]
    BY <1>2, NextPlace DEF Exit, IInv, TypeOK
  <2> QED BY <1>2, <2>1, DescriptorKeeps DEF Mmap, Exit, Ready
<1> QED BY <1>1, <1>2 DEF Mmap

(* An ioctl.                                                               *)
LEMMA IoctlStep == ASSUME NEW c \in Clients
                   PROVE  IInv /\ Ioctl(c) => IInv'
<1> SUFFICES ASSUME IInv, Ioctl(c) PROVE IInv'
  OBVIOUS
<1>1. prog \in DOMAIN Ioctls
  BY DEF Ioctl, IInv, OpenInv
<1>2. /\ Ioctls[prog][Script[place[c]]] \in Seq(CallSteps)
      /\ Len(Ioctls[prog][Script[place[c]]]) <= 4
  BY <1>1, IoctlsFit DEF Ioctl
<1> QED BY <1>2, EnterKeeps DEF Ioctl

(* What a step of a call does to the registers: it never turns the routing *)
(* on.                                                                     *)
LEMMA CallStepHw ==
  ASSUME IInv, NEW c \in Clients, CallStep(c)
  PROVE  /\ hw' \in HwType /\ Head(call[c]) \in CallSteps
         /\ hw'.route = "timer" => hw.route = "timer"
         /\ hw.route = "off" => hw'.route = "off"
         /\ tmp' \in [Clients -> 0..255]
<1> USE DEF IInv, TypeOK
<1>1. call[c] \in Seq(CallSteps) /\ call[c] # <<>>
  BY DEF CallInv, CallStep, Busy
<1>2. Head(call[c]) \in CallSteps
  BY <1>1
<1>3. hw.status \in 0..255 /\ tmp[c] \in 0..255
  BY DEF HwType, ClientsOK
<1>4. tmp' \in [Clients -> 0..255]
  BY <1>3 DEF CallStep, ClientsOK
<1>5. CASE Head(call[c]) = "load"
  BY <1>2, <1>4, <1>5 DEF CallStep
<1>6. CASE Head(call[c]) = "add100"
  <2>1. (tmp[c] + 100) % 256 \in 0..255
    BY <1>3
  <2>2. hw' = [hw EXCEPT !.status = (tmp[c] + 100) % 256]
    BY <1>6 DEF CallStep, Plus100
  <2> QED BY <1>2, <1>4, <2>1, <2>2 DEF HwType
<1>7. CASE Head(call[c]) \in Stores \ {"fiq_on", "fiq_0"}
  <2>1. hw' = Stored(Head(call[c]))
    BY <1>7 DEF CallStep, Stores
  <2> QED BY <1>2, <1>4, <1>7, <2>1, StoredTypes
<1> QED BY <1>2, <1>5, <1>6, <1>7 DEF CallSteps

(* A step of a call.                                                       *)
LEMMA CallStepStep == ASSUME NEW c \in Clients
                      PROVE  IInv /\ CallStep(c) => IInv'
<1> SUFFICES ASSUME IInv, CallStep(c) PROVE IInv'
  OBVIOUS
<1> USE DEF IInv, TypeOK, modVars, histVars
<1>1. /\ call' = [call EXCEPT ![c] = Tail(@)]
      /\ UNCHANGED <<modVars, fd, place, oops, histVars>> /\ Up
      /\ call[c] \in Seq(CallSteps) /\ call[c] # <<>>
  BY DEF CallStep, CallInv, Busy
<1>2. Tail(call[c]) \in Seq(CallSteps) /\ Len(Tail(call[c])) <= Len(call[c])
  BY <1>1
<1>3. ModuleOK' /\ CallInv' /\ (hw \in HwType)'
  BY <1>1, <1>2, CallStepHw DEF ModuleOK, CallInv
<1>4. ClientsOK'
  <2>1. Len(Tail(call[c])) <= 4
    BY <1>1 DEF ClientsOK
  <2> QED BY <1>1, <2>1, CallStepHw DEF ClientsOK, CallInv, Over, Script
<1>5. HistoryOK'
  BY <1>1 DEF HistoryOK
<1>6. PhaseInv' /\ OpenInv' /\ NamedInv' /\ OopsCauses'
  BY <1>1 DEF PhaseInv, OpenInv, NamedInv, OopsCauses, Takes, Comes
<1>7. RouteInv'
  BY <1>1, CallStepHw DEF RouteInv, Takes, Comes
<1> QED BY <1>3, <1>4, <1>5, <1>6, <1>7

(* A call into a module that is gone.                                      *)
LEMMA CallStaleStep == ASSUME NEW c \in Clients
                       PROVE  IInv /\ CallStale(c) => IInv'
<1> SUFFICES ASSUME IInv, CallStale(c) PROVE IInv'
  OBVIOUS
<1>1. OopsCauses'
  BY DEF OopsCauses, CallStale, Crash, clientVars
<1> QED BY <1>1, CrashKeeps DEF CallStale

-----------------------------------------------------------------------------
(* The invariant and what follows from it.                                 *)

(* Every step keeps the invariant.                                         *)
LEMMA IInvNext == IInv /\ [Next]_vars => IInv'
<1> SUFFICES ASSUME IInv, [Next]_vars PROVE IInv'
  OBVIOUS
<1>1. CASE Module
  BY <1>1, InsertStep, InitStoreStep, InitTakeStep, InitFailsStep,
     RemoveStep, ExitStoreStep, ExitGiveStep, ExitUsesFreedStep DEF Module
<1>2. CASE Expire \/ Fiq
  BY <1>2, ExpireStep, FiqStep
<1>3. ASSUME NEW c \in Clients, Client(c) PROVE IInv'
  BY <1>3, OpenStep, MmapStep, IoctlStep, CallStepStep, CallStaleStep,
     LeaveStep DEF Client
<1>4. CASE UNCHANGED vars
  <2> USE <1>4 DEF IInv, TypeOK, vars, modVars, clientVars, histVars
  <2>1. ModuleOK' /\ (hw \in HwType)' /\ ClientsOK' /\ HistoryOK' /\ CallInv'
    BY DEF ModuleOK, ClientsOK, HistoryOK, CallInv, Over, Script
  <2>2. PhaseInv' /\ OpenInv' /\ RouteInv' /\ NamedInv' /\ OopsCauses'
    BY DEF PhaseInv, OpenInv, RouteInv, NamedInv, OopsCauses, Takes, Comes
  <2> QED BY <2>1, <2>2
<1> QED BY <1>1, <1>2, <1>3, <1>4 DEF Next

(* The invariant holds of the module and its clients.                      *)
THEOREM Invariance == Spec => []IInv
  BY InitIInv, IInvNext, PTL DEF Spec

(* The variables have their types: in particular, a call of the driver     *)
(* never has more than four steps left, and the status byte stays a byte   *)
(* whatever the clients add to it.                                         *)
THEOREM TypeCorrect == Spec => []TypeOK
<1>1. IInv => TypeOK
  BY DEF IInv
<1> QED BY <1>1, Invariance, PTL

(* No program leaves the timer's interrupt routed to a handler that is     *)
(* gone, except one whose init_bat failed with the FIQ routed.             *)
THEOREM NothingStray == Spec => []NoStrayFiq
<1>1. IInv => NoStrayFiq
  BY DEF IInv, RouteInv, NoStrayFiq
<1> QED BY <1>1, Invariance, PTL

(* The current driver crashes the kernel only when it is removed under a   *)
(* client or after a failure of misc_register.                             *)
THEOREM CausesOfOops == Spec => []OopsCauses
<1>1. IInv => OopsCauses
  BY DEF IInv
<1> QED BY <1>1, Invariance, PTL

(* What init_bat finds taken, a failed init_bat has left.                  *)
THEOREM ReloadsWell == Spec => []Reloads
<1>1. IInv => Reloads
  <2> SUFFICES ASSUME IInv, phase = "init", Do \in Named \cap has, ~failed
               PROVE  FALSE
    BY DEF Reloads, IInv, TypeOK, HistoryOK
  <2>1. /\ step \in Nat /\ 1 <= step /\ step <= Len(Inits[prog])
        /\ Len(Inits[prog]) \in Nat /\ Fits(Inits[prog], Exits[prog])
    BY AtStep DEF IInv
  <2>2. PICK k \in 1..(step - 1) : Inits[prog][k] = Do
    BY DEF IInv, NamedInv, Takes
  <2>3. step \in 1..Len(Inits[prog]) /\ k \in 1..Len(Inits[prog]) /\ k # step
    BY <2>1, <2>2
  <2> QED BY <2>1, <2>2, <2>3 DEF Fits, Do
<1> QED BY <1>1, Invariance, PTL

-----------------------------------------------------------------------------
(* The status byte of the current driver.  A finite number of clients add  *)
(* 100 to it, each once.                                                   *)

(* The script opens on its first line, maps on its second, and then calls. *)
LEMMA ScriptLines ==
  \A k \in 1..(5 + 2 * Loops) :
    /\ Script[k] = "open" => k = 1
    /\ Script[k] = "mmap" => k = 2
    /\ Script[k] \in {"START", "STOP", "RESET"} => 2 < k
  BY LoopsAssumption DEF Script

(* An addition modulo 256 after another.                                   *)
LEMMA AddTwice == \A a \in Nat : ((a % 256) + 100) % 256 = (a + 100) % 256
  OBVIOUS

(* 33 and 49 are no multiples of 4, as 100 and 256 are; 16 needs 36 or 28  *)
(* times 100.                                                              *)
LEMMA ValuesApart ==
  /\ \A j, k \in Nat : (23 + 100 * j) % 256 # (56 + 100 * k) % 256
  /\ \A j, k \in Nat : (7 + 100 * j) % 256 # (56 + 100 * k) % 256
  /\ \A j, k \in 0..27 : (23 + 100 * j) % 256 # (7 + 100 * k) % 256
<1>1. \A j, k \in Nat : (23 + 100 * j) % 256 # (56 + 100 * k) % 256
  OBVIOUS
<1>2. \A j, k \in Nat : (7 + 100 * j) % 256 # (56 + 100 * k) % 256
  OBVIOUS
<1>3. \A j, k \in 0..27 : (23 + 100 * j) % 256 # (7 + 100 * k) % 256
  OBVIOUS
<1> QED BY <1>1, <1>2, <1>3

(* The clients that have mapped the buffer are finitely many.              *)
LEMMA MappedFinite ==
  ASSUME IsFiniteSet(Clients)
  PROVE  /\ IsFiniteSet(Mapped) /\ Cardinality(Mapped) \in Nat
         /\ Cardinality(Mapped) <= Cardinality(Clients)
<1>1. Mapped \in SUBSET Clients
  BY DEF Mapped
<1> QED BY <1>1, FS_Subset, FS_CardinalityType

(* The byte at an addition of 100 more, and with more clients that may     *)
(* have added to it.                                                       *)
LEMMA SaysMore ==
  ASSUME NEW m \in Int, NEW n \in Int, m <= n, Says(m)
  PROVE  Says(n)
<1>1. 0..m \subseteq 0..n
  OBVIOUS
<1> QED BY <1>1 DEF Says

LEMMA SaysAdded ==
  ASSUME NEW n \in Int, Says(n), hw \in HwType,
         hw' = [hw EXCEPT !.status = (hw.status + 100) % 256]
  PROVE  Says(n + 1)'
<1>1. PICK k \in 0..n :
        \/ hw.status = (56 + 100 * k) % 256
        \/ hw.status = (23 + 100 * k) % 256 /\ hw.timer
        \/ /\ hw.status = (7 + 100 * k) % 256
           /\ ~hw.timer /\ hw.route = "off" /\ ~hw.pend
  BY DEF Says
<1>2. k \in Nat /\ k + 1 \in 0..(n + 1)
  OBVIOUS
<1>3. /\ hw'.status = (hw.status + 100) % 256
      /\ hw'.timer = hw.timer /\ hw'.route = hw.route /\ hw'.pend = hw.pend
  BY DEF HwType
<1>4. \A v \in {56, 23, 7} :
        (((v + 100 * k) % 256) + 100) % 256 = (v + 100 * (k + 1)) % 256
  <2>1. ASSUME NEW v \in {56, 23, 7}
        PROVE  (((v + 100 * k) % 256) + 100) % 256 = (v + 100 * (k + 1)) % 256
    <3>1. v + 100 * k \in Nat /\ v + 100 * (k + 1) = (v + 100 * k) + 100
      BY <1>2
    <3> QED BY <3>1, AddTwice
  <2> QED BY <2>1
<1>5. CASE hw.status = (56 + 100 * k) % 256
  BY <1>2, <1>3, <1>4, <1>5 DEF Says
<1>6. CASE hw.status = (23 + 100 * k) % 256 /\ hw.timer
  BY <1>2, <1>3, <1>4, <1>6 DEF Says
<1>7. CASE /\ hw.status = (7 + 100 * k) % 256
           /\ ~hw.timer /\ hw.route = "off" /\ ~hw.pend
  BY <1>2, <1>3, <1>4, <1>7 DEF Says
<1> QED BY <1>1, <1>5, <1>6, <1>7

(* A fresh value of the byte.                                              *)
LEMMA SaysFresh ==
  ASSUME NEW n \in Nat,
         \/ hw.status = 56
         \/ hw.status = 23 /\ hw.timer
         \/ hw.status = 7 /\ ~hw.timer /\ hw.route = "off" /\ ~hw.pend
  PROVE  Says(n)
<1>1. /\ 0 \in 0..n /\ (56 + 100 * 0) % 256 = 56
      /\ (23 + 100 * 0) % 256 = 23 /\ (7 + 100 * 0) % 256 = 7
  OBVIOUS
<1> QED BY <1>1 DEF Says

(* A client's place never goes back.                                       *)
LEMMA MappedGrows ==
  ASSUME IInv, [Next]_vars
  PROVE  Mapped \subseteq Mapped'
<1> SUFFICES ASSUME NEW c \in Clients, NEW d \in Clients, Client(c)
             PROVE  place[d] > 2 => place'[d] > 2
  BY DEF Next, Module, Insert, InitStore, InitTake, InitNext, InitFails,
     Remove, ExitStore, ExitGive, ExitNext, ExitUsesFreed, Expire, Fiq, Crash,
     vars, modVars, clientVars, Mapped
<1>1. /\ place \in [Clients -> 1..Over] /\ Over = 6 + 2 * Loops /\ Over \in Nat
      /\ Over > 5
  BY ScriptEnds DEF IInv, TypeOK, ClientsOK
<1>2. CASE Open(c)
  <2>1. place[c] \in 1..(5 + 2 * Loops)
    BY <1>1, <1>2, LoopsAssumption DEF Open, Ready
  <2>2. place[c] = 1
    BY <1>2, <2>1, ScriptLines DEF Open
  <2> QED BY <1>1, <1>2, <2>2 DEF Open
<1>3. CASE Mmap(c) \/ Ioctl(c)
  BY <1>1, <1>3 DEF Mmap, Ioctl, Enter, Exit
<1>4. CASE CallStep(c) \/ CallStale(c)
  BY <1>4 DEF CallStep, CallStale, Crash, clientVars
<1>5. CASE Leave(c)
  BY <1>1, <1>5 DEF Leave, Exit
<1> QED BY <1>2, <1>3, <1>4, <1>5 DEF Client

(* One call at a time, until two overlap.                                  *)
LEMMA AloneNext == IInv /\ AloneInv /\ [Next]_vars => AloneInv'
<1> SUFFICES ASSUME IInv, AloneInv, [Next]_vars, ~overlap' PROVE AloneInv'
  BY DEF AloneInv
<1>1. CASE UNCHANGED <<call, overlap>>
  BY <1>1 DEF AloneInv, Busy
<1>2. ASSUME NEW c \in Clients, NEW s, Enter(c, s), ~Busy(c)
      PROVE  AloneInv'
  <2>1. s = <<>> \/ \A d \in Clients \ {c} : ~Busy(d)
    BY <1>2 DEF Enter
  <2>2. ~overlap
    BY <1>2 DEF Enter
  <2>3. call \in [Clients -> Seq(CallSteps)] /\ call' = [call EXCEPT ![c] = s]
    BY <1>2 DEF Enter, IInv, CallInv
  <2> QED BY <1>2, <2>1, <2>2, <2>3 DEF AloneInv, Busy
<1>3. ASSUME NEW c \in Clients, CallStep(c)
      PROVE  AloneInv'
  <2>1. /\ call \in [Clients -> Seq(CallSteps)]
        /\ call' = [call EXCEPT ![c] = Tail(@)]
        /\ Busy(c) /\ ~overlap
    BY <1>3 DEF CallStep, IInv, CallInv, histVars
  <2>2. \A d \in Clients : Busy(d)' => Busy(d)
    BY <2>1 DEF Busy
  <2> QED BY <2>1, <2>2 DEF AloneInv
<1>4. CASE Module
  BY <1>1, <1>4 DEF Module, Insert, InitStore, InitTake, InitNext, InitFails,
     Remove, ExitStore, ExitGive, ExitNext, ExitUsesFreed, Crash, clientVars,
     histVars
<1>5. CASE Expire \/ Fiq
  BY <1>1, <1>5 DEF Expire, Fiq, Crash, clientVars, histVars
<1>6. ASSUME NEW c \in Clients, Client(c) PROVE AloneInv'
  <2>1. CASE Open(c) \/ Leave(c) \/ CallStale(c)
    BY <1>1, <2>1 DEF Open, Leave, CallStale, Crash, clientVars, histVars
  <2>2. CASE Mmap(c)
    BY <1>1, <1>2, <2>2 DEF Mmap, Ready
  <2>3. CASE Ioctl(c)
    BY <1>2, <2>3 DEF Ioctl, Ready
  <2> QED BY <1>3, <1>6, <2>1, <2>2, <2>3 DEF Client
<1>7. CASE UNCHANGED vars
  BY <1>1, <1>7 DEF vars, clientVars, histVars
<1> QED BY <1>4, <1>5, <1>6, <1>7 DEF Next

(* The table of the current driver's init_bat, from its third step on.     *)
LEMMA DriverInit ==
  ASSUME prog \in SetsStack, step \in Nat, 1 <= step,
         step <= Len(Inits[prog])
  PROVE  /\ Do = "st56" <=> step = 3
         /\ 3 < step /\ Do \notin Resources =>
              Do \in {"handler", "cint", "tim_on", "fiq_on"}
         /\ Do = "misc" <=> step = 10
         /\ Len(Inits[prog]) = 10
<1>1. Inits[prog] = bradio_init
  BY DriverFits
<1>2. Len(bradio_init) = 10
  BY DEF bradio_init
<1>3. step \in 1..10
  BY <1>1, <1>2
<1>4. Do = bradio_init[step]
  BY <1>1 DEF Do
<1>5. CASE step \in 1..3
  BY <1>1, <1>2, <1>4, <1>5 DEF bradio_init
<1>6. CASE step \in 4..10
  BY <1>1, <1>2, <1>4, <1>6 DEF bradio_init, Resources
<1> QED BY <1>3, <1>5, <1>6

(* init_bat stores 56 in the byte and then leaves it alone; nobody has the *)
(* device open yet.                                                        *)
LEMMA FreshNext == IInv /\ FreshInv /\ [Next]_vars => FreshInv'
<1> SUFFICES ASSUME IInv, FreshInv, [Next]_vars, phase' = "init",
                    prog' \in SetsStack, 3 < step'
             PROVE  hw'.status = 56
  BY DEF FreshInv
<1>1. hw \in HwType /\ step \in Nat /\ 1 <= step
      /\ (phase = "init" => step <= Len(Inits[prog]))
  BY AtStep DEF IInv, TypeOK
<1>2. CASE InitStore
  <2>1. phase = "init" /\ step' = step + 1 /\ prog' = prog
        /\ hw' = Stored(Do) /\ Do \notin Resources
    BY <1>2 DEF InitStore, InitNext
  <2>2. CASE step = 3
    <3>1. Do = "st56" /\ Stored("st56") = [hw EXCEPT !.status = 56]
      BY <1>1, <2>1, <2>2, DriverInit DEF Stored
    <3> QED BY <1>1, <2>1, <3>1 DEF HwType
  <2>3. CASE step # 3
    <3>1. 3 < step /\ hw.status = 56
      BY <1>1, <2>1, <2>3 DEF FreshInv
    <3>2. Do \in {"handler", "cint", "tim_on", "fiq_on"}
      BY <1>1, <2>1, <3>1, DriverInit
    <3>3. Stored(Do).status = hw.status
      <4>1. CASE Do = "handler" \/ Do = "cint"
        BY <1>1, <4>1, StoredValues DEF HwType
      <4>2. CASE Do = "tim_on" \/ Do = "fiq_on"
        BY <1>1, <4>2, StoredValues DEF HwType
      <4> QED BY <3>2, <4>1, <4>2
    <3> QED BY <2>1, <3>1, <3>3
  <2> QED BY <2>2, <2>3
<1>3. CASE InitTake
  <2>1. phase = "init" /\ step' = step + 1 /\ prog' = prog
        /\ hw' = hw /\ Do \in Resources
    BY <1>3 DEF InitTake, InitNext
  <2>2. step # 3
    BY <1>1, <2>1, DriverInit DEF Resources
  <2> QED BY <1>1, <2>1, <2>2 DEF FreshInv
<1>4. CASE Insert \/ InitFails \/ Remove
  BY <1>4 DEF Insert, InitFails, Remove
<1>5. CASE ExitStore \/ ExitGive
  BY <1>5 DEF ExitStore, ExitGive, ExitNext
<1>6. CASE ExitUsesFreed
  BY <1>6 DEF ExitUsesFreed, Crash, modVars
<1>7. CASE Expire \/ Fiq
  <2>1. UNCHANGED modVars
    BY <1>7 DEF Expire, Fiq, Crash
  <2>2. hw'.status = hw.status
    BY <1>1, <1>7 DEF Expire, Fiq, Crash, HwType
  <2> QED BY <2>1, <2>2 DEF FreshInv, modVars
<1>8. ASSUME NEW c \in Clients, Client(c) PROVE hw'.status = 56
  <2>1. UNCHANGED modVars
    BY <1>8 DEF Client, Open, Mmap, Ioctl, CallStep, CallStale, Crash, Leave
  <2>2. fd[c] # "open"
    BY <2>1 DEF IInv, OpenInv, modVars
  <2>3. hw' = hw
    BY <1>8, <2>2 DEF Client, Open, Mmap, Ioctl, CallStep, CallStale, Crash,
       Leave
  <2> QED BY <2>1, <2>3 DEF FreshInv, modVars
<1>9. CASE UNCHANGED vars
  BY <1>9 DEF vars, modVars, FreshInv
<1> QED BY <1>2, <1>3, <1>4, <1>7, <1>8, <1>9, <1>5, <1>6 DEF Next, Module

(* What the byte says, and what is left of a call, when none of what they  *)
(* speak of changes.                                                       *)
LEMMA ValueKept ==
  ASSUME IInv, ValueInv, IsFiniteSet(Clients), [Next]_vars,
         prog' = prog, phase' = phase, hw' = hw, call' = call, tmp' = tmp,
         overlap' = overlap,
         \A c \in Clients : Busy(c) /\ fd'[c] = "open" => fd[c] = "open"
  PROVE  ValueInv'
<1> SUFFICES ASSUME prog \in SetsStack, phase = "in", ~overlap
             PROVE  /\ (\A c \in Clients : ~Busy(c)) =>
                         Says(Cardinality(Mapped))'
                    /\ \A c \in Clients :
                         Busy(c) /\ fd'[c] = "open" => Within(c)'
  BY DEF ValueInv, Busy
<1>1. Mapped \subseteq Mapped' /\ Mapped' \subseteq Clients
  BY MappedGrows DEF Mapped
<1>2. /\ Cardinality(Mapped) \in Nat /\ Cardinality(Mapped') \in Nat
      /\ Cardinality(Mapped) <= Cardinality(Mapped')
  BY <1>1, FS_Subset, FS_CardinalityType
<1>3. \A m, n \in Int : m <= n /\ Says(m) => Says(n)
  BY SaysMore
<1>4. \A n : Says(n)' <=> Says(n)
  BY DEF Says
<1>5. ASSUME \A c \in Clients : ~Busy(c)
      PROVE  Says(Cardinality(Mapped))'
  <2>1. Says(Cardinality(Mapped))
    BY <1>5 DEF ValueInv
  <2>2. Says(Cardinality(Mapped'))
    BY <1>2, <1>3, <2>1
  <2> QED BY <1>4, <2>2 DEF Says
<1>6. ASSUME NEW c \in Clients, Busy(c), fd'[c] = "open"
      PROVE  Within(c)'
  <2>1. Within(c)
    BY <1>6 DEF ValueInv
  <2>2. c \in Mapped => c \in Mapped'
    BY <1>1
  <2>3. Says(Cardinality(Mapped) - 1) => Says(Cardinality(Mapped') - 1)
    BY <1>2, <1>3
  <2>4. Says(Cardinality(Mapped') - 1) => Says(Cardinality(Mapped) - 1)'
    BY DEF Says
  <2> QED BY <2>1, <2>2, <2>3, <2>4 DEF Within
<1> QED BY <1>5, <1>6

(* The last step of init_bat is misc_register: the byte is 56, the timer   *)
(* runs, and no descriptor leads to the module.                            *)
LEMMA ValueIn ==
  ASSUME IInv, FreshInv, IsFiniteSet(Clients), phase = "init", [Next]_vars
  PROVE  ValueInv'
<1> SUFFICES ASSUME prog' \in SetsStack, phase' = "in" PROVE ValueInv'
  BY DEF ValueInv
<1>1. step \in Nat /\ 1 <= step /\ step <= Len(Inits[prog])
  BY AtStep DEF IInv
<1>2. prog' = prog /\ fd' = fd /\ call' = call /\ place' = place
  BY DEF Next, Module, Insert, InitStore, InitTake, InitNext, InitFails,
     Remove, ExitStore, ExitGive, ExitUsesFreed, Crash, Expire, Fiq, Client,
     Open, Mmap, Ioctl, CallStep, CallStale, Leave, vars, modVars, clientVars
<1>3. (InitStore \/ InitTake) /\ step = Len(Inits[prog])
  BY DEF Next, Module, Insert, InitStore, InitTake, InitNext, InitFails,
     Remove, ExitStore, ExitGive, ExitUsesFreed, Crash, Expire, Fiq, Client,
     Open, Mmap, Ioctl, CallStep, CallStale, Leave, vars, modVars
<1>4. Do = "misc" /\ step = 10
  BY <1>1, <1>2, <1>3, DriverInit
<1>5. hw' = hw /\ hw.status = 56
  BY <1>2, <1>3, <1>4 DEF InitStore, InitTake, Resources, FreshInv
<1>6. \A c \in Clients : fd'[c] # "open"
  BY <1>2 DEF IInv, OpenInv
<1>7. Cardinality(Mapped) \in Nat /\ Mapped' = Mapped
  BY <1>2, MappedFinite DEF Mapped
<1>8. Says(Cardinality(Mapped))'
  <2>1. Says(Cardinality(Mapped))
    BY <1>5, <1>7, SaysFresh
  <2> QED BY <1>5, <1>7, <2>1 DEF Says
<1> QED BY <1>6, <1>8 DEF ValueInv

(* The timer expires only while it runs, and the handler only takes its    *)
(* interrupt back: "stopped" is left as it is.                             *)
LEMMA ValueTimer ==
  ASSUME IInv, ValueInv, NEW b \in BOOLEAN, b => hw.timer,
         hw' = [hw EXCEPT !.pend = b],
         UNCHANGED <<modVars, clientVars, oops, histVars>>
  PROVE  ValueInv'
<1> USE DEF modVars, clientVars, histVars
<1>1. /\ hw'.status = hw.status /\ hw'.timer = hw.timer
      /\ hw'.route = hw.route /\ hw'.pend = b
  BY DEF IInv, TypeOK, HwType
<1>2. ~hw.timer /\ ~hw.pend => ~hw'.pend
  BY <1>1
<1>3. Mapped' = Mapped
  BY DEF Mapped
<1>4. \A n : Says(n) => Says(n)'
  BY <1>1, <1>2 DEF Says
<1>5. ASSUME NEW c \in Clients, Within(c)
      PROVE  Within(c)'
  <2>1. Says(Cardinality(Mapped) - 1) => Says(Cardinality(Mapped) - 1)'
    BY <1>4, <1>3 DEF Says
  <2> QED BY <1>1, <1>2, <1>3, <1>5, <2>1 DEF Within
<1>6. Says(Cardinality(Mapped)) => Says(Cardinality(Mapped))'
  BY <1>4, <1>3 DEF Says
<1> QED BY <1>5, <1>6 DEF ValueInv, Busy

(* A call begins alone, or it is not counted any more; the one without     *)
(* steps, FIQ_RESET, is none.                                              *)
LEMMA ValueEnter ==
  ASSUME IInv, ValueInv, IsFiniteSet(Clients), [Next]_vars,
         NEW c \in Clients, NEW s, Enter(c, s), ~Busy(c),
         UNCHANGED <<modVars, hw, fd, tmp>>,
         prog \in SetsStack /\ (\A d \in Clients : ~Busy(d))
           /\ Says(Cardinality(Mapped)) /\ s # <<>> => Within(c)'
  PROVE  ValueInv'
<1> USE DEF modVars
<1>1. /\ call \in [Clients -> Seq(CallSteps)] /\ call' = [call EXCEPT ![c] = s]
      /\ call[c] = <<>>
  BY DEF Enter, IInv, CallInv, Busy
<1>2. CASE s = <<>>
  <2>1. call' = call
    BY <1>1, <1>2
  <2>2. overlap' = overlap
    BY <1>2 DEF Enter, IInv, TypeOK, HistoryOK
  <2> QED BY <2>1, <2>2, ValueKept
<1>3. CASE s # <<>>
  <2> SUFFICES ASSUME prog \in SetsStack, phase = "in", ~overlap'
               PROVE  /\ \E d \in Clients : Busy(d)'
                      /\ \A d \in Clients :
                           Busy(d)' /\ fd'[d] = "open" => Within(d)'
    BY DEF ValueInv
  <2>1. \A d \in Clients \ {c} : ~Busy(d)
    BY <1>3 DEF Enter
  <2>2. ~overlap
    BY DEF Enter
  <2>3. \A d \in Clients : ~Busy(d)
    BY <2>1
  <2>4. Says(Cardinality(Mapped))
    BY <2>2, <2>3 DEF ValueInv
  <2>5. Within(c)'
    BY <1>3, <2>3, <2>4
  <2>6. \A d \in Clients : Busy(d)' <=> d = c
    BY <1>1, <1>3, <2>1 DEF Busy
  <2> QED BY <2>5, <2>6
<1> QED BY <1>2, <1>3

(* The client that maps the buffer is one more to add to the byte, and has *)
(* not done it yet.                                                        *)
LEMMA ValueMmap ==
  ASSUME IInv, ValueInv, IsFiniteSet(Clients), [Next]_vars,
         NEW c \in Clients, Mmap(c)
  PROVE  ValueInv'
<1>1. CASE Exit(c) /\ UNCHANGED <<call, overlap>>
  <2>1. \A d \in Clients : fd'[d] = "open" => fd[d] = "open"
    BY <1>1 DEF Exit, IInv, TypeOK, ClientsOK
  <2> QED BY <1>1, <2>1, ValueKept DEF Mmap, modVars
<1>2. CASE fd[c] = "open" /\ Enter(c, <<"load", "add100">>) /\ UNCHANGED fd
  <2>1. /\ place \in [Clients -> 1..Over] /\ place[c] < Over
        /\ Over \in Nat /\ Over = 6 + 2 * Loops
    BY ScriptEnds DEF IInv, TypeOK, ClientsOK, Mmap, Ready
  <2>2. place[c] \in 1..(5 + 2 * Loops)
    BY <2>1, LoopsAssumption
  <2>3. place[c] = 2
    BY <2>2, ScriptLines DEF Mmap
  <2>4. place' = [place EXCEPT ![c] = 3]
    BY <1>2, <2>3 DEF Enter
  <2>5. Mapped' = Mapped \cup {c} /\ c \notin Mapped
    BY <2>1, <2>3, <2>4 DEF Mapped
  <2>6. Cardinality(Mapped') - 1 = Cardinality(Mapped)
    <3>1. IsFiniteSet(Mapped) /\ Cardinality(Mapped) \in Nat
      BY MappedFinite
    <3>2. Cardinality(Mapped \cup {c}) = Cardinality(Mapped) + 1
      BY <2>5, <3>1, FS_AddElement
    <3> QED BY <2>5, <3>1, <3>2
  <2>7. call'[c] = <<"load", "add100">>
    BY <1>2 DEF Enter, IInv, CallInv
  <2>8. hw' = hw
    BY DEF Mmap
  <2>9. Says(Cardinality(Mapped)) => Says(Cardinality(Mapped) - 1)'
    BY <2>6, <2>8 DEF Says
  <2>10. call'[c] # <<"add100">>
    BY <2>7
  <2>11. Says(Cardinality(Mapped)) => Within(c)'
    BY <2>5, <2>7, <2>9, <2>10 DEF Within
  <2> QED BY <1>2, <2>11, ValueEnter DEF Mmap, Ready
<1> QED BY <1>1, <1>2 DEF Mmap

(* FIQ_START and FIQ_STOP may begin whatever the byte says.                *)
LEMMA ValueIoctl ==
  ASSUME IInv, ValueInv, IsFiniteSet(Clients), [Next]_vars,
         NEW c \in Clients, Ioctl(c)
  PROVE  ValueInv'
<1> DEFINE s == Ioctls[prog][Script[place[c]]]
<1>1. call'[c] = s
  BY DEF Ioctl, Enter, IInv, CallInv
<1>2. prog \in SetsStack =>
        s \in {<<"cint", "tim_on", "st23">>,
              <<"tim_off", "fiq_off", "cint", "st7">>, <<>>}
  BY DriverFits DEF Ioctl, bradio_ioctl
<1>3. prog \in SetsStack /\ s # <<>> => Within(c)'
  BY <1>1, <1>2 DEF Within
<1> QED BY <1>3, ValueEnter DEF Ioctl, Ready

(* The first store of each call of the current driver, and what is left.   *)
LEMMA HeadsTails ==
  /\ Head(<<"load", "add100">>) = "load"
  /\ Tail(<<"load", "add100">>) = <<"add100">>
  /\ Head(<<"add100">>) = "add100" /\ Tail(<<"add100">>) = <<>>
  /\ Head(<<"cint", "tim_on", "st23">>) = "cint"
  /\ Tail(<<"cint", "tim_on", "st23">>) = <<"tim_on", "st23">>
  /\ Head(<<"tim_on", "st23">>) = "tim_on"
  /\ Tail(<<"tim_on", "st23">>) = <<"st23">>
  /\ Head(<<"st23">>) = "st23" /\ Tail(<<"st23">>) = <<>>
  /\ Head(<<"tim_off", "fiq_off", "cint", "st7">>) = "tim_off"
  /\ Tail(<<"tim_off", "fiq_off", "cint", "st7">>)
       = <<"fiq_off", "cint", "st7">>
  /\ Head(<<"fiq_off", "cint", "st7">>) = "fiq_off"
  /\ Tail(<<"fiq_off", "cint", "st7">>) = <<"cint", "st7">>
  /\ Head(<<"cint", "st7">>) = "cint" /\ Tail(<<"cint", "st7">>) = <<"st7">>
  /\ Head(<<"st7">>) = "st7" /\ Tail(<<"st7">>) = <<>>
  OBVIOUS

(* What is left of the calls of the current driver, one store at a time.   *)
LEMMA CallForms ==
  ASSUME NEW c \in Clients, Within(c)
  PROVE  \/ /\ call[c] = <<"load", "add100">> /\ Head(call[c]) = "load"
            /\ Tail(call[c]) = <<"add100">>
         \/ /\ call[c] = <<"add100">> /\ Head(call[c]) = "add100"
            /\ Tail(call[c]) = <<>>
         \/ /\ call[c] = <<"cint", "tim_on", "st23">> /\ Head(call[c]) = "cint"
            /\ Tail(call[c]) = <<"tim_on", "st23">>
         \/ /\ call[c] = <<"tim_on", "st23">> /\ Head(call[c]) = "tim_on"
            /\ Tail(call[c]) = <<"st23">>
         \/ /\ call[c] = <<"st23">> /\ Head(call[c]) = "st23" /\ hw.timer
            /\ Tail(call[c]) = <<>>
         \/ /\ call[c] = <<"tim_off", "fiq_off", "cint", "st7">>
            /\ Head(call[c]) = "tim_off"
            /\ Tail(call[c]) = <<"fiq_off", "cint", "st7">>
         \/ /\ call[c] = <<"fiq_off", "cint", "st7">>
            /\ Head(call[c]) = "fiq_off" /\ ~hw.timer
            /\ Tail(call[c]) = <<"cint", "st7">>
         \/ /\ call[c] = <<"cint", "st7">> /\ Head(call[c]) = "cint"
            /\ ~hw.timer /\ hw.route = "off" /\ Tail(call[c]) = <<"st7">>
         \/ /\ call[c] = <<"st7">> /\ Head(call[c]) = "st7"
            /\ ~hw.timer /\ hw.route = "off" /\ ~hw.pend
            /\ Tail(call[c]) = <<>>
<1>1. CASE call[c] = <<"load", "add100">> \/ call[c] = <<"add100">>
  BY <1>1, HeadsTails
<1>2. CASE call[c] \in {<<"cint", "tim_on", "st23">>, <<"tim_on", "st23">>}
  BY <1>2, HeadsTails
<1>3. CASE call[c] = <<"st23">> /\ hw.timer
  BY <1>3, HeadsTails
<1>4. CASE call[c] = <<"tim_off", "fiq_off", "cint", "st7">>
  BY <1>4, HeadsTails
<1>5. CASE call[c] = <<"fiq_off", "cint", "st7">> /\ ~hw.timer
  BY <1>5, HeadsTails
<1>6. CASE call[c] = <<"cint", "st7">> /\ ~hw.timer /\ hw.route = "off"
  BY <1>6, HeadsTails
<1>7. CASE /\ call[c] = <<"st7">>
           /\ ~hw.timer /\ hw.route = "off" /\ ~hw.pend
  BY <1>7, HeadsTails
<1> QED BY <1>1, <1>2, <1>3, <1>4, <1>5, <1>6, <1>7 DEF Within

(* The values of the registers after each of those stores.                 *)
LEMMA StoredFields ==
  ASSUME hw \in HwType
  PROVE  /\ Stored("tim_on").timer
         /\ ~Stored("tim_off").timer
         /\ Stored("fiq_off").timer = hw.timer
         /\ Stored("fiq_off").route = "off"
         /\ Stored("cint").timer = hw.timer
         /\ Stored("cint").route = hw.route /\ ~Stored("cint").pend
         /\ Stored("st23").status = 23 /\ Stored("st23").timer = hw.timer
         /\ Stored("st7").status = 7 /\ Stored("st7").timer = hw.timer
         /\ Stored("st7").route = hw.route /\ Stored("st7").pend = hw.pend
<1>1. /\ Stored("st23") = [hw EXCEPT !.status = 23]
      /\ Stored("st7") = [hw EXCEPT !.status = 7]
  BY DEF Stored
<1>2. /\ Stored("tim_on").timer /\ ~Stored("tim_off").timer
      /\ Stored("fiq_off").timer = hw.timer
      /\ Stored("fiq_off").route = "off"
  BY StoredValues DEF HwType
<1>3. /\ Stored("cint").timer = hw.timer
      /\ Stored("cint").route = hw.route /\ ~Stored("cint").pend
  BY StoredValues DEF HwType
<1>4. Stored("st23").status = 23 /\ Stored("st23").timer = hw.timer
  BY <1>1 DEF HwType
<1>5. /\ Stored("st7").status = 7 /\ Stored("st7").timer = hw.timer
      /\ Stored("st7").route = hw.route /\ Stored("st7").pend = hw.pend
  BY <1>1 DEF HwType
<1> QED BY <1>2, <1>3, <1>4, <1>5

(* A store of the only call there is brings it to its next step, or, when  *)
(* it was the last one, makes the byte say what the timer does.            *)
LEMMA ValueCall ==
  ASSUME IInv, AloneInv, ValueInv, IsFiniteSet(Clients),
         NEW c \in Clients, CallStep(c)
  PROVE  ValueInv'
<1> SUFFICES ASSUME prog \in SetsStack, phase = "in", ~overlap
             PROVE  /\ ~Busy(c)' => Says(Cardinality(Mapped))'
                    /\ Busy(c)' => Within(c)'
                    /\ \A d \in Clients \ {c} : ~Busy(d)'
  BY DEF ValueInv, CallStep, modVars, histVars
<1>1. /\ call \in [Clients -> Seq(CallSteps)]
      /\ call' = [call EXCEPT ![c] = Tail(@)]
      /\ call'[c] = Tail(call[c]) /\ hw \in HwType /\ Busy(c)
      /\ tmp'[c] = IF Head(call[c]) = "load" THEN hw.status ELSE 0
  BY DEF CallStep, IInv, TypeOK, CallInv, ClientsOK
<1>2. \A d \in Clients \ {c} : ~Busy(d)'
  BY <1>1 DEF AloneInv, Busy
<1>3. Within(c)
  BY <1>1 DEF ValueInv, CallStep
<1>4. Mapped' = Mapped /\ Cardinality(Mapped) \in Nat
  BY MappedFinite DEF CallStep, Mapped
<1>5. /\ Head(call[c]) = "load" => hw' = hw
      /\ Head(call[c]) = "add100" =>
           hw' = [hw EXCEPT !.status = (tmp[c] + 100) % 256]
      /\ Head(call[c]) \notin {"load", "add100"} =>
           hw' = Stored(Head(call[c]))
  BY DEF CallStep, Plus100
<1>6. CASE call[c] = <<"load", "add100">>
  <2>1. call'[c] = <<"add100">> /\ hw' = hw /\ tmp'[c] = hw.status
    BY <1>1, <1>5, <1>6
  <2>2. c \in Mapped /\ Says(Cardinality(Mapped) - 1)
    BY <1>3, <1>6 DEF Within
  <2>3. Says(Cardinality(Mapped) - 1)'
    BY <1>4, <2>1, <2>2 DEF Says
  <2> QED BY <1>2, <1>4, <2>1, <2>2, <2>3 DEF Within, Busy
<1>7. CASE call[c] = <<"add100">>
  <2>1. call'[c] = <<>> /\ hw' = [hw EXCEPT !.status = (tmp[c] + 100) % 256]
    BY <1>1, <1>5, <1>7
  <2>2. Says(Cardinality(Mapped) - 1) /\ tmp[c] = hw.status
    BY <1>3, <1>7 DEF Within
  <2>3. PICK n \in Nat : n = Cardinality(Mapped)
    BY <1>4
  <2>4. Says((n - 1) + 1)'
    BY <1>1, <2>1, <2>2, <2>3, SaysAdded
  <2>5. (n - 1) + 1 = Cardinality(Mapped')
    BY <1>4, <2>3
  <2> QED BY <1>2, <2>1, <2>4, <2>5 DEF Busy, Says
<1>8. CASE call[c] \in {<<"cint", "tim_on", "st23">>, <<"tim_on", "st23">>,
                       <<"tim_off", "fiq_off", "cint", "st7">>,
                       <<"fiq_off", "cint", "st7">>, <<"cint", "st7">>}
  <2>1. hw' = Stored(Head(call[c]))
    BY <1>3, <1>5, <1>8, CallForms
  <2>2. Within(c)'
    BY <1>1, <1>3, <1>8, <2>1, CallForms, StoredFields DEF Within
  <2>3. call'[c] # <<>>
    <3>1. /\ <<"tim_on", "st23">> # <<>> /\ <<"st23">> # <<>>
          /\ <<"fiq_off", "cint", "st7">> # <<>> /\ <<"cint", "st7">> # <<>>
          /\ <<"st7">> # <<>>
      OBVIOUS
    <3> QED BY <1>1, <1>8, <3>1, HeadsTails
  <2> QED BY <1>2, <2>2, <2>3 DEF Busy
<1>9. CASE call[c] = <<"st23">> \/ call[c] = <<"st7">>
  <2>1. call'[c] = <<>> /\ hw' = Stored(Head(call[c]))
    BY <1>1, <1>5, <1>9
  <2>2. \/ hw'.status = 23 /\ hw'.timer
        \/ hw'.status = 7 /\ ~hw'.timer /\ hw'.route = "off" /\ ~hw'.pend
    BY <1>1, <1>3, <1>9, <2>1, CallForms, StoredFields
  <2>3. PICK n \in Nat : n = Cardinality(Mapped')
    BY <1>4
  <2>4. /\ 0 \in 0..n /\ (23 + 100 * 0) % 256 = 23
        /\ (7 + 100 * 0) % 256 = 7
    OBVIOUS
  <2>5. Says(n)'
    BY <2>2, <2>4 DEF Says
  <2> QED BY <1>2, <2>1, <2>3, <2>5 DEF Busy, Says
<1> QED BY <1>3, <1>6, <1>7, <1>8, <1>9, CallForms

(* Whatever the step, the byte goes on to say what the timer does.         *)
LEMMA ValueNext ==
  ASSUME IInv, StatusInv, IsFiniteSet(Clients), [Next]_vars
  PROVE  ValueInv'
<1> USE DEF StatusInv
<1>1. ASSUME UNCHANGED <<modVars, hw, call, tmp, overlap>>,
             \A c \in Clients : Busy(c) /\ fd'[c] = "open" => fd[c] = "open"
      PROVE  ValueInv'
  BY <1>1, ValueKept DEF modVars
<1>2. CASE Module
  <2>1. CASE phase = "init"
    BY <2>1, ValueIn
  <2>2. CASE Insert \/ Remove \/ ExitStore \/ ExitGive
    <3>1. phase' # "in"
      BY <2>2 DEF Insert, Remove, ExitStore, ExitGive, ExitNext
    <3> QED BY <3>1 DEF ValueInv
  <2>3. CASE ExitUsesFreed
    BY <1>1, <2>3 DEF ExitUsesFreed, Crash, clientVars, histVars
  <2> QED BY <1>2, <2>1, <2>2, <2>3 DEF Module, InitStore, InitTake, InitFails
<1>3. CASE Expire
  BY <1>3, ValueTimer DEF Expire
<1>4. CASE Fiq
  <2>1. CASE /\ hw' = [hw EXCEPT !.pend = FALSE]
             /\ UNCHANGED <<modVars, clientVars, oops, histVars>>
    BY <2>1, ValueTimer
  <2>2. CASE \E why : Crash(why)
    BY <1>1, <2>2 DEF Crash, clientVars, histVars
  <2> QED BY <1>4, <2>1, <2>2 DEF Fiq
<1>5. ASSUME NEW c \in Clients, Client(c)
      PROVE  ValueInv'
  <2>1. CASE Open(c) \/ Leave(c)
    <3>1. fd' = [fd EXCEPT ![c] = fd'[c]]
      BY <2>1 DEF Open, Leave, Exit, IInv, TypeOK, ClientsOK
    <3>2. ~Busy(c) /\ fd \in [Clients -> {"none", "open", "stale"}]
      BY <2>1 DEF Open, Leave, Ready, IInv, TypeOK, ClientsOK
    <3>3. \A d \in Clients : Busy(d) /\ fd'[d] = "open" => fd[d] = "open"
      BY <3>1, <3>2
    <3> QED BY <1>1, <2>1, <3>3 DEF Open, Leave, histVars
  <2>2. CASE CallStale(c)
    BY <1>1, <2>2 DEF CallStale, Crash, clientVars, histVars
  <2> QED BY <1>5, <2>1, <2>2, ValueMmap, ValueIoctl, ValueCall DEF Client
<1>6. CASE UNCHANGED vars
  BY <1>1, <1>6 DEF vars, clientVars, histVars
<1> QED BY <1>2, <1>3, <1>4, <1>5, <1>6 DEF Next

(* Between two calls, and as long as none overlap, "started" means that    *)
(* the timer runs, and "stopped" that it is still and unrouted with no     *)
(* interrupt left over - for up to 27 clients, since 28 that map the       *)
(* buffer would turn a 23 into a 7.                                        *)
THEOREM StatusTold ==
  ASSUME IsFiniteSet(Clients), Cardinality(Clients) <= 27
  PROVE  Spec => []StatusTells
<1>1. Init => StatusInv
  BY DEF Init, StatusInv, AloneInv, FreshInv, ValueInv, Busy
<1>2. IInv /\ StatusInv /\ [Next]_vars => StatusInv'
  BY AloneNext, FreshNext, ValueNext DEF StatusInv
<1>3. IInv /\ StatusInv => StatusTells
  <2> SUFFICES ASSUME IInv, StatusInv, prog \in SetsStack, phase = "in",
                      ~overlap, \A c \in Clients : ~Busy(c)
               PROVE  /\ hw.status \in Shifted(23) => hw.timer
                      /\ hw.status \in Shifted(7) =>
                           ~hw.timer /\ hw.route = "off" /\ ~hw.pend
    BY DEF StatusTells
  <2>1. Cardinality(Mapped) \in Nat /\ Cardinality(Mapped) <= 27
    BY MappedFinite, FS_CardinalityType
  <2>2. PICK k \in 0..Cardinality(Mapped) :
          \/ hw.status = (56 + 100 * k) % 256
          \/ hw.status = (23 + 100 * k) % 256 /\ hw.timer
          \/ /\ hw.status = (7 + 100 * k) % 256
             /\ ~hw.timer /\ hw.route = "off" /\ ~hw.pend
    BY DEF StatusInv, ValueInv, Says
  <2>3. k \in 0..27
    BY <2>1
  <2>4. ASSUME hw.status \in Shifted(23) PROVE hw.timer
    <3>1. PICK j \in 0..27 : hw.status = (23 + 100 * j) % 256
      BY <2>4 DEF Shifted
    <3> QED BY <2>2, <2>3, <3>1, ValuesApart
  <2>5. ASSUME hw.status \in Shifted(7)
        PROVE  ~hw.timer /\ hw.route = "off" /\ ~hw.pend
    <3>1. PICK j \in 0..27 : hw.status = (7 + 100 * j) % 256
      BY <2>5 DEF Shifted
    <3> QED BY <2>2, <2>3, <3>1, ValuesApart
  <2> QED BY <2>4, <2>5
<1> QED BY <1>1, <1>2, <1>3, Invariance, PTL DEF Spec
=============================================================================
