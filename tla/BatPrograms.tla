---------------------------- MODULE BatPrograms ----------------------------
(***************************************************************************)
(* The kernel modules of batradio_module as tables: what init_bat,         *)
(* exit_bat and the ioctls of each one do to the kernel's resources, to    *)
(* the ARM timer and to the FIQ routing, step by step.  BatRadio says what *)
(* a step does and runs the tables.                                        *)
(*                                                                         *)
(*   pdev      platform_device_register_simple / _unregister               *)
(*   kzalloc, buffer       devm_kzalloc of batradio_data, of fiq_base      *)
(*   dmabuf    dma_zalloc_coherent / dma_free_coherent                     *)
(*   gpiospi, irqtimer     ioremap of the two blocks of registers          *)
(*   claim     claim_fiq / release_fiq                                     *)
(*   misc      misc_register / misc_deregister                             *)
(*   handler   set_fiq_handler and set_fiq_regs                            *)
(*   tim_on, tim_off       TIMCNTR, with and without its enable bits       *)
(*   cint      TIMCINT = 0                                                 *)
(*   fiq_on    IRQFIQ = 0xC0, which is what enable_fiq(64) stores          *)
(*   fiq_0     enable_fiq(0): routes another interrupt than the timer's    *)
(*   fiq_off   IRQFIQ = 0, disable_fiq                                     *)
(*   st56 ...  fiq_buf->status = 56 ...                                    *)
(*                                                                         *)
(* Left out: the level of the CNVST pin, the timer's period, what is       *)
(* printed, and the samples, which no version collects yet.                *)
(***************************************************************************)
EXTENDS Sequences

(* bradio.c, the current driver; fiqtest_3.c is the same program.          *)
bradio_init ==
  <<"pdev", "kzalloc", "st56", "gpiospi", "irqtimer", "handler", "cint",
    "tim_on", "fiq_on", "misc">>

(* Mutant: the FIQ stays routed when the module goes.                      *)
bradio_exit_routed == <<"misc", "tim_off", "cint", "pdev">>
(* Mutant: the platform device is not unregistered.                        *)
bradio_exit_keeps == <<"misc", "tim_off", "fiq_off", "cint">>

bradio_exit == <<"misc", "tim_off", "fiq_off", "cint", "pdev">>

(* Mutant: FIQ_STOP acknowledges the interrupt before it stops the timer.  *)
bradio_ioctl_swapped ==
  [START |-> <<"cint", "tim_on", "st23">>,
   STOP  |-> <<"cint", "tim_off", "fiq_off", "st7">>,
   RESET |-> <<>>]

bradio_ioctl ==
  [START |-> <<"cint", "tim_on", "st23">>,
   STOP  |-> <<"tim_off", "fiq_off", "cint", "st7">>,
   RESET |-> <<>>]

fiqtest_3_init  == bradio_init
fiqtest_3_exit  == bradio_exit
fiqtest_3_ioctl == bradio_ioctl

(* fiqtest.c: the FIQ is claimed, the buffer is real.                      *)
fiqtest_init ==
  <<"pdev", "kzalloc", "buffer", "st55", "gpiospi", "irqtimer", "tim_off",
    "cint", "claim", "handler", "fiq_on", "tim_on", "cint", "misc">>
fiqtest_exit  == <<"misc", "fiq_off", "tim_off", "claim", "pdev">>
fiqtest_ioctl == [START |-> <<"st1">>, STOP |-> <<"st0">>, RESET |-> <<"st0">>]

(* bradio_1.c: a DMA buffer and a device, no interrupt.                    *)
bradio_1_init  == <<"pdev", "kzalloc", "dmabuf", "st56", "misc">>
bradio_1_exit  == <<"misc", "pdev", "dmabuf">>
bradio_1_ioctl == [START |-> <<"st23">>, STOP |-> <<"st7">>, RESET |-> <<>>]

(* testfiqtimer.c and gpiotest.c: an allocated buffer and a device.        *)
testfiqtimer_init  == <<"pdev", "kzalloc", "buffer", "st55", "misc">>
testfiqtimer_exit  == <<"misc", "pdev">>
testfiqtimer_ioctl ==
  [START |-> <<"st1">>, STOP |-> <<"st0">>, RESET |-> <<"st0">>]

gpiotest_init  == <<"pdev", "kzalloc", "buffer", "st55", "gpiospi", "misc">>
gpiotest_exit  == <<"misc", "pdev">>
gpiotest_ioctl ==
  [START |-> <<"st1">>, STOP |-> <<"st0">>, RESET |-> <<"st0">>]

(* Without a device: alloctest.c, and the three versions of the handler    *)
(* on its own.                                                             *)
alloctest_init == <<"pdev", "kzalloc", "dmabuf", "st55">>
alloctest_exit == <<"pdev", "dmabuf">>

bradio_3_init ==
  <<"irqtimer", "tim_off", "cint", "claim", "handler", "tim_on", "fiq_on">>
bradio_3_exit == <<"fiq_off", "tim_off", "fiq_off", "claim">>

fiqtest_2_init ==
  <<"irqtimer", "tim_off", "cint", "claim", "handler", "tim_on", "fiq_0">>
fiqtest_2_exit == <<"fiq_off", "tim_off", "claim">>

fiqtest_4_init ==
  <<"gpiospi", "irqtimer", "tim_off", "cint", "claim", "handler", "tim_on",
    "fiq_on">>
fiqtest_4_exit == <<"fiq_off", "tim_off", "claim">>

-----------------------------------------------------------------------------
Inits ==
  [bradio |-> bradio_init, fiqtest_3 |-> fiqtest_3_init,
   fiqtest |-> fiqtest_init, bradio_1 |-> bradio_1_init,
   testfiqtimer |-> testfiqtimer_init, gpiotest |-> gpiotest_init,
   alloctest |-> alloctest_init, bradio_3 |-> bradio_3_init,
   fiqtest_2 |-> fiqtest_2_init, fiqtest_4 |-> fiqtest_4_init]

Exits ==
  [bradio |-> bradio_exit, fiqtest_3 |-> fiqtest_3_exit,
   fiqtest |-> fiqtest_exit, bradio_1 |-> bradio_1_exit,
   testfiqtimer |-> testfiqtimer_exit, gpiotest |-> gpiotest_exit,
   alloctest |-> alloctest_exit, bradio_3 |-> bradio_3_exit,
   fiqtest_2 |-> fiqtest_2_exit, fiqtest_4 |-> fiqtest_4_exit]

Ioctls ==
  [bradio |-> bradio_ioctl, fiqtest_3 |-> fiqtest_3_ioctl,
   fiqtest |-> fiqtest_ioctl, bradio_1 |-> bradio_1_ioctl,
   testfiqtimer |-> testfiqtimer_ioctl, gpiotest |-> gpiotest_ioctl]

Programs  == DOMAIN Inits
Resources == {"pdev", "kzalloc", "buffer", "dmabuf", "gpiospi", "irqtimer",
              "claim", "misc"}

(* The kernel has each of these once: a second registration or claim       *)
(* fails.                                                                  *)
Named == {"pdev", "claim", "misc"}

(* What goes with a resource that is given back: devm memory goes with its *)
(* device.                                                                 *)
GoesWith(r) == IF r = "pdev" THEN {"pdev", "kzalloc", "buffer"} ELSE {r}

(* What an init that fails at r gives back: the rest stays with the        *)
(* kernel, although the module is gone.                                    *)
GivenBack(p, r) ==
  IF r = "claim" /\ p \in {"bradio_3", "fiqtest_4"} THEN {"irqtimer"} ELSE {}

(* The programs that give the FIQ a stack; the others pass set_fiq_regs    *)
(* whatever their uninitialised regs.ARM_sp holds.                         *)
SetsStack == {"bradio", "fiqtest_3"}

(* The programs that set r8 to 0: the handler's store to the pin goes to   *)
(* address 28 or 40.                                                       *)
NoPin == {"bradio_3", "fiqtest_2"}
=============================================================================
