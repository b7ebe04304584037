------------------------------ MODULE Drivers ------------------------------
(***************************************************************************)
(* Devices and the console in the order in which the boot CPU gets to them.*)
(* What drivers register, probe and initialise is explored first.  From    *)
(* the state in which kernel_main begins to print, in which the serial     *)
(* driver alone is registered, the console is used until the machine goes  *)
(* off.                                                                    *)
(***************************************************************************)
EXTENDS Console, Device

VARIABLE printing   \* kernel_main has called serial_driver_init and prints

driversVars == <<vars, devVars, printing>>

DriversInit == ConsoleInit /\ DevInit /\ printing = FALSE

(* kernel_main after serial_driver_init: devices are not probed yet. *)
BeginPrinting ==
    /\ ~printing /\ driver_list = <<"serial">> /\ dev["serial"] = Registered
    /\ printing' = TRUE
    /\ UNCHANGED <<vars, devVars>>

DeviceStep == ~printing /\ UNCHANGED <<vars, printing>>
ConsoleStep == printing /\ stage # "off" /\ UNCHANGED <<devVars, printing>>

DriversNext ==
    \/ BeginPrinting
    \/ \E r \in Driver : driver_init(r) /\ DeviceStep
    \/ device_probe_all /\ DeviceStep
    \/ device_init_all /\ DeviceStep
    \/ InitDevice /\ DeviceStep
    \/ serial_unlock /\ ConsoleStep
    \/ system_shutdown /\ ConsoleStep
    \/ PowerOff /\ ConsoleStep
    \/ Shift /\ ConsoleStep
    \/ Transmit /\ ConsoleStep
    \/ \E c \in Cpu : klog(c) /\ ConsoleStep
    \/ \E c \in Cpu : serial_lock_acquire(c) /\ ConsoleStep
    \/ \E c \in Cpu : serial_putc_unlocked(c) /\ ConsoleStep
    \/ \E c \in Cpu : serial_lock_release(c) /\ ConsoleStep
    \/ \E c \in Cpu : serial_flush(c) /\ ConsoleStep

\* Every CPU executes, the boot CPU goes through kernel_main, and the UART
\* transmits.
DriversSpec ==
    /\ DriversInit /\ [][DriversNext]_driversVars
    /\ \A c \in Cpu : WF_driversVars(Running(c) /\ ConsoleStep)
    /\ WF_driversVars(serial_unlock /\ ConsoleStep)
    /\ WF_driversVars(system_shutdown /\ ConsoleStep)
    /\ WF_driversVars(PowerOff /\ ConsoleStep)
    /\ WF_driversVars((Shift \/ Transmit) /\ ConsoleStep)

----------------------------------------------------------------------------
(***************************************************************************)
(* Once kernel_main prints, the machine goes off in the end: no CPU waits   *)
(* for serial_lock or for the UART for ever, so kernel_main gets through    *)
(* its output to the shutdown.                                              *)
(***************************************************************************)
PowersOff == printing ~> stage = "off"
============================================================================
