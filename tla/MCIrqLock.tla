----------------------------- MODULE MCIrqLock -----------------------------
(***************************************************************************)
(* Instances of IrqLock.  The paths are those of the kernel's functions.   *)
(***************************************************************************)
EXTENDS IrqLock, TLC

CONSTANTS bsp, ap1, runqueue, driver_list, device_list, all_threads

irqsave(l) == [lock |-> l, kind |-> "irqsave"]
plain(l) == [lock |-> l, kind |-> "plain"]
irq(l) == [lock |-> l, kind |-> "irq"]
try(l) == [lock |-> l, kind |-> "try"]

MCCpu == {bsp, ap1}
MCIndex == bsp :> 0 @@ ap1 :> 1

MCLock == {runqueue, driver_list, device_list, all_threads}

\* scheduler_add_thread; device_probe_all; device_register; thread_exit;
\* the irq and try primitives as the spin lock tests use them.
MCTaskPaths ==
    { <<irqsave(runqueue)>>,
      <<irqsave(driver_list), irqsave(device_list)>>,
      <<irqsave(device_list)>>,
      <<plain(all_threads)>>,
      <<irq(device_list)>>,
      <<try(all_threads)>> }

\* scheduler_tick -> schedule -> pick_next_thread.
MCIrqPaths == { <<irqsave(runqueue)>> }

\* Two CPUs in the same subsystem.
MCSharedPaths ==
    { <<irqsave(driver_list), irqsave(device_list)>>,
      <<try(device_list)>> }

\* A uniprocessor with timer interrupts, and two CPUs without.
MCMachines ==
    { [cpus |-> {bsp}, task |-> MCTaskPaths, irq |-> MCIrqPaths],
      [cpus |-> MCCpu, task |-> MCSharedPaths, irq |-> {}] }

\* The kernel's paths keep to the masking rules.
ASSUME KernelPathsMask == MaskingDiscipline
============================================================================
