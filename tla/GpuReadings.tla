------------------------------- MODULE GpuReadings ------------------------------
(***************************************************************************)
(* How a tick of dgxtop reads the GPUs (src/collectors/gpu.rs and          *)
(* gpu_process.rs): GpuCollector one device after the other, then the      *)
(* NVLinks, then GpuProcessCollector one device after the other again.     *)
(* NVML answers each call by itself: a device may be lost between two of   *)
(* them, a process may start or end, any call may fail.  What came back is *)
(* kept by position in AppState::gpus and gpu_histories, and by the number *)
(* of the device in nvlink and gpu_processes.                              *)
(*                                                                         *)
(* Each of the two process tables of a device says for itself how much     *)
(* memory a process uses.  NVML is taken to list a process once per table. *)
(***************************************************************************)
EXTENDS Integers, Sequences, Functions, FiniteSetsExt

CONSTANTS
  device_count,  \* asked once, at the start
  Peer,          \* Peer[link]: the devices at the two ends of an NVLink
  Busy,          \* bound: the devices that processes use
  Pids,
  Entries        \* what the tables of a device may say of a process

ASSUME CountAssumption == device_count \in Nat
ASSUME PeerAssumption == \A l \in DOMAIN Peer : Peer[l] \subseteq 0..(device_count - 1)
\* A pid is an unsigned 32 bit number.
ASSUME PidAssumption == IsFiniteSet(Pids)

VARIABLES
  lost,      \* devices that device_by_index does not open
  uses,      \* uses[g][p]: the tables of device g that list process p, with its memory
  steady,    \* devices whose tables neither changed nor failed since the tick began
  at, idx,   \* where collect_all is, and the device its loop has come to
  partial,   \* what the loop has read so far
  gpus,      \* AppState::gpus
  gpu_histories,  \* gpu_histories[i]: the devices with a sample in the i-th history
  nvlink, gpu_processes

world == <<lost, uses>>
shown == <<gpus, gpu_histories, nvlink, gpu_processes>>
gpuVars == <<lost, uses, steady, at, idx, partial, gpus, gpu_histories, nvlink, gpu_processes>>

Devices == 0..(device_count - 1)
Tables == {"compute", "graphics"}

\* The tables that list it, each with the memory it uses, 0 if unavailable.
ASSUME EntryAssumption ==
  \A entry \in Entries : DOMAIN entry \subseteq Tables /\ entry \in [DOMAIN entry -> Nat]

GpuInit ==
  /\ lost \in SUBSET Devices
  /\ uses = [g \in Devices |-> [p \in Pids |-> <<>>]]
  /\ steady = {} /\ at = "idle" /\ idx = 0 /\ partial = <<>>
  /\ gpus = <<>> /\ gpu_histories = [i \in 1..device_count |-> {}]
  /\ nvlink = {} /\ gpu_processes = {}

-----------------------------------------------------------------------------
(* The machine. *)

DeviceChanges(g) ==
  /\ lost' = IF g \in lost THEN lost \ {g} ELSE lost \cup {g}
  /\ UNCHANGED <<uses, steady, at, idx, partial, shown>>

ProcessChanges(g, p, entry) ==
  /\ g \in Busy /\ uses[g][p] # entry
  /\ uses' = [uses EXCEPT ![g][p] = entry]
  /\ steady' = steady \ {g}
  /\ UNCHANGED <<lost, at, idx, partial, shown>>

-----------------------------------------------------------------------------
(* GpuCollector. *)

TablesOf(g, p, readable) == DOMAIN uses[g][p] \cap readable
Listed(g, readable) == {p \in Pids : TablesOf(g, p, readable) # {}}

\* Mutant: the entry of the table read last replaces the other.
collect_process_used_gpu_memory_Last(g, readable) ==
  SumFunctionOnSet(
    [p \in Listed(g, readable) |->
       uses[g][p][IF "graphics" \in TablesOf(g, p, readable) THEN "graphics" ELSE "compute"]],
    Listed(g, readable))

\* The memory of the processes in the tables that could be read: each process once,
\* with the larger of its amounts.
Largest(g, readable) ==
  [p \in Listed(g, readable) |-> Max({uses[g][p][t] : t \in TablesOf(g, p, readable)})]
collect_process_used_gpu_memory(g, readable) ==
  SumFunctionOnSet(Largest(g, readable), Listed(g, readable))

\* A device that does not say what memory it has is taken for one that shares the
\* system's, of which its processes use what they use.
collect_device(g, framebuffer, readable) ==
  [index |-> g, shared |-> ~framebuffer,
   used |-> IF framebuffer THEN 0 ELSE collect_process_used_gpu_memory(g, readable)]

TickEvent ==
  /\ at = "idle"
  /\ at' = "gpus" /\ steady' = Devices
  /\ UNCHANGED <<world, idx, partial, shown>>

\* Mutant: a device that cannot be opened is left out of the report.
ReadGpu_Skips(framebuffer, readable) ==
  /\ at = "gpus" /\ idx < device_count
  /\ partial' = IF idx \in lost THEN partial
                ELSE Append(partial, collect_device(idx, framebuffer, readable))
  /\ idx' = idx + 1
  /\ steady' = IF readable = Tables /\ idx \notin lost THEN steady ELSE steady \ {idx}
  /\ UNCHANGED <<world, at, shown>>

\* One device that cannot be opened fails the report of all of them; any other call
\* that fails only leaves its field empty.
ReadGpu(framebuffer, readable) ==
  /\ at = "gpus" /\ idx < device_count
  /\ IF idx \in lost
       THEN at' = "nvlink" /\ steady' = {} /\ partial' = <<>> /\ idx' = 0
       ELSE /\ partial' = Append(partial, collect_device(idx, framebuffer, readable))
            /\ idx' = idx + 1
            /\ steady' = IF readable = Tables THEN steady ELSE steady \ {idx}
            /\ UNCHANGED at
  /\ UNCHANGED <<world, shown>>

\* update_gpus, as in DevicePanels; record adds a sample to the history of the
\* same position.
update_gpus ==
  /\ at = "gpus" /\ idx = device_count
  /\ gpus' = partial
  /\ gpu_histories' =
       [i \in DOMAIN gpu_histories |->
          IF i \in DOMAIN partial THEN gpu_histories[i] \cup {partial[i].index}
          ELSE gpu_histories[i]]
  /\ at' = "nvlink" /\ idx' = 0 /\ partial' = <<>>
  /\ UNCHANGED <<world, steady, nvlink, gpu_processes>>

\* The active links of the devices that can be opened, with the device at the other
\* end where that can be opened too.  This report is replaced on every tick.
collect_nvlink ==
  /\ at = "nvlink"
  /\ \E active \in SUBSET DOMAIN Peer :
       nvlink' = UNION {{[gpu |-> g, link |-> l,
                          remote |-> (Peer[l] \ {g}) \ lost] : g \in Peer[l] \ lost} :
                        l \in active}
  /\ at' = "processes"
  /\ UNCHANGED <<world, steady, idx, partial, gpus, gpu_histories, gpu_processes>>

-----------------------------------------------------------------------------
(* GpuProcessCollector. *)

\* One row for each process of a device; one in both tables is of both types, and its
\* row keeps the amount of the compute table, which is read first.
RowMemory(g, p, readable) ==
  uses[g][p][IF "compute" \in TablesOf(g, p, readable) THEN "compute" ELSE "graphics"]
RowsOf(g, readable) ==
  {[gpu |-> g, pid |-> p, type |-> TablesOf(g, p, readable),
    memory |-> RowMemory(g, p, readable)] : p \in Listed(g, readable)}

\* A device that cannot be opened has no rows.
ReadProcesses(readable) ==
  /\ at = "processes" /\ idx < device_count
  /\ partial' = IF idx \in lost THEN partial ELSE Append(partial, RowsOf(idx, readable))
  /\ idx' = idx + 1
  /\ steady' = IF readable = Tables /\ idx \notin lost THEN steady ELSE steady \ {idx}
  /\ UNCHANGED <<world, at, shown>>

update_gpu_processes ==
  /\ at = "processes" /\ idx = device_count
  /\ gpu_processes' = UNION {partial[i] : i \in DOMAIN partial}
  /\ at' = "idle" /\ idx' = 0 /\ partial' = <<>>
  /\ UNCHANGED <<world, steady, gpus, gpu_histories, nvlink>>

GpuNext ==
  \/ \E g \in Devices : DeviceChanges(g)
  \/ \E g \in Devices, p \in Pids, entry \in Entries : ProcessChanges(g, p, entry)
  \/ TickEvent
  \/ \E framebuffer \in BOOLEAN, readable \in SUBSET Tables : ReadGpu(framebuffer, readable)
  \/ update_gpus \/ collect_nvlink
  \/ \E readable \in SUBSET Tables : ReadProcesses(readable)
  \/ update_gpu_processes

GpuSpec == GpuInit /\ [][GpuNext]_gpuVars

-----------------------------------------------------------------------------
(* Properties. *)

\* What the GPU view puts on one page by position - the metrics and the history - is of
\* one device, whichever devices were lost at whichever call: no history ever mixes two.
PageIsOfOneDevice ==
  /\ \A i \in DOMAIN gpus : gpus[i].index = i - 1
  /\ \A i \in DOMAIN gpu_histories : gpu_histories[i] \subseteq {i - 1}

\* The compute table gives a process of both tables no less than the graphics table.
ComputeSaysMost(g) ==
  \A p \in Pids :
    Tables \subseteq DOMAIN uses[g][p] => uses[g][p]["graphics"] <= uses[g][p]["compute"]

RowsSum(g) ==
  SumFunctionOnSet([row \in gpu_processes |-> row.memory], {row \in gpu_processes : row.gpu = g})

\* The two collectors merge the process tables of a device each in its own way: the
\* rows of the process table never add up to more than the memory shown for a GPU that
\* shares the system's, if both could read the same tables, and to less only on
\* account of a process with more memory in the graphics table than in the other.
MemoryAddsUp ==
  at = "idle" =>
    \A g \in steady :
      gpus[g + 1].shared =>
        /\ RowsSum(g) <= gpus[g + 1].used
        /\ ComputeSaysMost(g) => RowsSum(g) = gpus[g + 1].used

=============================================================================
