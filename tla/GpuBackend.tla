----------------------------- MODULE GpuBackend -----------------------------
(***************************************************************************)
(* The GPU backend of sysmon.py: init_gpu (lines 62-107), run once by     *)
(* main before the loop, and get_vram (lines 292-362), run on every slow  *)
(* tick, with the module globals _GPU_BACKEND, _USE_NVML and              *)
(* _NVML_FAIL_COUNT (lines 54-59) as state.  The row get_vram returns is   *)
(* written to vram.csv by write_vram (698-699) as "ts,raw"; it is modelled *)
(* as the sequence of lines it becomes, each line the sequence of column   *)
(* names its fields stand for, to be compared with the header (631-634).  *)
(*                                                                         *)
(* Every NVML call may raise (a driver reset, a GPU that fell off the      *)
(* bus); whether nvidia-smi answers is a fact of the machine that may     *)
(* change during the run (smiUp, moved by the environment).                *)
(***************************************************************************)
EXTENDS Naturals, Sequences

CONSTANTS
    FailMax,     \* _NVML_FAIL_MAX (line 59)
    GpuCount     \* NVIDIA GPUs on the machine; nvidia-smi prints one line each

ASSUME GpuAssumption == FailMax \in Nat \ {0} /\ GpuCount \in Nat \ {0}

(* The values _GPU_BACKEND takes, by the branch of init_gpu that set it.  *)
Labels == {"none", "disabled", "nvml", "smi", "amd", "nogpu", "smi_fallback"}

(* vram.csv's header (631-634) without its timestamp.                      *)
VramColumns == <<"mem_used_mib", "mem_total_mib", "mem_free_mib", "temp_c",
                 "gpu_util_pct", "mem_util_pct", "gpu_clock_mhz",
                 "mem_clock_mhz", "power_w", "pcie_tx_kbs", "pcie_rx_kbs",
                 "throttle_reasons", "perf_state">>

VramHeader == <<"timestamp">> \o VramColumns

(* The names a field of a vram.csv line can stand for.                     *)
Columns == {"timestamp", "mem_used_mib", "mem_total_mib", "mem_free_mib",
            "temp_c", "gpu_util_pct", "mem_util_pct", "gpu_clock_mhz",
            "mem_clock_mhz", "power_w", "pcie_tx_kbs", "pcie_rx_kbs",
            "throttle_reasons", "perf_state"}

(* The NVML path formats its thirteen fields in header order (331-335).   *)
NvmlLine == <<"timestamp">> \o VramColumns

(* nvidia-smi prints its ten query fields (349-352), pstate last, one line *)
(* per GPU; the code appends ", 0, 0, 0" (359) for the fields it lacks.     *)
SmiFields == <<"mem_used_mib", "mem_total_mib", "mem_free_mib", "temp_c",
               "gpu_util_pct", "mem_util_pct", "gpu_clock_mhz",
               "mem_clock_mhz", "power_w", "perf_state">>

SmiPadding == <<"pcie_tx_kbs", "pcie_rx_kbs", "throttle_reasons">>

SmiLines ==
    [i \in 1 .. GpuCount |->
        (IF i = 1 THEN <<"timestamp">> ELSE <<>>)
        \o SmiFields
        \o (IF i = GpuCount THEN SmiPadding ELSE <<>>)]

(* _GPU_BACKEND.replace("NVML", "nvidia-smi (NVML fallback)") (343): only  *)
(* the label the NVML branch of init_gpu wrote contains "NVML".            *)
Relabel(b) == IF b = "nvml" THEN "smi_fallback" ELSE b

VARIABLES
    backend,     \* _GPU_BACKEND
    useNvml,     \* _USE_NVML
    failCount,   \* _NVML_FAIL_COUNT
    smiUp,       \* whether nvidia-smi answers (environment)
    recent,      \* history: outcomes of the last FailMax NVML queries
    lastQuery    \* history: what the last get_vram call did

vars == <<backend, useNvml, failCount, smiUp, recent, lastQuery>>

Query == [spawned : BOOLEAN, avail : BOOLEAN, lines : Seq(Seq(Columns))]

NoQuery == [spawned |-> FALSE, avail |-> FALSE, lines |-> <<>>]

(* Record an NVML outcome, keeping the last FailMax.                       *)
Remember(r, o) ==
    IF Len(r) = FailMax THEN Append(Tail(r), o) ELSE Append(r, o)

TypeOK ==
    /\ backend \in Labels
    /\ useNvml \in BOOLEAN
    /\ failCount \in 0 .. FailMax
    /\ smiUp \in BOOLEAN
    /\ recent \in Seq({"ok", "fail"}) /\ Len(recent) <= FailMax
    /\ lastQuery \in Query

Init ==
    /\ backend = "none"
    /\ useNvml = FALSE
    /\ failCount = 0
    /\ smiUp \in BOOLEAN
    /\ recent = <<>>
    /\ lastQuery = NoQuery

(* init_gpu(disable=True) (66-68).                                         *)
InitDisabled ==
    /\ backend = "none"
    /\ backend' = "disabled"
    /\ UNCHANGED <<useNvml, failCount, smiUp, recent, lastQuery>>

(* init_gpu(disable=False) (71-107).  The NVML attempt binds ("ok"), fails *)
(* before line 76 ("unbound"), or fails in nvmlDeviceGetName after line 76 *)
(* set _USE_NVML ("unnamed"), falling through to the nvidia-smi probe and  *)
(* the AMD vendor file with NVML still in use.                             *)
InitProbe ==
    /\ backend = "none"
    /\ \E nv \in {"ok", "unbound", "unnamed"}, amdVendor \in BOOLEAN :
          /\ useNvml' = (nv # "unbound")
          /\ backend' = IF nv = "ok" THEN "nvml"
                        ELSE IF smiUp THEN "smi"
                        ELSE IF amdVendor THEN "amd"
                        ELSE "nogpu"
    /\ UNCHANGED <<failCount, smiUp, recent, lastQuery>>

(* The nvidia-smi query of get_vram (346-362): a row if it answers, ""     *)
(* on an error or an empty output.                                         *)
SmiQuery(avail) ==
    [spawned |-> TRUE, avail |-> avail,
     lines |-> IF smiUp THEN SmiLines ELSE <<>>]

(* get_vram with the backend disabled (299-300).                           *)
QueryDisabled ==
    /\ backend = "disabled"
    /\ lastQuery' = NoQuery
    /\ UNCHANGED <<backend, useNvml, failCount, smiUp, recent>>

(* Mutant: a success does not reset the count (line 330 dropped).         *)
QueryNvmlOkNoReset ==
    /\ backend \notin {"none", "disabled"}
    /\ useNvml
    /\ recent' = Remember(recent, "ok")
    /\ lastQuery' = [spawned |-> FALSE, avail |-> TRUE, lines |-> <<NvmlLine>>]
    /\ UNCHANGED <<backend, useNvml, failCount, smiUp>>

(* get_vram, NVML path, every call succeeding (301-335).                   *)
QueryNvmlOk ==
    /\ backend \notin {"none", "disabled"}
    /\ useNvml
    /\ failCount' = 0
    /\ recent' = Remember(recent, "ok")
    /\ lastQuery' = [spawned |-> FALSE, avail |-> TRUE, lines |-> <<NvmlLine>>]
    /\ UNCHANGED <<backend, useNvml, smiUp>>

(* Mutant: the switch needs more than FailMax failures (> for >=).        *)
QueryNvmlFailLate ==
    /\ backend \notin {"none", "disabled"}
    /\ useNvml
    /\ failCount' = failCount + 1
    /\ useNvml' = ~(failCount + 1 > FailMax)
    /\ backend' = IF failCount + 1 > FailMax THEN Relabel(backend) ELSE backend
    /\ recent' = Remember(recent, "fail")
    /\ lastQuery' = SmiQuery(smiUp)
    /\ UNCHANGED smiUp

(* Mutant: a failed NVML query returns "" instead of falling through.     *)
QueryNvmlFailNoFallThrough ==
    /\ backend \notin {"none", "disabled"}
    /\ useNvml
    /\ failCount' = failCount + 1
    /\ useNvml' = ~(failCount + 1 >= FailMax)
    /\ backend' = IF failCount + 1 >= FailMax THEN Relabel(backend) ELSE backend
    /\ recent' = Remember(recent, "fail")
    /\ lastQuery' = [spawned |-> FALSE, avail |-> smiUp, lines |-> <<>>]
    /\ UNCHANGED smiUp

(* get_vram, NVML path, a call raising (336-344): count, switch for good  *)
(* at FailMax, and fall through to nvidia-smi on this call too.            *)
QueryNvmlFail ==
    /\ backend \notin {"none", "disabled"}
    /\ useNvml
    /\ failCount' = failCount + 1
    /\ useNvml' = ~(failCount + 1 >= FailMax)
    /\ backend' = IF failCount + 1 >= FailMax THEN Relabel(backend) ELSE backend
    /\ recent' = Remember(recent, "fail")
    /\ lastQuery' = SmiQuery(smiUp)
    /\ UNCHANGED smiUp

(* get_vram once NVML is not in use (346-362).                             *)
QuerySmi ==
    /\ backend \notin {"none", "disabled"}
    /\ ~useNvml
    /\ lastQuery' = SmiQuery(smiUp)
    /\ UNCHANGED <<backend, useNvml, failCount, smiUp, recent>>

(* The environment: nvidia-smi starts or stops answering.                  *)
SmiChange ==
    /\ smiUp' = ~smiUp
    /\ UNCHANGED <<backend, useNvml, failCount, recent, lastQuery>>

Next ==
    \/ InitDisabled \/ InitProbe
    \/ QueryDisabled \/ QueryNvmlOk \/ QueryNvmlFail \/ QuerySmi
    \/ SmiChange

Spec == Init /\ [][Next]_vars

-----------------------------------------------------------------------------
(* The last FailMax NVML queries all failed.                               *)
AllFailed(r) == Len(r) = FailMax /\ \A i \in 1 .. Len(r) : r[i] = "fail"

(***************************************************************************)
(* Spec 4.3: the failure counter counts CONSECUTIVE failures, so NVML is  *)
(* abandoned exactly when its last FailMax queries all failed: while      *)
(* _USE_NVML holds they did not all fail, and the step that clears it     *)
(* (get_vram, line 342) comes right after the FailMax-th failure in a      *)
(* row.  It needs the reset on success (330) and the >= at 340 to be right *)
(* together, over interleavings of successes and failures.                 *)
(***************************************************************************)
FailoverExactlyAfterStreak ==
    /\ [](useNvml => ~AllFailed(recent))
    /\ [][useNvml /\ ~useNvml' => AllFailed(recent')]_vars

(***************************************************************************)
(* Spec 4.3 "automatic failover" and 7 (a per-source failure never costs  *)
(* a healthy source its sample): a get_vram call made while some path     *)
(* answers returns a row, in particular a failing NVML call falls through *)
(* to nvidia-smi on the same call (line 344).                              *)
(***************************************************************************)
NoSampleLost == lastQuery.avail => lastQuery.lines # <<>>

(***************************************************************************)
(* Spec 6: "the two paths must normalize to the same output shape".  Every *)
(* line get_vram's result puts into vram.csv has the header's columns in  *)
(* the header's order (631-634).  The nvidia-smi path (359) puts pstate   *)
(* under pcie_tx_kbs and one line per GPU.                                 *)
(***************************************************************************)
VramRowsMatchHeader ==
    \A i \in 1 .. Len(lastQuery.lines) : lastQuery.lines[i] = VramHeader

=============================================================================
