---------------------------- MODULE MC_GpuBackend ----------------------------
(***************************************************************************)
(* GpuBackend with the code's _NVML_FAIL_MAX and a two-GPU machine, so    *)
(* that nvidia-smi's one-line-per-GPU output is exercised.                *)
(***************************************************************************)
EXTENDS GpuBackend

MC_FailMax == 3
MC_GpuCount == 2

=============================================================================
