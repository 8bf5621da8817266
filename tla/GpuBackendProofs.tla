------------------------- MODULE GpuBackendProofs -------------------------
(***************************************************************************)
(* Proofs about the GPU backend, for every FailMax and GpuCount that      *)
(* GpuAssumption allows.                                                   *)
(***************************************************************************)
EXTENDS GpuBackend, TLAPS

(***************************************************************************)
(* Lemmas about the pieces a get_vram result is built from.                *)
(***************************************************************************)
LEMMA SmiLinesType == SmiLines \in Seq(Seq(Columns))
<1>1. /\ <<"timestamp">> \in Seq(Columns)
      /\ SmiFields \in Seq(Columns)
      /\ SmiPadding \in Seq(Columns)
  BY DEF SmiFields, SmiPadding, Columns
<1>2. ASSUME NEW i \in 1 .. GpuCount
      PROVE  (IF i = 1 THEN <<"timestamp">> ELSE <<>>) \o SmiFields
             \o (IF i = GpuCount THEN SmiPadding ELSE <<>>) \in Seq(Columns)
  BY <1>1
<1>. QED
  BY <1>2, GpuAssumption DEF SmiLines

LEMMA RememberType ==
    ASSUME NEW r \in Seq({"ok", "fail"}), Len(r) <= FailMax,
           NEW o \in {"ok", "fail"}
    PROVE  /\ Remember(r, o) \in Seq({"ok", "fail"})
           /\ Len(Remember(r, o)) <= FailMax
  BY GpuAssumption DEF Remember

LEMMA SmiQueryType ==
    ASSUME NEW a \in BOOLEAN
    PROVE  SmiQuery(a) \in Query
  BY SmiLinesType DEF SmiQuery, Query

(***************************************************************************)
(* Type correctness.                                                       *)
(***************************************************************************)
LEMMA NoQueryType == NoQuery \in Query
  BY DEF NoQuery, Query

(* TypeOK alone is not inductive: a failing NVML query adds one to the    *)
(* count, which stays in range only because NVML is dropped on reaching   *)
(* FailMax, and init_gpu can turn NVML on only because nothing has been   *)
(* counted before it runs.                                                 *)
TypeInv ==
    /\ TypeOK
    /\ useNvml => failCount < FailMax
    /\ backend = "none" => failCount = 0

LEMMA TypeInvInit == Init => TypeInv
<1> SUFFICES ASSUME Init PROVE TypeInv
  OBVIOUS
<1>1. recent \in Seq({"ok", "fail"}) /\ Len(recent) <= FailMax
  BY GpuAssumption DEF Init
<1>2. lastQuery \in Query
  BY NoQueryType DEF Init
<1>3. failCount \in 0 .. FailMax /\ ~useNvml /\ failCount = 0
  BY GpuAssumption DEF Init
<1>4. backend \in Labels /\ useNvml \in BOOLEAN /\ smiUp \in BOOLEAN
  BY DEF Init, Labels
<1>. QED
  BY <1>1, <1>2, <1>3, <1>4 DEF TypeInv, TypeOK

LEMMA TypeInvStep == TypeInv /\ [Next]_vars => TypeInv'
<1> SUFFICES ASSUME TypeInv, [Next]_vars PROVE TypeInv'
  OBVIOUS
<1>. USE GpuAssumption DEF TypeInv, TypeOK, Labels
<1>1. CASE InitDisabled   BY <1>1 DEF InitDisabled
<1>2. CASE InitProbe
  <2>1. PICK nv \in {"ok", "unbound", "unnamed"}, amdVendor \in BOOLEAN :
            /\ useNvml' = (nv # "unbound")
            /\ backend' = IF nv = "ok" THEN "nvml"
                          ELSE IF smiUp THEN "smi"
                          ELSE IF amdVendor THEN "amd"
                          ELSE "nogpu"
    BY <1>2 DEF InitProbe
  <2>2. UNCHANGED <<failCount, smiUp, recent, lastQuery>>
    BY <1>2 DEF InitProbe
  <2>3. useNvml' \in BOOLEAN /\ backend' \in Labels
    BY <2>1
  <2>4. failCount = 0 /\ failCount \in 0 .. FailMax - 1
    BY <1>2, <2>2 DEF InitProbe
  <2>. QED
    BY <2>2, <2>3, <2>4
<1>3. CASE QueryDisabled  BY <1>3, NoQueryType DEF QueryDisabled
<1>4. CASE QueryNvmlOk
  BY <1>4, RememberType DEF QueryNvmlOk, Query, NvmlLine, VramColumns, Columns
<1>5. CASE QueryNvmlFail
  <2>1. /\ recent' \in Seq({"ok", "fail"}) /\ Len(recent') <= FailMax
        /\ lastQuery' \in Query
    BY <1>5, RememberType, SmiQueryType DEF QueryNvmlFail
  <2>2. /\ failCount' \in 0 .. FailMax
        /\ useNvml' \in BOOLEAN
        /\ useNvml' => failCount' < FailMax
    <3>1. useNvml /\ failCount \in 0 .. FailMax - 1
      BY <1>5 DEF QueryNvmlFail
    <3>2. failCount' \in 0 .. FailMax
      BY <1>5, <3>1 DEF QueryNvmlFail
    <3>3. CASE failCount + 1 >= FailMax
      <4>1. useNvml' = FALSE
        BY <1>5, <3>3 DEF QueryNvmlFail
      <4>. QED
        BY <3>2, <4>1
    <3>4. CASE ~(failCount + 1 >= FailMax)
      <4>1. useNvml' = TRUE
        BY <1>5, <3>4, Zenon DEF QueryNvmlFail
      <4>2. failCount' < FailMax
        BY <1>5, <3>1, <3>4 DEF QueryNvmlFail
      <4>. QED
        BY <3>2, <4>1, <4>2
    <3>. QED
      BY <3>3, <3>4
  <2>3. backend' \in Labels \ {"none"}
    BY <1>5 DEF QueryNvmlFail, Relabel
  <2>4. smiUp' \in BOOLEAN
    BY <1>5 DEF QueryNvmlFail
  <2>. QED
    BY <2>1, <2>2, <2>3, <2>4
<1>6. CASE QuerySmi       BY <1>6, SmiQueryType DEF QuerySmi
<1>7. CASE SmiChange      BY <1>7 DEF SmiChange
<1>8. CASE UNCHANGED vars BY <1>8 DEF vars
<1>9. QED
  BY <1>1, <1>2, <1>3, <1>4, <1>5, <1>6, <1>7, <1>8 DEF Next

(* The backend's variables keep their types; in particular the failure    *)
(* count never passes _NVML_FAIL_MAX.                                      *)
THEOREM TypeCorrect == Spec => []TypeOK
<1>1. Spec => []TypeInv
  BY TypeInvInit, TypeInvStep, PTL DEF Spec
<1>. QED
  BY <1>1, PTL DEF TypeInv

(***************************************************************************)
(* No lost GPU sample.  NoSampleLost is inductive as it stands, given that *)
(* nvidia-smi's answer is never empty for a machine with a GPU: every      *)
(* query step that finds a path answering returns the NVML line or the    *)
(* nvidia-smi lines, and the environment's SmiChange leaves the last       *)
(* query's result alone.                                                   *)
(***************************************************************************)
LEMMA SmiLinesNonEmpty == SmiLines # <<>>
<1>1. DOMAIN SmiLines = 1 .. GpuCount  BY DEF SmiLines
<1>2. 1 \in 1 .. GpuCount  BY GpuAssumption
<1>3. DOMAIN << >> = {}  OBVIOUS
<1>4. QED  BY <1>1, <1>2, <1>3

LEMMA NoSampleLostStep == NoSampleLost /\ [Next]_vars => NoSampleLost'
<1> SUFFICES ASSUME NoSampleLost, [Next]_vars PROVE NoSampleLost'
  OBVIOUS
<1>. USE DEF NoSampleLost
<1>1. CASE InitDisabled  BY <1>1 DEF InitDisabled
<1>2. CASE InitProbe     BY <1>2 DEF InitProbe
<1>3. CASE QueryDisabled BY <1>3 DEF QueryDisabled, NoQuery
<1>4. CASE QueryNvmlOk   BY <1>4 DEF QueryNvmlOk
<1>5. CASE QueryNvmlFail BY <1>5, SmiLinesNonEmpty DEF QueryNvmlFail, SmiQuery
<1>6. CASE QuerySmi      BY <1>6, SmiLinesNonEmpty DEF QuerySmi, SmiQuery
<1>7. CASE SmiChange     BY <1>7 DEF SmiChange
<1>8. CASE UNCHANGED vars BY <1>8 DEF vars
<1>9. QED
  BY <1>1, <1>2, <1>3, <1>4, <1>5, <1>6, <1>7, <1>8 DEF Next

(* A get_vram call made while NVML or nvidia-smi answers always returns a *)
(* row, for every failure threshold and number of GPUs: a failing NVML    *)
(* call falls through to nvidia-smi on the same call (344).               *)
THEOREM SampleKept == Spec => []NoSampleLost
<1>1. Init => NoSampleLost  BY DEF Init, NoSampleLost, NoQuery
<1>2. QED  BY <1>1, NoSampleLostStep, PTL DEF Spec

(***************************************************************************)
(* Failover exactly after a streak.  FailoverExactlyAfterStreak is not     *)
(* inductive: it speaks of `recent` only when NVML is dropped.  StreakInv  *)
(* ties the counter to the history, counting from its newest entry: the   *)
(* last failCount outcomes are failures, and the one before them, if the  *)
(* history reaches back that far, is a success.  Then while NVML is in    *)
(* use (failCount < FailMax) the history holds a success, and the failure *)
(* that drops NVML is the FailMax-th in a row.  NVML is off before        *)
(* init_gpu runs, so only get_vram can drop it.                            *)
(***************************************************************************)
StreakInv ==
    /\ TypeInv
    /\ backend = "none" => ~useNvml
    /\ failCount <= Len(recent)
    /\ \A k \in 0 .. failCount - 1 : recent[Len(recent) - k] = "fail"
    /\ failCount < Len(recent) => recent[Len(recent) - failCount] = "ok"

(* Remember keeps the newest outcome last and shifts the older ones by     *)
(* one position towards the front when the history is full.                *)
LEMMA RememberEnd ==
    ASSUME NEW r \in Seq({"ok", "fail"}), Len(r) <= FailMax,
           NEW o \in {"ok", "fail"}
    PROVE  /\ Len(Remember(r, o)) = IF Len(r) = FailMax THEN FailMax ELSE Len(r) + 1
           /\ Remember(r, o)[Len(Remember(r, o))] = o
           /\ \A k \in 1 .. Len(Remember(r, o)) - 1 :
                 Remember(r, o)[Len(Remember(r, o)) - k] = r[Len(r) - (k - 1)]
<1>1. CASE Len(r) = FailMax
  <2>1. r # << >>  BY <1>1, GpuAssumption
  <2>2. Len(Tail(r)) = FailMax - 1  BY <1>1, <2>1, GpuAssumption
  <2>. QED  BY <1>1, <2>1, <2>2, GpuAssumption DEF Remember
<1>2. CASE Len(r) # FailMax
  BY <1>2 DEF Remember
<1>. QED  BY <1>1, <1>2

LEMMA StreakInit == Init => StreakInv
BY TypeInvInit DEF Init, StreakInv

LEMMA StreakStep == StreakInv /\ [Next]_vars => StreakInv'
<1> SUFFICES ASSUME StreakInv, [Next]_vars PROVE StreakInv'
  OBVIOUS
<1>1. TypeInv'  BY TypeInvStep DEF StreakInv
<1> DEFINE L == Len(recent)
           L2 == Len(recent')
<1>2. recent \in Seq({"ok", "fail"}) /\ L <= FailMax /\ failCount \in 0 .. FailMax
  BY DEF StreakInv, TypeInv, TypeOK
<1>3. CASE UNCHANGED <<failCount, recent, backend, useNvml>>
  BY <1>1, <1>3 DEF StreakInv
<1>4. CASE QueryNvmlOk
  <2>1. failCount' = 0 /\ recent' = Remember(recent, "ok")
    BY <1>4 DEF QueryNvmlOk
  <2>2. L2 \in 1 .. FailMax /\ recent'[L2] = "ok"
    BY <1>2, <2>1, RememberEnd, GpuAssumption
  <2>3. backend' # "none"  BY <1>4 DEF QueryNvmlOk
  <2>. QED  BY <1>1, <2>1, <2>2, <2>3 DEF StreakInv
<1>5. CASE QueryNvmlFail
  <2>1. failCount \in 0 .. FailMax - 1
    BY <1>5, GpuAssumption DEF QueryNvmlFail, StreakInv, TypeInv, TypeOK
  <2>2. failCount' = failCount + 1 /\ recent' = Remember(recent, "fail")
    BY <1>5 DEF QueryNvmlFail
  <2>3. /\ L2 = IF L = FailMax THEN FailMax ELSE L + 1
        /\ recent'[L2] = "fail"
        /\ \A k \in 1 .. L2 - 1 : recent'[L2 - k] = recent[L - (k - 1)]
    BY <1>2, <2>2, RememberEnd
  <2>4. failCount <= L  BY DEF StreakInv
  <2>5. failCount' <= L2  BY <1>2, <2>1, <2>2, <2>3, <2>4
  <2>6. \A k \in 0 .. failCount' - 1 : recent'[L2 - k] = "fail"
    <3> SUFFICES ASSUME NEW k \in 0 .. failCount' - 1 PROVE recent'[L2 - k] = "fail"
      OBVIOUS
    <3>1. CASE k = 0  BY <2>3, <3>1
    <3>2. CASE k # 0
      <4>1. k \in 1 .. L2 - 1 /\ k - 1 \in 0 .. failCount - 1
        BY <1>2, <2>1, <2>2, <2>5, <3>2
      <4>2. recent[L - (k - 1)] = "fail"  BY <4>1 DEF StreakInv
      <4>. QED  BY <2>3, <4>1, <4>2
    <3>. QED  BY <3>1, <3>2
  <2>7. failCount' < L2 => recent'[L2 - failCount'] = "ok"
    <3> SUFFICES ASSUME failCount' < L2 PROVE recent'[L2 - failCount'] = "ok"
      OBVIOUS
    <3>1. failCount' \in 1 .. L2 - 1 /\ failCount < L
      BY <1>2, <2>1, <2>2, <2>3
    <3>2. recent[L - failCount] = "ok"  BY <3>1 DEF StreakInv
    <3>. QED  BY <1>2, <2>1, <2>2, <2>3, <3>1, <3>2
  <2>8. backend' # "none"
    BY <1>5 DEF QueryNvmlFail, Relabel
  <2>. QED  BY <1>1, <2>5, <2>6, <2>7, <2>8 DEF StreakInv
<1>6. CASE InitDisabled \/ InitProbe
  <2>1. backend' # "none" /\ UNCHANGED <<failCount, recent>>
    BY <1>6 DEF InitDisabled, InitProbe
  <2>. QED  BY <1>1, <2>1 DEF StreakInv
<1>7. QED
  BY <1>3, <1>4, <1>5, <1>6
  DEF Next, vars, QueryDisabled, QuerySmi, SmiChange

(* NVML is dropped only by a failure that makes failCount reach FailMax.  *)
LEMMA DropStep ==
  ASSUME StreakInv, [Next]_vars, useNvml, ~useNvml'
  PROVE  failCount' = FailMax
<1>1. CASE QueryNvmlFail
  <2>1. failCount \in 0 .. FailMax - 1
    BY <1>1, GpuAssumption DEF QueryNvmlFail, StreakInv, TypeInv, TypeOK
  <2>2. failCount + 1 >= FailMax
    BY <1>1, Zenon DEF QueryNvmlFail
  <2>3. failCount' = failCount + 1
    BY <1>1 DEF QueryNvmlFail
  <2>. QED  BY <2>1, <2>2, <2>3, GpuAssumption
<1>2. CASE InitProbe
  BY <1>2 DEF InitProbe, StreakInv
<1>3. CASE ~QueryNvmlFail /\ ~InitProbe
  BY <1>3, Zenon
  DEF Next, vars, InitDisabled, QueryDisabled, QueryNvmlOk, QuerySmi, SmiChange
<1>. QED  BY <1>1, <1>2, <1>3

(***************************************************************************)
(* The failure counter counts consecutive failures, for every FailMax:     *)
(* while get_vram keeps NVML (_USE_NVML) its last FailMax NVML queries     *)
(* did not all fail, and the step that drops it (342) comes right after   *)
(* the FailMax-th failure in a row.                                        *)
(***************************************************************************)
THEOREM FailoverStreak == Spec => FailoverExactlyAfterStreak
<1>1. Spec => []StreakInv
  BY StreakInit, StreakStep, PTL DEF Spec
<1>2. StreakInv => (useNvml => ~AllFailed(recent))
  <2> SUFFICES ASSUME StreakInv, useNvml, AllFailed(recent) PROVE FALSE
    OBVIOUS
  <2>1. failCount < Len(recent)
    BY DEF StreakInv, TypeInv, AllFailed
  <2>2. Len(recent) - failCount \in 1 .. Len(recent)
    BY <2>1 DEF StreakInv, TypeInv, TypeOK
  <2>. QED  BY <2>1, <2>2 DEF StreakInv, AllFailed
<1>3. StreakInv /\ [Next]_vars => [useNvml /\ ~useNvml' => AllFailed(recent')]_vars
  <2> SUFFICES ASSUME StreakInv, [Next]_vars, useNvml, ~useNvml'
               PROVE  AllFailed(recent')
    OBVIOUS
  <2>1. StreakInv'  BY StreakStep
  <2>2. failCount' = FailMax  BY DropStep
  <2>3. Len(recent') = FailMax /\ recent' \in Seq({"ok", "fail"})
    BY <2>1, <2>2 DEF StreakInv, TypeInv, TypeOK
  <2>4. ASSUME NEW i \in 1 .. FailMax PROVE recent'[i] = "fail"
    <3>1. FailMax - i \in 0 .. failCount' - 1  BY <2>2, GpuAssumption
    <3>. QED  BY <2>1, <2>3, <3>1 DEF StreakInv
  <2>. QED  BY <2>3, <2>4 DEF AllFailed
<1>. QED
  BY <1>1, <1>2, <1>3, PTL DEF FailoverExactlyAfterStreak, Spec

=============================================================================
