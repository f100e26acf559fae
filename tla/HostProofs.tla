----------------------------- MODULE HostProofs -----------------------------
(***************************************************************************)
(* Theorems about the host, from its processors to its management layer.   *)
(*                                                                         *)
(* The machine a guest runs on: VT-x and the virtual CPUs (Vmx), the PCI   *)
(* bus (Pci), the handlers of VM exits (VmExit), and the start and the     *)
(* lock of the processors (Smp).                                           *)
(*                                                                         *)
(* Ept: the extended page tables, as a tree of graded tables and as the    *)
(* map they make of the guest's pages, with tables of any number of        *)
(* entries.  Both rest on what a walk, a new link and a stored entry do to *)
(* the path of every address.                                              *)
(*                                                                         *)
(* VmScheduler: the list of VMs, the number of running ones and the        *)
(* workload counters of the nodes.  The counters are summed over the       *)
(* nodes and an evacuation is a loop over the VMs: both are folds,         *)
(* reasoned about with ListLemmas.                                         *)
(*                                                                         *)
(* Cluster: the count of online nodes and the management leader, for every *)
(* order of joins and departures, and ticks that fail any number of nodes. *)
(* The invariant is inductive over the steps of the program, and in        *)
(* cluster_tick over the passes of its loop: Passed says what holds after  *)
(* the first k nodes of the list.                                          *)
(*                                                                         *)
(* Api: every response tells what its request did.                         *)
(***************************************************************************)
EXTENDS Vmx, Ept, Pci, VmExit, Smp, Api, Cluster,
        FiniteSetTheorems, WellFoundedInduction, NaturalsInduction, SequenceTheorems, TLAPS

-----------------------------------------------------------------------------
(* Vmx: what one allocation, and all five, return. *)

\* Below is a well-founded relation.
LEMMA Below ==
  \E R : IsWellFoundedOn(R, Nat) /\ \A x, y \in Nat : x < y => <<x, y>> \in R
<1>1. \A x, y \in Nat : x < y => <<x, y>> \in OpToRel(<, Nat)
  <2> SUFFICES ASSUME NEW x \in Nat, NEW y \in Nat, x < y
               PROVE  <<x, y>> \in OpToRel(<, Nat)
    OBVIOUS
  <2>1. <<x, y>> \in Nat \X Nat /\ <<x, y>>[1] = x /\ <<x, y>>[2] = y
    OBVIOUS
  <2> QED
    BY <2>1, Zenon DEF OpToRel
<1> QED
  BY <1>1, NatLessThanWellFounded, Zenon

\* A pool that is not empty has a lowest page.
LEMMA Lowest ==
  ASSUME NEW pool \in SUBSET (Nat \ {0}), pool # {}
  PROVE  Min(pool) \in pool
<1>1. PICK R : IsWellFoundedOn(R, Nat) /\ \A x, y \in Nat : x < y => <<x, y>> \in R
  BY Below
<1>2. PICK x \in pool : \A y \in pool : ~ (<<y, x>> \in R)
  <2>1. pool \subseteq Nat
    OBVIOUS
  <2>2. IsWellFoundedOn(R, Nat)
    BY <1>1, Zenon
  <2>3. pool # {}
    OBVIOUS
  <2> QED
    BY ONLY <2>1, <2>2, <2>3, WFMin
<1>3. \A y \in pool : x <= y
  <2> SUFFICES ASSUME NEW y \in pool PROVE x <= y
    OBVIOUS
  <2>1. ~ (y < x)
    <3>1. x \in Nat /\ y \in Nat /\ ~ (<<y, x>> \in R)
      BY <1>2
    <3> QED
      BY <1>1, <3>1, Zenon
  <2> QED
    BY <2>1
<1> QED
  BY <1>3 DEF Min

\* pmm_alloc_page takes a page of the pool, or fails.
LEMMA OnePage ==
  ASSUME NEW pool \in SUBSET (Nat \ {0}), NEW granted
  PROVE  /\ pmm_alloc_page(pool, granted) # 0 => /\ granted
                                                /\ pmm_alloc_page(pool, granted) \in pool
         /\ pmm_alloc_page(pool, granted) \in pool \cup {0}
BY Lowest DEF pmm_alloc_page

\* The five allocations: with the last, all have succeeded and the pages are
\* different ones of the pool.
FivePages(p, pool) ==
    /\ p = [vmxon |-> p.vmxon, vmcs |-> p.vmcs, io_a |-> p.io_a, io_b |-> p.io_b, msr |-> p.msr]
    /\ {p.vmxon, p.vmcs, p.io_a, p.io_b, p.msr} \subseteq pool \cup {0}
    /\ p.msr # 0 => p.io_a # 0 /\ p.io_b # 0
    /\ p.io_a # 0 \/ p.io_b # 0 => p.vmcs # 0
    /\ p.vmcs # 0 => p.vmxon # 0
    /\ p.msr # 0 => p.msr \notin {p.vmxon, p.vmcs, p.io_a, p.io_b}
    /\ p.io_b # 0 => p.io_b \notin {p.vmxon, p.vmcs, p.io_a}
    /\ p.io_a # 0 => p.io_a \notin {p.vmxon, p.vmcs}
    /\ p.vmcs # 0 => p.vmcs # p.vmxon

LEMMA Allocations ==
  ASSUME NEW pool \in SUBSET (Nat \ {0}), NEW granted
  PROVE  FivePages(Obtained(pool, granted), pool)
<1> DEFINE vmxon == pmm_alloc_page(pool, "vmxon" \in granted)
           one == pool \ {vmxon}
           region == pmm_alloc_page(one, vmxon # 0 /\ "vmcs" \in granted)
           two == one \ {region}
           io_a == pmm_alloc_page(two, region # 0 /\ "io_a" \in granted)
           three == two \ {io_a}
           io_b == pmm_alloc_page(three, region # 0 /\ "io_b" \in granted)
           four == three \ {io_b}
           msr_page == pmm_alloc_page(four, io_a # 0 /\ io_b # 0 /\ "msr" \in granted)
<1>1. Obtained(pool, granted) = [vmxon |-> vmxon, vmcs |-> region, io_a |-> io_a, io_b |-> io_b,
                                 msr |-> msr_page]
  BY DEF Obtained
<1>2. vmxon \in pool \cup {0}
  BY OnePage
<1>3. /\ one \in SUBSET (Nat \ {0})
      /\ two \in SUBSET (Nat \ {0})
      /\ three \in SUBSET (Nat \ {0})
      /\ four \in SUBSET (Nat \ {0})
  OBVIOUS
<1> HIDE DEF vmxon
<1>4. region \in one \cup {0} /\ (region # 0 => vmxon # 0)
  <2> HIDE DEF one
  <2> QED BY <1>3, OnePage
<1> HIDE DEF region
<1>5. io_a \in two \cup {0} /\ (io_a # 0 => region # 0)
  <2> HIDE DEF two
  <2> QED BY <1>3, OnePage
<1> HIDE DEF io_a
<1>6. io_b \in three \cup {0} /\ (io_b # 0 => region # 0)
  <2> HIDE DEF three
  <2> QED BY <1>3, OnePage
<1> HIDE DEF io_b
<1>7. msr_page \in four \cup {0} /\ (msr_page # 0 => io_a # 0 /\ io_b # 0)
  <2> HIDE DEF four
  <2> QED BY <1>3, OnePage
<1> HIDE DEF msr_page
<1> QED
  BY <1>1, <1>2, <1>4, <1>5, <1>6, <1>7 DEF FivePages

LEMMA PagesOfFive ==
  ASSUME NEW p, NEW pool, FivePages(p, pool)
  PROVE  PagesOf(p) = {p.vmxon, p.vmcs, p.io_a, p.io_b, p.msr} \ {0}
BY DEF PagesOf, Regions, FivePages

LEMMA CleanupIsExact ==
  ASSUME NEW p, NEW pool, FivePages(p, pool), p.msr = 0
  PROVE  Cleanup(p) = PagesOf(p) \ LostBitmap(p)
<1>1. PagesOf(p) = {p.vmxon, p.vmcs, p.io_a, p.io_b} \ {0}
  BY PagesOfFive
<1> QED
  BY <1>1 DEF Cleanup, fail_vmxon, fail_vmcs, fail_io, fail_msr, FivePages, LostBitmap

-----------------------------------------------------------------------------
(* Vmx: the inductive invariant. *)

VcpuRecord ==
    [regions : [vmxon : Pages, vmcs : Pages, io_a : Pages, io_b : Pages, msr : Pages],
     state : {"CREATED", "RUNNING"}, launched : {FALSE}]

VmxTypeOK ==
    /\ msr \in [locked : BOOLEAN, vmx : BOOLEAN]
    /\ hw \in Capabilities
    /\ cpu \in [vmxe : BOOLEAN, vmxon : BOOLEAN, current : Pages \cup {0},
                mode : {"kernel", "guest"}]
    /\ free \subseteq Pages /\ others \subseteq Pages /\ leaked \subseteq Pages
    /\ \A v \in Vcpu : Exists(v) => vcpus[v] \in VcpuRecord
    /\ vcpus = [v \in Vcpu |-> vcpus[v]]
    /\ vmcs = [p \in Pages |-> vmcs[p]]

\* The program's copy of the capabilities is the processor's; a processor in
\* VMX operation was brought there in order; and every page that holds a VMCS,
\* one that is current though its vCPU is gone included, holds legal controls.
VmxSound ==
    /\ Initialized => /\ vmx_caps = ReadCapabilities(hw)
                      /\ msr.locked = TRUE /\ msr.vmx = TRUE
    /\ cpu.vmxon = TRUE => cpu.vmxe = TRUE /\ Initialized
    /\ \A p \in Pages : vmcs[p] = NotSetUp \/ LegalControls(vmcs[p])

VmxInv == VmxTypeOK /\ VmxSound /\ VcpuPagesAccounted

\* Whatever the processor can do, the controls written are legal.
LEMMA SetupIsLegal ==
  ASSUME hw \in Capabilities, vmx_caps = ReadCapabilities(hw)
  PROVE  LegalControls(setup_execution_controls)
<1> DEFINE c == setup_execution_controls
<1>1. /\ DOMAIN hw = Groups
      /\ \A g \in Groups : hw[g].allowed0 \subseteq hw[g].allowed1
      /\ "HOST_ADDR_SPACE" \in hw["exit"].allowed1
      /\ "UNRESTRICTED_GUEST" \in hw["proc2"].allowed1 => "EPT" \in hw["proc2"].allowed1
  BY VmxConstants
<1>2. \A g \in Groups \ {"proc2"} : vmx_caps[g] = hw[g]
  BY <1>1 DEF ReadCapabilities, Groups
<1>3. "SECONDARY" \in hw["proc"].allowed1 => vmx_caps["proc2"] = hw["proc2"]
  BY DEF ReadCapabilities
<1>4. \A g \in Groups \ {"proc2"} : hw[g].allowed0 \subseteq c[g] /\ c[g] \subseteq hw[g].allowed1
  BY <1>1, <1>2 DEF setup_execution_controls, adjust_controls
<1>5. "HOST_ADDR_SPACE" \in c["exit"]
  BY <1>1, <1>2 DEF setup_execution_controls, adjust_controls, Groups
<1>6. ASSUME "SECONDARY" \in c["proc"]
      PROVE  /\ hw["proc2"].allowed0 \subseteq c["proc2"] /\ c["proc2"] \subseteq hw["proc2"].allowed1
             /\ "UNRESTRICTED_GUEST" \in c["proc2"] => "EPT" \in c["proc2"]
  <2>1. vmx_caps["proc2"] = hw["proc2"]
    BY <1>3, <1>4, <1>6 DEF Groups
  <2>2. c["proc2"] = ({x \in {"EPT", "UNRESTRICTED_GUEST"} : x \in hw["proc2"].allowed1}
                        \cup hw["proc2"].allowed0) \cap hw["proc2"].allowed1
    BY <2>1 DEF setup_execution_controls, adjust_controls, Groups, vmx_has
  <2> QED
    BY <1>1, <2>2 DEF Groups
<1> QED
  BY <1>4, <1>5, <1>6 DEF LegalControls

LEMMA VmxStart == VmxInit => VmxInv
<1> SUFFICES ASSUME VmxInit PROVE VmxInv
  OBVIOUS
<1>1. \A v \in Vcpu : ~Exists(v)
  BY DEF VmxInit, Exists
<1>2. VmxTypeOK
  BY <1>1 DEF VmxInit, VmxTypeOK
<1>3. VmxSound
  BY DEF VmxInit, VmxSound, Initialized
<1>4. VcpuPagesAccounted
  BY <1>1 DEF VmxInit, VcpuPagesAccounted, PagesOfVcpu
<1> QED
  BY <1>2, <1>3, <1>4 DEF VmxInv

\* Pages are accounted for while neither the vCPUs nor the pools change.
LEMMA PagesKept ==
  ASSUME VcpuPagesAccounted, UNCHANGED <<free, others, leaked>>,
         \A v \in Vcpu : PagesOfVcpu(v)' = PagesOfVcpu(v),
         \A v \in Vcpu : Exists(v)' => Exists(v) /\ vcpus'[v].regions = vcpus[v].regions
  PROVE  VcpuPagesAccounted'
BY DEF VcpuPagesAccounted

LEMMA RememberedPages ==
  ASSUME NEW m, NEW c, NEW vs,
         \A p \in Pages : m[p] = NotSetUp \/ LegalControls(m[p])
  PROVE  /\ Remembered(m, c, vs) = [p \in Pages |-> Remembered(m, c, vs)[p]]
         /\ \A p \in Pages : \/ Remembered(m, c, vs)[p] = NotSetUp
                             \/ LegalControls(Remembered(m, c, vs)[p])
BY DEF Remembered

LEMMA LegalKept ==
  ASSUME UNCHANGED hw, NEW c
  PROVE  LegalControls(c)' <=> LegalControls(c)
BY DEF LegalControls

LEMMA VmxInitStep == ASSUME VmxInv, vmx_init PROVE VmxInv'
<1> USE DEF VmxInv, vmx_init
<1>1. VmxTypeOK'
  BY DEF VmxTypeOK, Exists
<1>2. msr'.locked = TRUE /\ msr'.vmx = TRUE
  BY DEF VmxTypeOK, vmx_is_supported
<1>3. VmxSound'
  BY <1>2 DEF VmxSound, Initialized, LegalControls, ReadCapabilities
<1>4. VcpuPagesAccounted'
  BY PagesKept DEF PagesOfVcpu, Exists
<1> QED
  BY <1>1, <1>3, <1>4

LEMMA VmxEnableStep == ASSUME VmxInv, vmx_enable_cpu PROVE VmxInv'
<1> USE DEF VmxInv, vmx_enable_cpu
<1>1. VmxTypeOK'
  BY DEF VmxTypeOK, Exists
<1>2. cpu'.vmxe = TRUE /\ cpu'.vmxon = TRUE
  BY DEF VmxTypeOK
<1>3. VmxSound'
  BY <1>2 DEF VmxSound, Initialized, LegalControls, ReadCapabilities
<1>4. VcpuPagesAccounted'
  BY PagesKept DEF PagesOfVcpu, Exists
<1> QED
  BY <1>1, <1>3, <1>4

LEMMA VmxDisableStep == ASSUME VmxInv, vmx_disable_cpu PROVE VmxInv'
<1> USE DEF VmxInv, vmx_disable_cpu
<1>1. /\ vmcs' = [p \in Pages |-> vmcs'[p]]
      /\ \A p \in Pages : vmcs'[p] = NotSetUp \/ LegalControls(vmcs'[p])
  BY RememberedPages DEF VmxSound
<1>2. VmxTypeOK'
  BY <1>1 DEF VmxTypeOK, Exists
<1>3. cpu'.vmxon = FALSE
  BY DEF VmxTypeOK
<1>4. VmxSound'
  BY <1>1, <1>3, LegalKept DEF VmxSound, Initialized, ReadCapabilities, LegalControls
<1>5. VcpuPagesAccounted'
  BY PagesKept DEF PagesOfVcpu, Exists
<1> QED
  BY <1>2, <1>4, <1>5

\* A vCPU that is created owns five pages of the free ones.
LEMMA CreatedRecord ==
  ASSUME VmxInv, NEW p, FivePages(p, free), p.msr # 0
  PROVE  /\ p \in [vmxon : Pages, vmcs : Pages, io_a : Pages, io_b : Pages, msr : Pages]
         /\ PagesOf(p) = {p.vmxon, p.vmcs, p.io_a, p.io_b, p.msr}
         /\ PagesOf(p) \subseteq free
         /\ [regions |-> p, state |-> "CREATED", launched |-> FALSE] # NoVcpu
<1>1. PagesOf(p) = {p.vmxon, p.vmcs, p.io_a, p.io_b, p.msr} \ {0}
  BY PagesOfFive
<1>2. free \subseteq Pages
  BY DEF VmxInv, VmxTypeOK
<1>3. {p.vmxon, p.vmcs, p.io_a, p.io_b, p.msr} \subseteq free
  BY DEF FivePages
<1>4. 0 \notin Pages
  BY VmxConstants
<1>5. p \in [vmxon : Pages, vmcs : Pages, io_a : Pages, io_b : Pages, msr : Pages]
  BY <1>2, <1>3 DEF FivePages
<1>6. PagesOf(p) = {p.vmxon, p.vmcs, p.io_a, p.io_b, p.msr}
  BY <1>1, <1>2, <1>3, <1>4
<1>7. [regions |-> p, state |-> "CREATED", launched |-> FALSE] # NoVcpu
  BY DEF NoVcpu
<1> QED
  BY <1>3, <1>5, <1>6, <1>7

LEMMA VcpuCreateStep == ASSUME VmxInv, NEW v \in Vcpu, vcpu_create(v) PROVE VmxInv'
<1>0. PICK p \in {Obtained(free, granted) : granted \in SUBSET Regions} :
        IF p.msr # 0
        THEN /\ vcpus' = [vcpus EXCEPT ![v] =
                    [regions |-> p, state |-> "CREATED", launched |-> FALSE]]
             /\ free' = free \ PagesOf(p)
             /\ vmcs' = [vmcs EXCEPT ![p.vmcs] = IF p.vmcs = cpu.current THEN @ ELSE NotSetUp]
             /\ UNCHANGED leaked
        ELSE /\ free' = (free \ PagesOf(p)) \cup Cleanup(p)
             /\ leaked' = leaked \cup LostBitmap(p)
             /\ UNCHANGED <<vcpus, vmcs>>
  BY DEF vcpu_create
<1>1. FivePages(p, free) /\ free \in SUBSET (Nat \ {0})
  BY Allocations, VmxConstants DEF VmxInv, VmxTypeOK
<1>2. CASE p.msr # 0
  <2> DEFINE new == [regions |-> p, state |-> "CREATED", launched |-> FALSE]
  <2>1. /\ vcpus' = [vcpus EXCEPT ![v] = new]
        /\ free' = free \ PagesOf(p)
        /\ vmcs' = [vmcs EXCEPT ![p.vmcs] = IF p.vmcs = cpu.current THEN @ ELSE NotSetUp]
        /\ UNCHANGED <<msr, hw, vmx_caps, cpu, others, leaked>> /\ ~Exists(v)
    BY <1>0, <1>2 DEF vcpu_create
  <2>2. /\ p \in [vmxon : Pages, vmcs : Pages, io_a : Pages, io_b : Pages, msr : Pages]
        /\ PagesOf(p) \subseteq free
        /\ new # NoVcpu
    BY <1>1, <1>2, CreatedRecord
  <2>3. new \in VcpuRecord
    BY <2>2 DEF VcpuRecord
  <2> HIDE DEF new
  <2>4. vcpus' = [w \in Vcpu |-> IF w = v THEN new ELSE vcpus[w]]
    BY <2>1 DEF VmxInv, VmxTypeOK
  <2>5. VmxTypeOK'
    BY <2>1, <2>2, <2>3, <2>4 DEF VmxInv, VmxTypeOK, Exists
  <2>6. VmxSound'
    BY <2>1, <2>2 DEF VmxInv, VmxSound, VmxTypeOK, Initialized, ReadCapabilities, LegalControls
  <2>7. PagesOfVcpu(v) = {} /\ PagesOfVcpu(v)' = PagesOf(p)
    BY <2>1, <2>2, <2>4 DEF PagesOfVcpu, Exists, new
  <2>8. \A w \in Vcpu \ {v} : PagesOfVcpu(w)' = PagesOfVcpu(w)
    BY <2>4 DEF PagesOfVcpu, Exists
  <2>9. \A r, t \in Regions : p[r] = p[t] => r = t
    BY <1>1, <1>2 DEF FivePages, Regions
  <2>10. \A w \in Vcpu : Exists(w)' =>
           \A r, t \in Regions : vcpus'[w].regions[r] = vcpus'[w].regions[t] => r = t
    <3>1. vcpus'[v].regions = p
      BY <2>4 DEF new
    <3>2. \A w \in Vcpu \ {v} : vcpus'[w] = vcpus[w]
      BY <2>4
    <3> QED
      BY <2>9, <3>1, <3>2 DEF VmxInv, VcpuPagesAccounted, Exists
  <2>11. VcpuPagesAccounted'
    BY <2>1, <2>2, <2>7, <2>8, <2>10 DEF VmxInv, VcpuPagesAccounted
  <2> QED
    BY <2>5, <2>6, <2>11 DEF VmxInv
<1>3. CASE p.msr = 0
  <2>1. /\ free' = (free \ PagesOf(p)) \cup Cleanup(p)
        /\ leaked' = leaked \cup LostBitmap(p)
        /\ UNCHANGED <<vcpus, vmcs, msr, hw, vmx_caps, cpu, others>>
    BY <1>0, <1>3 DEF vcpu_create
  <2>2. Cleanup(p) = PagesOf(p) \ LostBitmap(p)
    BY <1>1, <1>3, CleanupIsExact
  <2>3. PagesOf(p) \subseteq free
    BY <1>1, PagesOfFive DEF FivePages
  <2>4. LostBitmap(p) \subseteq free
    BY <1>1, <2>3 DEF LostBitmap, FivePages
  <2>5. free' = free \ LostBitmap(p)
    BY <1>1, <2>1, <2>2, <2>3, PagesOfFive DEF LostBitmap
  <2>6. VmxTypeOK' /\ VmxSound'
    BY <2>1, <2>4, <2>5 DEF VmxInv, VmxTypeOK, VmxSound, Exists, Initialized, ReadCapabilities, LegalControls
  <2>7. \A w \in Vcpu : PagesOfVcpu(w)' = PagesOfVcpu(w) /\ Exists(w)' = Exists(w)
    BY <2>1 DEF PagesOfVcpu, Exists
  <2>8. VcpuPagesAccounted'
    BY <2>1, <2>4, <2>5, <2>7 DEF VmxInv, VcpuPagesAccounted
  <2> QED
    BY <2>6, <2>8 DEF VmxInv
<1> QED
  BY <1>2, <1>3

LEMMA VcpuDestroyStep == ASSUME VmxInv, NEW v \in Vcpu, vcpu_destroy(v) PROVE VmxInv'
<1>1. /\ Exists(v)
      /\ free' = free \cup PagesOf(vcpus[v].regions)
      /\ vcpus' = [vcpus EXCEPT ![v] = NoVcpu]
      /\ vmcs' = Remembered(vmcs, cpu, vcpus')
      /\ UNCHANGED <<msr, hw, vmx_caps, cpu, others, leaked>>
  BY DEF vcpu_destroy
<1>2. PagesOfVcpu(v) = PagesOf(vcpus[v].regions) /\ PagesOfVcpu(v)' = {}
  BY <1>1 DEF VmxInv, VmxTypeOK, PagesOfVcpu, Exists
<1>3. \A w \in Vcpu \ {v} : PagesOfVcpu(w)' = PagesOfVcpu(w)
  BY <1>1 DEF VmxInv, VmxTypeOK, PagesOfVcpu, Exists
<1>4. VcpuPagesAccounted'
  <2>1. \A w \in Vcpu : Exists(w)' => Exists(w) /\ vcpus'[w].regions = vcpus[w].regions
    BY <1>1 DEF VmxInv, VmxTypeOK, Exists
  <2> QED
    BY <1>1, <1>2, <1>3, <2>1 DEF VmxInv, VcpuPagesAccounted
<1>5. /\ vmcs' = [p \in Pages |-> vmcs'[p]]
      /\ \A p \in Pages : vmcs'[p] = NotSetUp \/ LegalControls(vmcs'[p])
  <2> DEFINE vs == vcpus'
  <2> HIDE DEF vs
  <2>1. vmcs' = Remembered(vmcs, cpu, vs)
    BY <1>1 DEF vs
  <2>2. \A p \in Pages : vmcs[p] = NotSetUp \/ LegalControls(vmcs[p])
    BY DEF VmxInv, VmxSound
  <2> QED
    BY ONLY <2>1, <2>2, RememberedPages
<1>6. free' \subseteq Pages
  BY <1>4 DEF VcpuPagesAccounted
<1>7. \A w \in Vcpu : Exists(w)' => vcpus'[w] = vcpus[w] /\ Exists(w)
  BY <1>1 DEF VmxInv, VmxTypeOK, Exists
<1>8. VmxTypeOK'
  BY <1>1, <1>5, <1>6, <1>7 DEF VmxInv, VmxTypeOK
<1>9. VmxSound'
  BY <1>1, <1>5 DEF VmxInv, VmxSound, Initialized, ReadCapabilities, LegalControls
<1> QED
  BY <1>4, <1>8, <1>9 DEF VmxInv

LEMMA VcpuInitVmcsStep == ASSUME VmxInv, NEW v \in Vcpu, vcpu_init_vmcs(v) PROVE VmxInv'
<1> DEFINE region == vcpus[v].regions.vmcs
           m == [vmcs EXCEPT ![region] = setup_execution_controls]
<1>1. /\ Exists(v) /\ cpu.vmxon
      /\ cpu' = [cpu EXCEPT !.current = region]
      /\ vmcs' = Remembered(m, cpu', vcpus)
      /\ UNCHANGED <<msr, hw, vmx_caps, free, others, leaked, vcpus>>
  BY DEF vcpu_init_vmcs
<1>2. region \in Pages
  BY <1>1 DEF VmxInv, VmxTypeOK, VcpuRecord
<1>3. LegalControls(setup_execution_controls)
  BY <1>1, SetupIsLegal DEF VmxInv, VmxTypeOK, VmxSound
<1>4. \A p \in Pages : m[p] = NotSetUp \/ LegalControls(m[p])
  BY <1>2, <1>3 DEF VmxInv, VmxTypeOK, VmxSound
<1> HIDE DEF m, region
<1>5. /\ vmcs' = [p \in Pages |-> vmcs'[p]]
      /\ \A p \in Pages : vmcs'[p] = NotSetUp \/ LegalControls(vmcs'[p])
  BY <1>1, <1>4, RememberedPages
<1>6. VmxTypeOK'
  BY <1>1, <1>2, <1>5 DEF VmxInv, VmxTypeOK, Exists
<1>7. VmxSound'
  <2>1. cpu'.vmxon = cpu.vmxon /\ cpu'.vmxe = cpu.vmxe
    BY <1>1 DEF VmxInv, VmxTypeOK
  <2>2. \A p \in Pages : (vmcs[p] = NotSetUp \/ LegalControls(vmcs[p]))'
    BY <1>1, <1>5 DEF LegalControls
  <2> QED
    BY <1>1, <2>1, <2>2 DEF VmxInv, VmxSound, Initialized, ReadCapabilities
<1>8. VcpuPagesAccounted'
  BY <1>1, PagesKept DEF VmxInv, PagesOfVcpu, Exists
<1> QED
  BY <1>6, <1>7, <1>8 DEF VmxInv

LEMMA VcpuRunStep == ASSUME VmxInv, NEW v \in Vcpu, vcpu_run(v) PROVE VmxInv'
<1>1. /\ Exists(v)
      /\ vcpus' = [vcpus EXCEPT ![v].state = "RUNNING"]
      /\ cpu' = cpu \/ cpu' = [cpu EXCEPT !.mode = "guest"]
      /\ UNCHANGED <<msr, hw, vmx_caps, free, others, leaked, vmcs>>
  BY DEF vcpu_run
<1>2. vcpus[v] \in VcpuRecord
  BY <1>1 DEF VmxInv, VmxTypeOK
<1>3. /\ vcpus'[v] \in VcpuRecord /\ vcpus'[v].regions = vcpus[v].regions
      /\ vcpus' = [w \in Vcpu |-> vcpus'[w]]
      /\ \A w \in Vcpu \ {v} : vcpus'[w] = vcpus[w]
  BY <1>1, <1>2 DEF VmxInv, VmxTypeOK, VcpuRecord
<1>4. vcpus'[v] # NoVcpu
  BY <1>3 DEF VcpuRecord, NoVcpu
<1>5. VmxTypeOK'
  BY <1>1, <1>3 DEF VmxInv, VmxTypeOK, Exists
<1>6. VmxSound'
  BY <1>1 DEF VmxInv, VmxTypeOK, VmxSound, Initialized, ReadCapabilities, LegalControls
<1>7. \A w \in Vcpu : PagesOfVcpu(w)' = PagesOfVcpu(w)
  BY <1>1, <1>3, <1>4 DEF PagesOfVcpu, Exists
<1>8. \A w \in Vcpu : Exists(w)' => Exists(w) /\ vcpus'[w].regions = vcpus[w].regions
  BY <1>1, <1>3 DEF Exists
<1>9. VcpuPagesAccounted'
  BY <1>1, <1>7, <1>8, PagesKept DEF VmxInv
<1> QED
  BY <1>5, <1>6, <1>9 DEF VmxInv

LEMMA PoolStep == ASSUME VmxInv, TakePages \/ ReturnPages PROVE VmxInv'
<1>1. /\ free' \cup others' = free \cup others
      /\ free' \cap others' = {}
      /\ UNCHANGED <<msr, hw, vmx_caps, cpu, leaked, vcpus, vmcs>>
  BY DEF TakePages, ReturnPages, VmxInv, VcpuPagesAccounted
<1>2. \A w \in Vcpu : PagesOfVcpu(w)' = PagesOfVcpu(w) /\ Exists(w)' = Exists(w)
  BY <1>1 DEF PagesOfVcpu, Exists
<1>3. VcpuPagesAccounted'
  BY <1>1, <1>2 DEF VmxInv, VcpuPagesAccounted
<1>4. VmxTypeOK' /\ VmxSound'
  BY <1>1 DEF VmxInv, VmxTypeOK, VmxSound, Exists, Initialized, ReadCapabilities, LegalControls
<1> QED
  BY <1>3, <1>4 DEF VmxInv

LEMMA VmxStutter == ASSUME VmxInv, UNCHANGED vmx_vars PROVE VmxInv'
<1>1. UNCHANGED <<msr, hw, vmx_caps, cpu, free, others, leaked, vcpus, vmcs>>
  BY DEF vmx_vars
<1>2. VmxTypeOK' /\ VmxSound'
  BY <1>1 DEF VmxInv, VmxTypeOK, VmxSound, Exists, Initialized, ReadCapabilities, LegalControls
<1>3. VcpuPagesAccounted'
  BY <1>1, PagesKept DEF VmxInv, PagesOfVcpu, Exists
<1> QED
  BY <1>2, <1>3 DEF VmxInv

LEMMA VmxStep == VmxInv /\ [VmxNext]_vmx_vars => VmxInv'
<1> SUFFICES ASSUME VmxInv, [VmxNext]_vmx_vars PROVE VmxInv'
  OBVIOUS
<1>1. CASE \E v \in Vcpu : vcpu_create(v) \/ vcpu_destroy(v) \/ vcpu_init_vmcs(v) \/ vcpu_run(v)
  BY <1>1, VcpuCreateStep, VcpuDestroyStep, VcpuInitVmcsStep, VcpuRunStep
<1>2. CASE vmx_init \/ vmx_enable_cpu \/ vmx_disable_cpu
  BY <1>2, VmxInitStep, VmxEnableStep, VmxDisableStep
<1>3. CASE TakePages \/ ReturnPages
  BY <1>3, PoolStep
<1>4. CASE InGuest \/ UNCHANGED vmx_vars
  BY <1>4, VmxStutter DEF InGuest
<1> QED
  BY <1>1, <1>2, <1>3, <1>4 DEF VmxNext

\* The invariant of VT-x and the vCPUs holds in every state, whatever the
\* firmware left and the processor can do.
THEOREM VmxInvariant == VmxSpec => []VmxInv
  BY VmxStart, VmxStep, PTL DEF VmxSpec

\* VMXON is executed as the processor demands, and every VMCS that was set up
\* passes the checks of its controls (vmx_init, setup_execution_controls).
THEOREM ProcessorAccepts == VmxSpec => []ControlsAccepted
<1>1. VmxInv => ControlsAccepted
  <2> SUFFICES ASSUME VmxInv PROVE ControlsAccepted
    OBVIOUS
  <2>1. cpu.vmxon => cpu.vmxe /\ msr.locked /\ msr.vmx
    BY DEF VmxInv, VmxTypeOK, VmxSound
  <2>2. \A v \in Vcpu : Exists(v) => vcpus[v].regions.vmcs \in Pages
    BY DEF VmxInv, VmxTypeOK, VcpuRecord
  <2> QED
    BY <2>1, <2>2 DEF ControlsAccepted, VmxInv, VmxSound
<1> QED
  BY <1>1, VmxInvariant, PTL

\* No page of a vCPU is owned twice, and none is lost but a second I/O bitmap
\* whose first was refused, wherever creations fail (vcpu_create, vcpu_destroy).
THEOREM PagesAreAccounted == VmxSpec => []VcpuPagesAccounted
<1>1. VmxInv => VcpuPagesAccounted
  BY DEF VmxInv
<1> QED
  BY <1>1, VmxInvariant, PTL

-----------------------------------------------------------------------------
(* Quotient and remainder. *)

LEMMA Division ==
  ASSUME NEW n \in Nat \ {0}, NEW x \in Nat
  PROVE  /\ x \div n \in Nat /\ x % n \in 0 .. n - 1
         /\ x = (x \div n) * n + (x % n)
OBVIOUS

\* Multiples of n are at least n apart.
LEMMA Product ==
  ASSUME NEW n \in Nat \ {0}, NEW a \in Int, NEW b \in Int, a < b
  PROVE  a * n + n <= b * n
<1>1. (b - a) * n >= n
  OBVIOUS
<1> QED
  BY <1>1

\* Quotient and remainder are the only ones.
LEMMA Quotient ==
  ASSUME NEW n \in Nat \ {0}, NEW q \in Nat, NEW r \in 0 .. n - 1
  PROVE  (q * n + r) \div n = q /\ (q * n + r) % n = r
<1> DEFINE x == q * n + r
<1>1. x \in Nat
  OBVIOUS
<1>2. PICK d \in Nat, m \in 0 .. n - 1 : d = x \div n /\ m = x % n /\ x = d * n + m
  <2> HIDE DEF x
  <2> QED
    BY <1>1, Division
<1>3. d = q
  <2>1. CASE d < q
    BY <1>2, <2>1, Product
  <2>2. CASE q < d
    BY <1>2, <2>2, Product
  <2> QED
    BY <2>1, <2>2
<1> QED
  BY <1>2, <1>3

-----------------------------------------------------------------------------
(* Pci: rounding down to the size of a BAR. *)

LEMMA AlignIs ==
  ASSUME NEW n \in Nat \ {0}, NEW x \in Nat
  PROVE  Align(x, n) = (x \div n) * n /\ Align(x, n) \in Nat /\ Align(x, n) % n = 0
<1>1. /\ x \div n \in Nat /\ x % n \in 0 .. n - 1
      /\ x = (x \div n) * n + (x % n)
  BY Division
<1>2. Align(x, n) = (x \div n) * n
  BY <1>1 DEF Align
<1>3. ((x \div n) * n + 0) % n = 0
  BY <1>1, Quotient
<1> QED
  BY <1>1, <1>2, <1>3

\* Below a multiple of n, and what is added to it, nothing is lost.
LEMMA AlignOfSum ==
  ASSUME NEW n \in Nat \ {0}, NEW q \in Nat, NEW r \in 0 .. n - 1
  PROVE  Align(q * n + r, n) = q * n
<1>1. (q * n + r) % n = r
  BY Quotient
<1> QED
  BY <1>1 DEF Align

\* The flags in a BAR's low bits, and the rounding to those bits, do not
\* change what the rounding to its size yields.
LEMMA AlignTwice ==
  ASSUME NEW u \in {4, 16}, NEW n \in Nat \ {0}, n % u = 0, NEW x \in Nat, NEW f \in 0 .. u - 1
  PROVE  Align(Align(x, u) + f, n) = Align(x, n)
<1> DEFINE q == x \div n
           r == x % n
<1>1. q \in Nat /\ r \in 0 .. n - 1 /\ x = q * n + r
  BY Division
<1>2. Align(x, n) = q * n
  BY AlignIs
<1>3. PICK k \in Nat : n = k * u
  <2>1. n \div u \in Nat /\ n = (n \div u) * u + (n % u)
    BY Division
  <2> QED
    BY <2>1
<1> HIDE DEF q, r
<1>4. PICK i \in Nat, j \in 0 .. u - 1 : r = i * u + j
  <2>1. r \div u \in Nat /\ r % u \in 0 .. u - 1 /\ r = (r \div u) * u + (r % u)
    BY <1>1, Division
  <2> QED
    BY <2>1
<1>5. x = (q * k + i) * u + j /\ q * k + i \in Nat
  BY <1>1, <1>3, <1>4
<1>6. Align(x, u) = (q * k + i) * u
  <2> DEFINE w == q * k + i
  <2>1. w \in Nat /\ x = w * u + j /\ u \in Nat \ {0}
    BY <1>5
  <2> HIDE DEF w
  <2>2. Align(w * u + j, u) = w * u
    BY <2>1, AlignOfSum
  <2> QED
    BY <2>1, <2>2 DEF w
<1>7. i < k
  BY <1>1, <1>3, <1>4
<1>8. i * u + f \in 0 .. n - 1
  BY <1>3, <1>7
<1>9. Align(x, u) + f = q * n + (i * u + f)
  BY <1>1, <1>3, <1>6
<1> QED
  BY <1>1, <1>2, <1>8, <1>9, AlignOfSum

-----------------------------------------------------------------------------
(* Pci: the inductive invariant. *)

ConfigSpace == [BarNumbers -> Int]
BarPlace == [home : Nat, low : 0 .. ALL, high : Nat, moved : BOOLEAN]

PciTypeOK ==
    /\ devices \in Seq(PciDevices)
    /\ bars \in [PciDevices -> [BarNumbers -> Bar]]
    /\ placed \in [PciDevices -> [BarNumbers -> BarPlace]]
    /\ config \in [PciDevices -> ConfigSpace]

\* A size is a multiple of the BAR's low bits (zero is one), divides 4G, and the
\* base is a multiple of it.
BarSound(bar) ==
    /\ bar \in Bar /\ bar.size % Unit(bar) = 0
    /\ bar.size # 0 => (ALL + 1) % bar.size = 0 /\ bar.base % bar.size = 0
Sized == \A dev \in PciDevices, b \in BarNumbers : BarSound(bars[dev][b])

PciInv == PciTypeOK /\ Sized /\ BarFollowsGuest

\* One BAR of BarFollowsGuest.
DecodedAt(dev, p, size) ==
    IF p.moved /\ dev \notin VirtioDevices THEN Align(Low32(Address(p)), size) ELSE p.home
BarOK(dev, b) ==
    bars[dev][b].size # 0 =>
        /\ bars[dev][b].base = DecodedAt(dev, placed[dev][b], bars[dev][b].size)
        /\ Contains(devices, dev) /\ dev \notin VirtioDevices => Readable(config[dev][b], bars[dev][b])

LEMMA BarByBar == BarFollowsGuest <=> \A dev \in PciDevices, b \in BarNumbers : BarOK(dev, b)
BY DEF BarFollowsGuest, BarOK, DecodedAt

LEMMA BarByBarNext ==
  ASSUME \A dev \in PciDevices, b \in BarNumbers : BarOK(dev, b)'
  PROVE  BarFollowsGuest'
BY DEF BarFollowsGuest, BarOK, DecodedAt

\* The upper half does not count.
LEMMA LowHalf ==
  ASSUME NEW p \in BarPlace
  PROVE  Low32(Address(p)) = p.low
<1>1. p.high \in Nat /\ p.low \in 0 .. (ALL + 1) - 1 /\ ALL + 1 \in Nat \ {0}
  BY PciConstants DEF BarPlace
<1> QED
  BY <1>1, Quotient DEF Low32, Address

LEMMA LowIs ==
  ASSUME NEW x \in 0 .. ALL
  PROVE  Low32(x) = x
<1>1. ALL + 1 \in Nat \ {0} /\ 0 \in Nat /\ x \in 0 .. (ALL + 1) - 1
  BY PciConstants
<1>2. (0 * (ALL + 1) + x) % (ALL + 1) = x
  BY <1>1, Quotient
<1>3. 0 * (ALL + 1) + x = x
  BY <1>1
<1> QED
  BY <1>2, <1>3 DEF Low32

LEMMA PlacedIsPlace ==
  ASSUME NEW base \in Nat
  PROVE  PlacedAt(base) \in BarPlace /\ PlacedAt(base).home = base /\ PlacedAt(base).moved = FALSE
<1>1. ALL + 1 \in Nat \ {0}
  BY PciConstants
<1>2. base \div (ALL + 1) \in Nat /\ base % (ALL + 1) \in 0 .. (ALL + 1) - 1
  BY <1>1, Division
<1>3. Low32(base) \in 0 .. ALL /\ High32(base) \in Nat
  BY <1>2, PciConstants DEF Low32, High32
<1> QED
  BY <1>3 DEF PlacedAt, BarPlace

LEMMA BarKept ==
  ASSUME NEW dev \in PciDevices, NEW b \in BarNumbers, BarOK(dev, b),
         placed[dev][b] \in BarPlace, placed'[dev][b] \in BarPlace,
         bars'[dev][b] = bars[dev][b],
         \/ bars[dev][b].size = 0
         \/ /\ placed'[dev][b].home = placed[dev][b].home
            /\ placed'[dev][b].low = placed[dev][b].low
            /\ placed'[dev][b].moved = placed[dev][b].moved,
         Contains(devices, dev)' => Contains(devices, dev) /\ config'[dev][b] = config[dev][b]
  PROVE  BarOK(dev, b)'
<1>1. CASE bars[dev][b].size = 0
  BY <1>1 DEF BarOK
<1>2. CASE bars[dev][b].size # 0
  <2>1. Low32(Address(placed'[dev][b])) = Low32(Address(placed[dev][b]))
    BY <1>2, LowHalf
  <2>2. DecodedAt(dev, placed'[dev][b], bars[dev][b].size) = DecodedAt(dev, placed[dev][b], bars[dev][b].size)
    BY <1>2, <2>1 DEF DecodedAt
  <2>3. bars'[dev][b].base = DecodedAt(dev, placed'[dev][b], bars'[dev][b].size)
    BY <1>2, <2>2 DEF BarOK
  <2>4. Contains(devices, dev)' /\ dev \notin VirtioDevices => Readable(config'[dev][b], bars'[dev][b])
    BY <1>2 DEF BarOK
  <2> QED
    BY <2>3, <2>4 DEF BarOK, DecodedAt, Readable, Align, size_mask, Low32, Address
<1> QED
  BY <1>1, <1>2

LEMMA FlagsFit ==
  ASSUME NEW bar \in Bar
  PROVE  Flags(bar) \in 0 .. Unit(bar) - 1 /\ Unit(bar) \in {4, 16}
BY DEF Flags, Unit, Bar

LEMMA FlagsBelowSize ==
  ASSUME NEW bar, BarSound(bar), bar.size # 0
  PROVE  bar.size \in Nat \ {0} /\ Flags(bar) \in 0 .. bar.size - 1
<1>1. Flags(bar) \in 0 .. Unit(bar) - 1 /\ Unit(bar) \in {4, 16} /\ bar.size \in Nat \ {0}
  BY FlagsFit DEF Bar, BarSound
<1>2. bar.size = (bar.size \div Unit(bar)) * Unit(bar) + (bar.size % Unit(bar)) /\ bar.size \div Unit(bar) \in Nat
  <2>1. Unit(bar) \in Nat \ {0}
    BY <1>1
  <2> QED
    BY <1>1, <2>1, Division
<1>3. bar.size % Unit(bar) = 0
  BY DEF BarSound
<1> DEFINE n == bar.size
           u == Unit(bar)
           k == n \div u
           f == Flags(bar)
<1>4. n \in Nat \ {0} /\ u \in {4, 16} /\ f \in 0 .. u - 1 /\ k \in Nat /\ n = k * u
  BY <1>1, <1>2, <1>3
<1> HIDE DEF n, u, k, f
<1>5. f \in 0 .. n - 1
  <2>1. CASE u = 4
    BY <1>4, <2>1
  <2>2. CASE u = 16
    BY <1>4, <2>2
  <2> QED
    BY <1>4, <2>1, <2>2
<1> QED
  BY <1>4, <1>5 DEF n, f

\* The low half of an aligned base is aligned: the size divides 4G.
LEMMA LowAligned ==
  ASSUME NEW bar, BarSound(bar), bar.size # 0
  PROVE  \E j \in Nat : Low32(bar.base) = j * bar.size
<1> DEFINE n == bar.size
           x == bar.base
           m == ALL + 1
<1>1. n \in Nat \ {0} /\ x \in Nat /\ m \in Nat \ {0} /\ m % n = 0 /\ x % n = 0
  BY PciConstants DEF BarSound, Bar
<1> HIDE DEF n, x, m
<1>2. /\ x \div m \in Nat /\ x % m \in 0 .. m - 1 /\ x = (x \div m) * m + (x % m)
      /\ x \div n \in Nat /\ x = (x \div n) * n + (x % n)
      /\ m \div n \in Nat /\ m = (m \div n) * n + (m % n)
  BY <1>1, Division
<1> DEFINE q == x \div m
           k == x \div n
           c == m \div n
           r == x % m
<1>3. q \in Nat /\ k \in Nat /\ c \in Nat /\ r \in Nat /\ x = k * n /\ m = c * n /\ x = q * m + r
  BY <1>1, <1>2
<1>4. Low32(bar.base) = r
  BY DEF Low32, x, m
<1> HIDE DEF q, k, c, r
<1>5. r = (k - q * c) * n
  BY <1>1, <1>3
<1>6. k - q * c \in Nat
  BY <1>1, <1>3, <1>5
<1> QED
  BY <1>4, <1>5, <1>6 DEF n

\* A base on its boundary, with the flags, reads as the base.
LEMMA RegisteredReads ==
  ASSUME NEW bar, BarSound(bar), bar.size # 0
  PROVE  Readable(Low32(bar.base) + Flags(bar), bar) /\ Low32(bar.base) + Flags(bar) \in Int
<1>1. bar.size \in Nat \ {0} /\ Flags(bar) \in 0 .. bar.size - 1
  BY FlagsBelowSize
<1>2. PICK j \in Nat : Low32(bar.base) = j * bar.size
  BY LowAligned
<1>3. Align(j * bar.size + Flags(bar), bar.size) = j * bar.size
  BY <1>1, AlignOfSum
<1> QED
  BY <1>1, <1>2, <1>3 DEF Readable

\* What is stored of a BAR is at its place and reads as its place.
LEMMA StoredReads ==
  ASSUME NEW bar, BarSound(bar), bar.size # 0, NEW value \in 0 .. ALL,
         NEW moved, moved = [bar EXCEPT !.base = Align(bar_value(bar, value), bar.size)]
  PROVE  /\ bar_value(bar, value) \in Int
         /\ BarSound(moved) /\ moved.size = bar.size
         /\ moved.base = Align(value, bar.size)
         /\ Readable(bar_value(bar, value), moved)
<1>1. /\ Flags(bar) \in 0 .. Unit(bar) - 1 /\ Unit(bar) \in {4, 16} /\ bar.size \in Nat \ {0}
      /\ bar.size % Unit(bar) = 0 /\ value \in Nat /\ bar \in Bar
  BY FlagsFit, PciConstants DEF BarSound, Bar
<1>2. Align(value, Unit(bar)) \in Nat
  <2>1. Unit(bar) \in Nat \ {0}
    BY <1>1
  <2> QED
    BY <1>1, <2>1, AlignIs
<1>3. Align(value, bar.size) \in Nat /\ Align(value, bar.size) % bar.size = 0
  BY <1>1, AlignIs
<1>4. Align(Align(value, Unit(bar)) + Flags(bar), bar.size) = Align(value, bar.size)
  BY <1>1, AlignTwice
<1> DEFINE base == Align(value, bar.size)
<1>5. bar_value(bar, value) \in Int /\ Align(bar_value(bar, value), bar.size) = base
  BY <1>1, <1>2, <1>4 DEF bar_value
<1>6. base \in 0 .. ALL
  <2>1. value % bar.size \in 0 .. bar.size - 1
    BY <1>1, Division
  <2> QED
    BY <1>1, <1>3, <2>1, PciConstants DEF Align
<1>7. Low32(base) = base
  BY <1>6, LowIs
<1>8. base \in Nat /\ base % bar.size = 0
  BY <1>3
<1> HIDE DEF base
<1>9. /\ moved \in Bar /\ moved.size = bar.size /\ moved.base = base /\ moved.is_io = bar.is_io
  BY <1>1, <1>5, <1>8 DEF Bar
<1>10. BarSound(moved)
  BY <1>1, <1>8, <1>9 DEF BarSound, Unit
<1>11. Readable(bar_value(bar, value), moved)
  BY <1>5, <1>7, <1>9 DEF Readable
<1> QED
  BY <1>5, <1>9, <1>10, <1>11 DEF base

LEMMA PciStart == pci_init => PciInv
<1> SUFFICES ASSUME pci_init PROVE PciInv
  OBVIOUS
<1>1. PlacedAt(0) \in BarPlace
  BY PlacedIsPlace
<1>2. PciTypeOK
  BY <1>1 DEF pci_init, PciTypeOK, Bar, NoBar, BlankConfig, ConfigSpace
<1>3. Sized
  BY DEF pci_init, Sized, BarSound, Bar, NoBar, Unit
<1>4. BarFollowsGuest
  BY DEF pci_init, BarFollowsGuest, NoBar
<1> QED
  BY <1>2, <1>3, <1>4 DEF PciInv

\* The list of devices: who is on it after an unlinking, and after a linking.
LEMMA Unlinked ==
  ASSUME NEW S, NEW l \in Seq(S), NEW e
  PROVE  /\ RemoveFirst(l, e) \in Seq(S)
         /\ \A x : Contains(RemoveFirst(l, e), x) => Contains(l, x)
<1>1. CASE ~ \E i \in 1 .. Len(l) : l[i] = e
  BY <1>1 DEF RemoveFirst
<1>2. CASE \E i \in 1 .. Len(l) : l[i] = e
  <2> DEFINE J == {i \in 1 .. Len(l) : l[i] = e}
  <2>1. J \in SUBSET (Nat \ {0}) /\ J # {}
    BY <1>2
  <2>2. Min(J) \in 1 .. Len(l)
    BY <2>1, Lowest
  <2>3. RemoveFirst(l, e) = RemoveAt(l, Min(J))
    BY <1>2 DEF RemoveFirst, SelectInSeq
  <2> DEFINE k == Min(J)
             t == SubSeq(l, 1, k - 1) \o SubSeq(l, k + 1, Len(l))
  <2>4. RemoveFirst(l, e) = t
    BY <2>3 DEF RemoveAt
  <2> HIDE DEF J, k
  <2>5. k \in 1 .. Len(l)
    BY <2>2 DEF k
  <2>6. t \in Seq(S) /\ \A i \in 1 .. Len(t) : \E j \in 1 .. Len(l) : t[i] = l[j]
    <3> DEFINE a == SubSeq(l, 1, k - 1)
               b == SubSeq(l, k + 1, Len(l))
    <3>1. a \in Seq(S) /\ Len(a) = k - 1 /\ \A i \in 1 .. k - 1 : a[i] = l[i]
      BY <2>5, SubSeqProperties
    <3>2. b \in Seq(S) /\ Len(b) = Len(l) - k /\ \A i \in 1 .. Len(l) - k : b[i] = l[k + i]
      BY <2>5, SubSeqProperties
    <3> HIDE DEF a, b
    <3>3. t = a \o b
      BY DEF a, b
    <3> HIDE DEF t
    <3>4. /\ t \in Seq(S) /\ Len(t) = Len(a) + Len(b)
          /\ \A i \in 1 .. Len(a) + Len(b) : t[i] = IF i <= Len(a) THEN a[i] ELSE b[i - Len(a)]
      BY <3>1, <3>2, <3>3, ConcatProperties
    <3>5. ASSUME NEW i \in 1 .. Len(t) PROVE \E j \in 1 .. Len(l) : t[i] = l[j]
      <4>1. Len(l) \in Nat /\ Len(a) \in Nat /\ Len(b) \in Nat
        BY <3>1, <3>2
      <4>2. CASE i <= Len(a)
        <5>1. i \in 1 .. k - 1 /\ t[i] = a[i] /\ i \in 1 .. Len(l)
          BY <2>5, <3>1, <3>4, <4>1, <4>2
        <5> QED
          BY <3>1, <5>1
      <4>3. CASE i > Len(a)
        <5>1. i - Len(a) \in 1 .. Len(l) - k /\ t[i] = b[i - Len(a)]
          BY <2>5, <3>1, <3>2, <3>4, <4>1, <4>3
        <5>2. k + (i - Len(a)) \in 1 .. Len(l)
          BY <2>5, <4>1, <5>1
        <5> QED
          BY <3>2, <5>1, <5>2
      <4> QED
        BY <4>1, <4>2, <4>3
    <3> QED
      BY <3>4, <3>5
  <2> QED
    BY <2>4, <2>6 DEF Contains
<1> QED
  BY <1>1, <1>2

LEMMA LinkedIn ==
  ASSUME NEW S, NEW l \in Seq(S), NEW e \in S
  PROVE  /\ <<e>> \o l \in Seq(S)
         /\ \A x : Contains(<<e>> \o l, x) => x = e \/ Contains(l, x)
<1> DEFINE t == <<e>> \o l
<1>1. t \in Seq(S) /\ Len(t) = Len(l) + 1 /\ \A i \in 1 .. Len(t) : t[i] = IF i = 1 THEN e ELSE l[i - 1]
  OBVIOUS
<1> HIDE DEF t
<1>2. \A x : Contains(t, x) => x = e \/ Contains(l, x)
  BY <1>1 DEF Contains
<1> QED
  BY <1>1, <1>2 DEF t

LEMMA SetupBarStep ==
  ASSUME PciInv, NEW dev \in PciDevices, NEW b \in BarNumbers, NEW kind \in BarKinds[dev][b],
         pci_setup_bar(dev, b, kind)
  PROVE  PciInv'
<1>1. /\ kind \in Bar /\ kind.size # 0
      /\ kind.size % Unit(kind) = 0 /\ (ALL + 1) % kind.size = 0 /\ kind.base % kind.size = 0
  BY PciConstants
<1>2. /\ ~Contains(devices, dev)
      /\ placed' = [placed EXCEPT ![dev][b] = PlacedAt(kind.base)]
      /\ UNCHANGED <<devices, config_address, config>>
  BY DEF pci_setup_bar
<1>3. \A d \in PciDevices \ {dev} : bars'[d] = bars[d] /\ placed'[d] = placed[d]
  BY <1>2 DEF pci_setup_bar, PciInv, PciTypeOK
<1>4. /\ bars'[dev] = [i \in BarNumbers |->
                         CASE i = b -> kind
                           [] i = b + 1 /\ kind.is_64bit -> [bars[dev][i] EXCEPT !.size = 0]
                           [] OTHER -> bars[dev][i]]
      /\ DOMAIN bars' = PciDevices /\ bars' = [d \in PciDevices |-> bars'[d]]
  BY DEF pci_setup_bar, PciInv, PciTypeOK
<1>5. bars'[dev][b] = kind
  <2>1. b # b + 1
    BY PciConstants
  <2> QED
    BY <1>4, <2>1
<1>6. \A i \in BarNumbers \ {b} : \/ bars'[dev][i] = bars[dev][i]
                                  \/ bars'[dev][i] = [bars[dev][i] EXCEPT !.size = 0]
  <2> SUFFICES ASSUME NEW i \in BarNumbers \ {b}
               PROVE  \/ bars'[dev][i] = bars[dev][i]
                      \/ bars'[dev][i] = [bars[dev][i] EXCEPT !.size = 0]
    OBVIOUS
  <2> DEFINE cleared == [bars[dev][i] EXCEPT !.size = 0]
  <2>1. bars'[dev][i] = CASE i = b -> kind
                          [] i = b + 1 /\ kind.is_64bit -> cleared
                          [] OTHER -> bars[dev][i]
    BY <1>4
  <2> HIDE DEF cleared
  <2>2. CASE i = b + 1 /\ kind.is_64bit
    BY <2>1, <2>2 DEF cleared
  <2>3. CASE ~ (i = b + 1 /\ kind.is_64bit)
    BY <2>1, <2>3
  <2> QED
    BY <2>2, <2>3
<1>7. \A i \in BarNumbers : bars[dev][i] \in Bar
  BY DEF PciInv, PciTypeOK
<1>8. \A i \in BarNumbers \ {b} : /\ bars'[dev][i] \in Bar
                                  /\ bars'[dev][i] = bars[dev][i] \/ bars'[dev][i].size = 0
  <2> SUFFICES ASSUME NEW i \in BarNumbers \ {b}
               PROVE  /\ bars'[dev][i] \in Bar
                      /\ bars'[dev][i] = bars[dev][i] \/ bars'[dev][i].size = 0
    OBVIOUS
  <2>1. bars[dev][i] \in Bar
    BY <1>7
  <2>2. [bars[dev][i] EXCEPT !.size = 0] \in Bar /\ [bars[dev][i] EXCEPT !.size = 0].size = 0
    BY <2>1 DEF Bar
  <2>3. CASE bars'[dev][i] = bars[dev][i]
    BY <2>1, <2>3
  <2>4. CASE bars'[dev][i] = [bars[dev][i] EXCEPT !.size = 0]
    BY <2>2, <2>4
  <2> QED
    BY <1>6, <2>3, <2>4
<1>9. bars'[dev] \in [BarNumbers -> Bar]
  BY <1>1, <1>4, <1>5, <1>8
<1>a. PlacedAt(kind.base) \in BarPlace /\ PlacedAt(kind.base).home = kind.base /\ PlacedAt(kind.base).moved = FALSE
  BY <1>1, PlacedIsPlace DEF Bar
<1>b. /\ placed' \in [PciDevices -> [BarNumbers -> BarPlace]]
      /\ placed'[dev][b] = PlacedAt(kind.base)
      /\ \A i \in BarNumbers \ {b} : placed'[dev][i] = placed[dev][i]
  BY <1>2, <1>a DEF PciInv, PciTypeOK
<1>10. PciTypeOK'
  <2>1. \A d \in PciDevices : bars'[d] \in [BarNumbers -> Bar]
    BY <1>3, <1>9 DEF PciInv, PciTypeOK
  <2>2. bars' \in [PciDevices -> [BarNumbers -> Bar]]
    BY <1>4, <2>1
  <2> QED
    BY <1>2, <1>b, <2>2 DEF PciInv, PciTypeOK
<1>11. ASSUME NEW d \in PciDevices, NEW i \in BarNumbers PROVE BarSound(bars'[d][i])
  <2>1. CASE d = dev /\ i = b
    BY <1>1, <1>5, <2>1 DEF BarSound
  <2>2. CASE d # dev \/ bars'[d][i] = bars[d][i]
    BY <1>3, <2>2 DEF PciInv, Sized
  <2>3. CASE d = dev /\ i # b /\ bars'[d][i].size = 0
    BY <1>8, <2>3 DEF BarSound, Unit
  <2> QED
    BY <1>8, <2>1, <2>2, <2>3
<1>12. Sized'
  BY <1>11 DEF Sized, BarSound, Unit
<1>13. ASSUME NEW d \in PciDevices, NEW i \in BarNumbers PROVE BarOK(d, i)'
  <2>1. BarOK(d, i) /\ placed[d][i] \in BarPlace /\ placed'[d][i] \in BarPlace
    BY <1>b, BarByBar DEF PciInv, PciTypeOK
  <2>2. CASE d # dev
    BY <1>2, <1>3, <2>1, <2>2, BarKept
  <2>3. CASE d = dev /\ i = b
    <3>1. bars'[d][i].base = DecodedAt(d, placed'[d][i], bars'[d][i].size)
      BY <1>5, <1>a, <1>b, <2>3 DEF DecodedAt
    <3>2. ~Contains(devices, d)'
      BY <1>2, <2>3 DEF Contains
    <3> QED
      BY <3>1, <3>2 DEF BarOK, DecodedAt, Align, Low32, Address
  <2>4. CASE d = dev /\ i # b /\ bars'[d][i] = bars[d][i]
    BY <1>2, <1>b, <2>1, <2>4, BarKept
  <2>5. CASE d = dev /\ i # b /\ bars'[d][i].size = 0
    BY <2>5 DEF BarOK
  <2> QED
    BY <1>8, <2>2, <2>3, <2>4, <2>5
<1>14. BarFollowsGuest'
  BY <1>13, BarByBarNext
<1> QED
  BY <1>10, <1>12, <1>14 DEF PciInv

LEMMA RegisterStep ==
  ASSUME PciInv, NEW dev \in PciDevices, pci_register_device(dev)
  PROVE  PciInv'
<1>1. /\ config' = [config EXCEPT ![dev] = RegisteredConfig(dev)]
      /\ devices' = <<dev>> \o devices
      /\ UNCHANGED <<config_address, bars, placed>>
  BY DEF pci_register_device
<1>2. /\ devices' \in Seq(PciDevices)
      /\ \A x : Contains(devices', x) => x = dev \/ Contains(devices, x)
  BY <1>1, LinkedIn DEF PciInv, PciTypeOK
<1>3. \A b \in BarNumbers : BarSound(bars[dev][b]) /\ bars[dev][b].size \in Nat
  BY DEF PciInv, Sized, BarSound, Bar
<1>4. RegisteredConfig(dev) \in ConfigSpace
  <2>1. ASSUME NEW b \in BarNumbers
        PROVE  (IF bars[dev][b].size > 0 THEN Low32(bars[dev][b].base) + Flags(bars[dev][b]) ELSE 0) \in Int
    <3>1. bars[dev][b].size > 0 => Low32(bars[dev][b].base) + Flags(bars[dev][b]) \in Int
      BY <1>3, RegisteredReads
    <3> QED
      BY <3>1
  <2> QED
    BY <2>1 DEF RegisteredConfig, ConfigSpace
<1>5. PciTypeOK'
  BY <1>1, <1>2, <1>4 DEF PciInv, PciTypeOK
<1>6. Sized'
  BY <1>1 DEF PciInv, Sized, BarSound, Unit
<1>7. ASSUME NEW d \in PciDevices, NEW i \in BarNumbers PROVE BarOK(d, i)'
  <2>1. BarOK(d, i) /\ placed[d][i] \in BarPlace
    BY BarByBar DEF PciInv, PciTypeOK
  <2>2. CASE d # dev
    <3>1. config'[d] = config[d]
      BY <1>1, <2>2 DEF PciInv, PciTypeOK
    <3>2. Contains(devices, d)' => Contains(devices, d)
      BY <1>2, <2>2
    <3> QED
      BY <1>1, <2>1, <3>1, <3>2, BarKept
  <2>3. CASE d = dev /\ bars[d][i].size # 0
    <3>1. config'[dev][i] = Low32(bars[dev][i].base) + Flags(bars[dev][i])
      <4>1. config'[dev] = RegisteredConfig(dev) /\ bars[dev][i].size > 0
        BY <1>1, <1>3, <2>3 DEF PciInv, PciTypeOK
      <4> QED
        BY <4>1 DEF RegisteredConfig
    <3>2. Readable(config'[dev][i], bars[dev][i])
      BY <1>3, <2>3, <3>1, RegisteredReads
    <3> QED
      BY <1>1, <2>1, <2>3, <3>2 DEF BarOK, DecodedAt, Readable, Align, size_mask, Low32, Address
  <2>4. CASE bars[d][i].size = 0
    BY <1>1, <2>4 DEF BarOK
  <2> QED
    BY <2>2, <2>3, <2>4
<1>8. BarFollowsGuest'
  BY <1>7, BarByBarNext
<1> QED
  BY <1>5, <1>6, <1>8 DEF PciInv

\* A step that leaves every BAR and lists no more devices than before.
LEMMA BarsKept ==
  ASSUME PciInv, UNCHANGED <<bars, config, placed>>,
         devices' \in Seq(PciDevices), \A x : Contains(devices', x) => Contains(devices, x)
  PROVE  PciInv'
<1>1. PciTypeOK' /\ Sized'
  BY DEF PciInv, PciTypeOK, Sized, BarSound, Unit
<1>2. ASSUME NEW d \in PciDevices, NEW i \in BarNumbers PROVE BarOK(d, i)'
  <2>1. BarOK(d, i) /\ placed[d][i] \in BarPlace
    BY BarByBar DEF PciInv, PciTypeOK
  <2>2. Contains(devices, d)' => Contains(devices, d)
    OBVIOUS
  <2> QED
    BY <2>1, <2>2, BarKept
<1>3. BarFollowsGuest'
  BY <1>2, BarByBarNext
<1> QED
  BY <1>1, <1>3 DEF PciInv

LEMMA UnregisterStep ==
  ASSUME PciInv, NEW dev \in PciDevices, pci_unregister_device(dev)
  PROVE  PciInv'
<1>1. devices' = RemoveFirst(devices, dev) /\ UNCHANGED <<config_address, bars, config, placed>>
  BY DEF pci_unregister_device
<1>2. devices' \in Seq(PciDevices) /\ \A x : Contains(devices', x) => Contains(devices, x)
  BY <1>1, Unlinked DEF PciInv, PciTypeOK
<1> QED
  BY <1>1, <1>2, BarsKept DEF PciInv, PciTypeOK

\* What the guest's write of one register leaves of the others: their bases and
\* values, and their places but for an upper half.
SamePlace(p, q) == p.low = q.low /\ p.moved = q.moved
PlacesMoved(dev, b, value, after) ==
    /\ after \in [PciDevices -> [BarNumbers -> BarPlace]]
    /\ \A d \in PciDevices \ {dev} : after[d] = placed[d]
    /\ \A i \in BarNumbers :
          /\ after[dev][i].home = placed[dev][i].home
          /\ i # b \/ value = ALL => SamePlace(after[dev][i], placed[dev][i])
          /\ i = b /\ value # ALL => after[dev][i].low = value /\ after[dev][i].moved = TRUE

LEMMA PlacedStep ==
  ASSUME PciInv, NEW dev \in PciDevices, NEW b \in BarNumbers, NEW value \in Values,
         placed' = [placed EXCEPT ![dev] = PlacedByGuest(dev, b, value)]
  PROVE  PlacesMoved(dev, b, value, placed')
<1>1. placed \in [PciDevices -> [BarNumbers -> BarPlace]] /\ value \in 0 .. ALL /\ value \in Nat
  BY PciConstants DEF PciInv, PciTypeOK
<1> DEFINE N(i) == CASE value # ALL /\ i = b -> [placed[dev][i] EXCEPT !.low = value, !.moved = TRUE]
                     [] value # ALL /\ b = i + 1 /\ UpperHalf(dev, b) -> [placed[dev][i] EXCEPT !.high = value]
                     [] OTHER -> placed[dev][i]
<1>2. ASSUME NEW i \in BarNumbers
      PROVE  /\ N(i) \in BarPlace
             /\ N(i).home = placed[dev][i].home
             /\ i # b \/ value = ALL => SamePlace(N(i), placed[dev][i])
             /\ i = b /\ value # ALL => N(i).low = value /\ N(i).moved = TRUE
  <2> DEFINE p == placed[dev][i]
             l == [p EXCEPT !.low = value, !.moved = TRUE]
             h == [p EXCEPT !.high = value]
  <2>1. p \in BarPlace
    BY <1>1
  <2> HIDE DEF p
  <2>2. l \in BarPlace /\ l.home = p.home /\ l.low = value /\ l.moved = TRUE
    BY <1>1, <2>1 DEF BarPlace
  <2>3. h \in BarPlace /\ h.home = p.home /\ h.low = p.low /\ h.moved = p.moved
    BY <1>1, <2>1 DEF BarPlace
  <2> HIDE DEF l, h
  <2>4. i # i + 1
    BY PciConstants
  <2>5. N(i) = CASE value # ALL /\ i = b -> l
                 [] value # ALL /\ b = i + 1 /\ UpperHalf(dev, b) -> h
                 [] OTHER -> p
    BY DEF l, h, p
  <2> HIDE DEF N
  <2>6. CASE value # ALL /\ i = b
    <3>1. N(i) = l
      BY <2>4, <2>5, <2>6
    <3> QED
      BY <2>2, <2>6, <3>1 DEF p
  <2>7. CASE value # ALL /\ i # b /\ b = i + 1 /\ UpperHalf(dev, b)
    <3>1. N(i) = h
      BY <2>5, <2>7
    <3> QED
      BY <2>3, <2>7, <3>1 DEF p, SamePlace
  <2>8. CASE ~ (value # ALL /\ i = b) /\ ~ (value # ALL /\ b = i + 1 /\ UpperHalf(dev, b))
    <3>1. N(i) = p
      BY <2>5, <2>8
    <3> QED
      BY <2>1, <2>8, <3>1 DEF p, SamePlace
  <2> QED
    BY <2>6, <2>7, <2>8
<1>3. PlacedByGuest(dev, b, value) = [i \in BarNumbers |-> N(i)]
  BY DEF PlacedByGuest
<1> HIDE DEF N
<1>4. PlacedByGuest(dev, b, value) \in [BarNumbers -> BarPlace]
  BY <1>2, <1>3
<1>5. placed'[dev] = [i \in BarNumbers |-> N(i)]
  BY <1>1, <1>3
<1>6. placed' \in [PciDevices -> [BarNumbers -> BarPlace]] /\ \A d \in PciDevices \ {dev} : placed'[d] = placed[d]
  BY <1>1, <1>4
<1> QED
  BY <1>2, <1>5, <1>6 DEF PlacesMoved

\* One BAR is written: the others are as before.
LEMMA OneBarWritten ==
  ASSUME PciInv, UNCHANGED devices, NEW dev \in PciDevices, NEW b \in BarNumbers, NEW value \in Values,
         placed' = [placed EXCEPT ![dev] = PlacedByGuest(dev, b, value)],
         NEW bar, BarSound(bar), bars' = [bars EXCEPT ![dev][b] = bar],
         NEW w \in Int, config' = [config EXCEPT ![dev][b] = w],
         BarOK(dev, b)'
  PROVE  PciInv'
<1>1. /\ config' \in [PciDevices -> ConfigSpace]
      /\ \A d \in PciDevices, i \in BarNumbers : d # dev \/ i # b => config'[d][i] = config[d][i]
  BY DEF PciInv, PciTypeOK, ConfigSpace
<1>2. /\ bars' \in [PciDevices -> [BarNumbers -> Bar]] /\ bars'[dev][b] = bar
      /\ \A d \in PciDevices, i \in BarNumbers : d # dev \/ i # b => bars'[d][i] = bars[d][i]
  BY DEF PciInv, PciTypeOK, BarSound
<1>3. /\ placed' \in [PciDevices -> [BarNumbers -> BarPlace]]
      /\ \A d \in PciDevices, i \in BarNumbers : d # dev \/ i # b =>
            placed'[d][i].home = placed[d][i].home /\ SamePlace(placed'[d][i], placed[d][i])
  <2>1. /\ placed' \in [PciDevices -> [BarNumbers -> BarPlace]]
        /\ \A d \in PciDevices \ {dev} : placed'[d] = placed[d]
        /\ \A i \in BarNumbers : /\ placed'[dev][i].home = placed[dev][i].home
                                 /\ i # b => SamePlace(placed'[dev][i], placed[dev][i])
    <3>1. PlacesMoved(dev, b, value, placed')
      BY PlacedStep, Zenon
    <3> QED
      BY <3>1 DEF PlacesMoved
  <2>2. ASSUME NEW d \in PciDevices, NEW i \in BarNumbers, d # dev
        PROVE  placed'[d][i].home = placed[d][i].home /\ SamePlace(placed'[d][i], placed[d][i])
    BY <2>1, <2>2 DEF SamePlace
  <2> QED
    BY <2>1, <2>2
<1>4. PciTypeOK'
  BY <1>1, <1>2, <1>3 DEF PciInv, PciTypeOK
<1>5. \A d \in PciDevices, i \in BarNumbers : BarSound(bars'[d][i])
  BY <1>2 DEF PciInv, Sized
<1>6. Sized'
  BY <1>5 DEF Sized, BarSound, Unit
<1>7. ASSUME NEW d \in PciDevices, NEW i \in BarNumbers PROVE BarOK(d, i)'
  <2>1. BarOK(d, i) /\ placed[d][i] \in BarPlace /\ placed'[d][i] \in BarPlace
    BY <1>3, BarByBar DEF PciInv, PciTypeOK
  <2>2. CASE d # dev \/ i # b
    <3>1. Contains(devices, d)' => Contains(devices, d)
      OBVIOUS
    <3> QED
      BY <1>1, <1>2, <1>3, <2>1, <2>2, <3>1, BarKept DEF SamePlace
  <2> QED
    BY <2>2
<1>8. BarFollowsGuest'
  BY <1>7, BarByBarNext
<1> QED
  BY <1>4, <1>6, <1>8 DEF PciInv

\* Nothing but the place changes, for a BAR that is none or a device that does
\* not look.
LEMMA OnlyPlaced ==
  ASSUME PciInv, UNCHANGED <<devices, bars>>, NEW dev \in PciDevices, NEW b \in BarNumbers, NEW value \in Values,
         placed' = [placed EXCEPT ![dev] = PlacedByGuest(dev, b, value)],
         NEW w \in Int, config' = [config EXCEPT ![dev][b] = w],
         BarOK(dev, b)'
  PROVE  PciInv'
<1>1. BarSound(bars[dev][b]) /\ bars \in [PciDevices -> [BarNumbers -> Bar]]
  BY DEF PciInv, PciTypeOK, Sized
<1>2. bars' = [bars EXCEPT ![dev][b] = bars[dev][b]]
  BY <1>1
<1> DEFINE bar == bars[dev][b]
<1>3. BarSound(bar) /\ bars' = [bars EXCEPT ![dev][b] = bar]
  BY <1>1, <1>2
<1> HIDE DEF bar
<1> QED
  BY <1>3, OneBarWritten

\* The bus's own handler: the device decodes the BAR where the guest put it, or
\* answers the size.
LEMMA WriteBarStep ==
  ASSUME PciInv, UNCHANGED devices, NEW dev \in PciDevices, NEW b \in BarNumbers,
         NEW value \in Values, WriteBar(dev, b, value), dev \notin VirtioDevices,
         placed' = [placed EXCEPT ![dev] = PlacedByGuest(dev, b, value)]
  PROVE  PciInv'
<1> DEFINE bar == bars[dev][b]
           old == config[dev][b]
<1>1. /\ BarSound(bar) /\ value \in 0 .. ALL /\ old \in Int
      /\ bars \in [PciDevices -> [BarNumbers -> Bar]]
      /\ config \in [PciDevices -> ConfigSpace]
  BY PciConstants DEF PciInv, PciTypeOK, Sized, ConfigSpace
<1>2. /\ BarOK(dev, b) /\ placed[dev][b] \in BarPlace /\ placed'[dev][b] \in BarPlace
      /\ placed'[dev][b].home = placed[dev][b].home
      /\ value = ALL => SamePlace(placed'[dev][b], placed[dev][b])
      /\ value # ALL => placed'[dev][b].low = value /\ placed'[dev][b].moved = TRUE
  <2>1. BarOK(dev, b) /\ placed[dev][b] \in BarPlace
    BY BarByBar DEF PciInv, PciTypeOK
  <2>2. /\ placed' \in [PciDevices -> [BarNumbers -> BarPlace]]
        /\ placed'[dev][b].home = placed[dev][b].home
        /\ value = ALL => SamePlace(placed'[dev][b], placed[dev][b])
        /\ value # ALL => placed'[dev][b].low = value /\ placed'[dev][b].moved = TRUE
    <3>1. PlacesMoved(dev, b, value, placed')
      BY PlacedStep, Zenon
    <3> QED
      BY <3>1 DEF PlacesMoved
  <2> QED
    BY <2>1, <2>2
<1>3. CASE bar.size = 0
  <2>1. UNCHANGED <<config, bars>>
    BY <1>3 DEF WriteBar
  <2>2. config' = [config EXCEPT ![dev][b] = old]
    BY <1>1, <2>1 DEF ConfigSpace
  <2>3. BarOK(dev, b)'
    BY <1>3, <2>1 DEF BarOK
  <2> HIDE DEF old
  <2> QED
    BY <1>1, <2>1, <2>2, <2>3, OnlyPlaced
<1>4. CASE bar.size # 0 /\ value = ALL
  <2> DEFINE w == size_mask(bar)
  <2>1. config' = [config EXCEPT ![dev][b] = w] /\ UNCHANGED bars
    BY <1>4 DEF WriteBar
  <2>2. w \in Int
    BY <1>1, PciConstants DEF size_mask, BarSound, Bar
  <2>3. config'[dev][b] = w
    BY <1>1, <2>1 DEF ConfigSpace
  <2>4. Readable(config'[dev][b], bars'[dev][b])
    BY <2>1, <2>3 DEF Readable
  <2>5. Low32(Address(placed'[dev][b])) = Low32(Address(placed[dev][b]))
    BY <1>2, <1>4, LowHalf DEF SamePlace
  <2>6. bars'[dev][b].base = DecodedAt(dev, placed'[dev][b], bars'[dev][b].size)
    BY <1>2, <1>4, <2>1, <2>5 DEF BarOK, DecodedAt, SamePlace
  <2>7. BarOK(dev, b)'
    BY <2>4, <2>6 DEF BarOK, DecodedAt, Readable, Align, size_mask, Low32, Address
  <2> HIDE DEF w
  <2> QED
    BY <2>1, <2>2, <2>7, OnlyPlaced
<1>5. CASE bar.size # 0 /\ value # ALL
  <2> DEFINE w == bar_value(bar, value)
             moved == [bar EXCEPT !.base = Align(w, bar.size)]
  <2>1. config' = [config EXCEPT ![dev][b] = w] /\ bars' = [bars EXCEPT ![dev][b] = moved]
    BY <1>1, <1>5 DEF WriteBar
  <2>2. /\ w \in Int /\ BarSound(moved) /\ moved.size = bar.size
        /\ moved.base = Align(value, bar.size) /\ Readable(w, moved)
    <3> HIDE DEF bar
    <3> QED
      BY <1>1, <1>5, StoredReads
  <2> HIDE DEF w, moved
  <2>3. config'[dev][b] = w /\ bars'[dev][b] = moved
    BY <1>1, <2>1 DEF ConfigSpace
  <2>4. Low32(Address(placed'[dev][b])) = value
    BY <1>2, <1>5, LowHalf
  <2>5. bars'[dev][b].base = DecodedAt(dev, placed'[dev][b], bars'[dev][b].size)
    BY <1>2, <1>5, <2>2, <2>3, <2>4 DEF DecodedAt
  <2>6. Readable(config'[dev][b], bars'[dev][b])
    BY <2>2, <2>3
  <2>7. BarOK(dev, b)'
    BY <2>5, <2>6 DEF BarOK, DecodedAt, Readable, Align, size_mask, Low32, Address
  <2> QED
    BY <2>1, <2>2, <2>7, OneBarWritten
<1> QED
  BY <1>3, <1>4, <1>5

\* The virtio devices' handler: the BAR stays.
LEMMA VirtioWriteStep ==
  ASSUME PciInv, UNCHANGED devices, NEW dev \in PciDevices, NEW b \in BarNumbers,
         NEW value \in Values, virtio_pci_config_write(dev, b, value),
         placed' = [placed EXCEPT ![dev] = PlacedByGuest(dev, b, value)]
  PROVE  PciInv'
<1>1. dev \in VirtioDevices /\ config' = [config EXCEPT ![dev][b] = value] /\ UNCHANGED bars /\ value \in Int
  BY PciConstants DEF virtio_pci_config_write
<1>2. BarOK(dev, b) /\ placed'[dev][b].home = placed[dev][b].home
  <2>1. PlacesMoved(dev, b, value, placed')
    BY PlacedStep, Zenon
  <2> QED
    BY <2>1, BarByBar DEF PciInv, PlacesMoved
<1>3. BarOK(dev, b)'
  BY <1>1, <1>2 DEF BarOK, DecodedAt
<1> QED
  BY <1>1, <1>3, OnlyPlaced

LEMMA HandleIoStep ==
  ASSUME PciInv, NEW value \in Values, pci_handle_io(value)
  PROVE  PciInv'
<1>1. UNCHANGED devices
  BY DEF pci_handle_io
<1>2. ASSUME UNCHANGED <<bars, config, placed>> PROVE PciInv'
  BY <1>1, <1>2, BarsKept DEF PciInv, PciTypeOK
<1>3. ASSUME NEW dev \in find_device_by_bdf(config_address.bdf),
             pci_config_write(dev, config_address.reg, value)
      PROVE  PciInv'
  <2>1. dev \in PciDevices
    BY DEF find_device_by_bdf, ToSet, PciInv, PciTypeOK
  <2>2. ASSUME NEW b \in BarNumbers,
               config_write_default(dev, b, value) \/ virtio_pci_config_write(dev, b, value),
               placed' = [placed EXCEPT ![dev] = PlacedByGuest(dev, b, value)]
        PROVE  PciInv'
    BY <1>1, <2>1, <2>2, WriteBarStep, VirtioWriteStep DEF config_write_default
  <2> QED
    BY <1>2, <1>3, <2>2 DEF pci_config_write
<1> QED
  BY <1>2, <1>3 DEF pci_handle_io

LEMMA PciStep == PciInv /\ [PciNext]_pci_vars => PciInv'
<1> SUFFICES ASSUME PciInv, [PciNext]_pci_vars PROVE PciInv'
  OBVIOUS
<1>1. CASE \E dev \in PciDevices : pci_register_device(dev) \/ pci_unregister_device(dev)
  BY <1>1, RegisterStep, UnregisterStep
<1>2. CASE \E dev \in PciDevices, b \in BarNumbers :
              \E kind \in BarKinds[dev][b] : pci_setup_bar(dev, b, kind)
  BY <1>2, SetupBarStep
<1>3. CASE \/ UNCHANGED pci_vars
           \/ \E enable \in BOOLEAN, bdf \in PciDevices, reg \in Registers :
                 WriteConfigAddress(enable, bdf, reg)
  BY <1>3, BarsKept DEF pci_vars, WriteConfigAddress, PciInv, PciTypeOK
<1>4. CASE \E value \in Values : pci_handle_io(value)
  BY <1>4, HandleIoStep
<1> QED
  BY <1>1, <1>2, <1>3, <1>4 DEF PciNext

\* Through any sequence of registrations, sizings and writes a BAR that is left to
\* the bus is decoded where it was last placed, modulo 4G, and reads as that place
\* or as its size; a virtio device's stays where the device put it
\* (config_write_default, pci_register_device, virtio_pci_config_write).
THEOREM BarsFollow == PciSpec => []BarFollowsGuest
<1>1. PciInv => BarFollowsGuest
  BY DEF PciInv
<1> QED
  BY <1>1, PciStart, PciStep, PTL DEF PciSpec

-----------------------------------------------------------------------------
(* VmExit: the handlers, one by one. *)

VmcsOK == [field : [Stored -> Nat], shadow : [{"CR0", "CR4"} -> Nat], advanced : BOOLEAN]
VcpuOK == [regs : [Reg -> Int], state : {"RUNNING", "HALTED"}, vmcs : VmcsOK]

\* u is t with other registers or another state, past the instruction or not.
KeepsStored(u, t, advanced) ==
    /\ u \in VcpuOK
    /\ u.vmcs.field = t.vmcs.field /\ u.vmcs.shadow = t.vmcs.shadow
    /\ u.vmcs.advanced = advanced

LEMMA Halves ==
  ASSUME NEW w \in Nat
  PROVE  /\ Low(w) \in 0 .. HALF - 1 /\ High(w) \in Nat
         /\ High(w) * HALF + Low(w) = w
<1>1. HALF \in Nat \ {0}
  BY ExitConstants
<1> QED
  BY <1>1, Division DEF Low, High

LEMMA Joined ==
  ASSUME NEW h \in Nat, NEW l \in 0 .. HALF - 1
  PROVE  High(h * HALF + l) = h /\ Low(h * HALF + l) = l
<1>1. HALF \in Nat \ {0}
  BY ExitConstants
<1> QED
  BY <1>1, Quotient DEF Low, High

LEMMA Advanced ==
  ASSUME NEW t \in VcpuOK
  PROVE  /\ advance_guest_rip(t) \in VcpuOK
         /\ advance_guest_rip(t).regs = t.regs
         /\ advance_guest_rip(t).vmcs.field = t.vmcs.field
         /\ advance_guest_rip(t).vmcs.shadow = t.vmcs.shadow
         /\ advance_guest_rip(t).vmcs.advanced = TRUE
<1>1. t.vmcs \in VmcsOK
  BY DEF VcpuOK
<1>2. advance_guest_rip(t).vmcs = [t.vmcs EXCEPT !.advanced = TRUE]
  BY DEF advance_guest_rip, VcpuOK
<1>3. [t.vmcs EXCEPT !.advanced = TRUE] \in VmcsOK
  BY <1>1 DEF VmcsOK
<1>4. advance_guest_rip(t).regs = t.regs /\ advance_guest_rip(t) \in VcpuOK
  BY <1>1, <1>3 DEF advance_guest_rip, VcpuOK
<1>5. /\ [t.vmcs EXCEPT !.advanced = TRUE].field = t.vmcs.field
      /\ [t.vmcs EXCEPT !.advanced = TRUE].shadow = t.vmcs.shadow
      /\ [t.vmcs EXCEPT !.advanced = TRUE].advanced = TRUE
  BY <1>1 DEF VmcsOK
<1> QED
  BY <1>2, <1>4, <1>5

\* Other registers, and an instruction that is over.
WithRegs(t, r) == [t EXCEPT !.regs = r]

LEMMA NewRegisters ==
  ASSUME NEW t \in VcpuOK, NEW r \in [Reg -> Int]
  PROVE  /\ WithRegs(t, r) \in VcpuOK
         /\ WithRegs(t, r).vmcs = t.vmcs
         /\ WithRegs(t, r).regs = r
BY DEF VcpuOK, WithRegs

LEMMA EmulatedRegisters ==
  ASSUME NEW t \in VcpuOK, NEW r \in [Reg -> Int]
  PROVE  /\ KeepsStored(Emulated(WithRegs(t, r)).vcpu, t, TRUE)
         /\ Emulated(WithRegs(t, r)).vcpu.regs = r
         /\ Emulated(WithRegs(t, r)).ret = 0
<1> DEFINE u == WithRegs(t, r)
<1>1. u \in VcpuOK /\ u.vmcs = t.vmcs /\ u.regs = r
  BY NewRegisters
<1> HIDE DEF u
<1>2. /\ advance_guest_rip(u) \in VcpuOK
      /\ advance_guest_rip(u).regs = u.regs
      /\ advance_guest_rip(u).vmcs.field = u.vmcs.field
      /\ advance_guest_rip(u).vmcs.shadow = u.vmcs.shadow
      /\ advance_guest_rip(u).vmcs.advanced = TRUE
  BY <1>1, Advanced
<1>3. Emulated(u).vcpu = advance_guest_rip(u) /\ Emulated(u).ret = 0
  BY DEF Emulated, Done
<1> QED
  BY <1>1, <1>2, <1>3 DEF KeepsStored, u

\* After an exit of reason, with qualification q: what is stored is kept.
Settles(d, t) == KeepsStored(d.vcpu, t, TRUE) /\ d.ret = 0
Emulates(t, reason, q) == Settles(vmexit_handler(t, reason, q), t)

LEMMA CpuidKeeps ==
  ASSUME NEW t \in VcpuOK, NEW q \in {[r \in Reg |-> w] : w \in {0, HALF - 1}}
  PROVE  Emulates(t, "CPUID", q)
<1>1. q \in [Reg -> Int]
  BY ExitConstants
<1>2. vmexit_handler(t, "CPUID", q) = Emulated(WithRegs(t, q))
  BY DEF vmexit_handler, handle_cpuid, WithRegs
<1>3. Settles(Emulated(WithRegs(t, q)), t)
  BY <1>1, EmulatedRegisters DEF Settles
<1> QED
  BY <1>2, <1>3 DEF Emulates

LEMMA HltKeeps ==
  ASSUME NEW t \in VcpuOK, NEW q
  PROVE  Emulates(t, "HLT", q)
<1> DEFINE u == [t EXCEPT !.state = "HALTED"]
<1>1. u \in VcpuOK /\ u.vmcs = t.vmcs
  BY DEF VcpuOK
<1>2. vmexit_handler(t, "HLT", q) = Emulated(u)
  BY DEF vmexit_handler, handle_hlt
<1> HIDE DEF u
<1>3. /\ advance_guest_rip(u) \in VcpuOK
      /\ advance_guest_rip(u).vmcs.field = u.vmcs.field
      /\ advance_guest_rip(u).vmcs.shadow = u.vmcs.shadow
      /\ advance_guest_rip(u).vmcs.advanced = TRUE
  BY <1>1, Advanced
<1> QED
  BY <1>1, <1>2, <1>3 DEF Emulates, Settles, KeepsStored, Emulated, Done

\* A handler that leaves the registers as they are, or changes one.
LEMMA SameRegisters ==
  ASSUME NEW t \in VcpuOK
  PROVE  KeepsStored(Emulated(t).vcpu, t, TRUE) /\ Emulated(t).ret = 0
BY Advanced DEF KeepsStored, Emulated, Done

LEMMA IoKeeps ==
  ASSUME NEW t \in VcpuOK, NEW q \in [value : {0, Ones}, in : BOOLEAN, size : {1, 4}]
  PROVE  Emulates(t, "IO_INSTR", q)
<1> DEFINE unit == low_part(q.size)
           w == (t.regs["rax"] \div unit) * unit + (q.value % unit)
<1>1. unit \in Nat \ {0}
  BY ExitConstants DEF low_part
<1>2. Ones \in Int /\ t.regs["rax"] \in Int
  BY ExitConstants DEF Ones, VcpuOK, Reg
<1>3. q.value \in Int
  BY <1>2
<1>4. w \in Int
  BY <1>1, <1>2, <1>3
<1>5. vmexit_handler(t, "IO_INSTR", q)
        = Emulated(IF q.in THEN [t EXCEPT !.regs["rax"] = w] ELSE t)
  BY DEF vmexit_handler, handle_io
<1> HIDE DEF w
<1>6. CASE q.in
  <2>1. vmexit_handler(t, "IO_INSTR", q) = Emulated([t EXCEPT !.regs["rax"] = w])
    BY <1>5, <1>6
  <2> DEFINE r == [t.regs EXCEPT !["rax"] = w]
  <2>2. r \in [Reg -> Int]
    BY <1>4 DEF VcpuOK
  <2>3. [t EXCEPT !.regs["rax"] = w] = WithRegs(t, r)
    BY DEF VcpuOK, WithRegs
  <2> HIDE DEF r
  <2>4. vmexit_handler(t, "IO_INSTR", q) = Emulated(WithRegs(t, r))
    BY <2>1, <2>3
  <2>5. Settles(Emulated(WithRegs(t, r)), t)
    BY <2>2, EmulatedRegisters DEF Settles
  <2> QED
    BY <2>4, <2>5, Zenon DEF Emulates
<1>7. CASE ~ q.in
  <2>1. vmexit_handler(t, "IO_INSTR", q) = Emulated(t)
    BY <1>5, <1>7
  <2> QED
    BY <2>1, SameRegisters DEF Emulates, Settles
<1> QED
  BY <1>6, <1>7

LEMMA VmcallKeeps ==
  ASSUME NEW t \in VcpuOK, NEW q
  PROVE  Emulates(t, "VMCALL", q)
<1>1. "rax" \in Reg /\ "rbx" \in Reg /\ Ones \in Int /\ 2 \in Int /\ HALF \in Int
  BY ExitConstants DEF Reg, Ones
<1>2. CASE t.regs["rax"] = 0
  <2>1. vmexit_handler(t, "VMCALL", q) = Emulated(t)
    BY <1>2 DEF vmexit_handler, handle_vmcall
  <2> QED
    BY <2>1, SameRegisters DEF Emulates, Settles
<1>3. CASE t.regs["rax"] = 1
  <2> DEFINE r == [[t.regs EXCEPT !["rax"] = 2] EXCEPT !["rbx"] = HALF]
  <2>1. r \in [Reg -> Int]
    BY <1>1 DEF VcpuOK
  <2>2. vmexit_handler(t, "VMCALL", q) = Emulated([t EXCEPT !.regs["rax"] = 2, !.regs["rbx"] = HALF])
    BY <1>3 DEF vmexit_handler, handle_vmcall
  <2>3. [t EXCEPT !.regs["rax"] = 2, !.regs["rbx"] = HALF] = WithRegs(t, r)
    BY DEF VcpuOK, WithRegs
  <2> HIDE DEF r
  <2>4. vmexit_handler(t, "VMCALL", q) = Emulated(WithRegs(t, r))
    BY <2>2, <2>3, Zenon
  <2> QED
    BY <2>1, <2>4, EmulatedRegisters DEF Emulates, Settles
<1>4. CASE t.regs["rax"] # 0 /\ t.regs["rax"] # 1
  <2>1. vmexit_handler(t, "VMCALL", q) = Emulated([t EXCEPT !.regs["rax"] = Ones])
    BY <1>4 DEF vmexit_handler, handle_vmcall
  <2> DEFINE r == [t.regs EXCEPT !["rax"] = Ones]
  <2>2. r \in [Reg -> Int]
    BY <1>1 DEF VcpuOK
  <2>3. [t EXCEPT !.regs["rax"] = Ones] = WithRegs(t, r)
    BY DEF VcpuOK, WithRegs
  <2> HIDE DEF r
  <2>4. vmexit_handler(t, "VMCALL", q) = Emulated(WithRegs(t, r))
    BY <2>1, <2>3
  <2> QED
    BY <2>2, <2>4, EmulatedRegisters DEF Emulates, Settles
<1> QED
  BY <1>2, <1>3, <1>4

\* RDMSR yields the halves of what is stored, and leaves rcx.
LEMMA RdmsrReads ==
  ASSUME NEW t \in VcpuOK, NEW q
  PROVE  /\ Emulates(t, "RDMSR", q)
         /\ LET u == vmexit_handler(t, "RDMSR", q).vcpu
            IN  /\ u.regs["rcx"] = t.regs["rcx"]
                /\ u.regs["rdx"] * HALF + u.regs["rax"] = handle_rdmsr_value(t)
         /\ LET m == MsrOf(t.regs["rcx"])
            IN  handle_rdmsr_value(t)
                  = IF m \in StoredMsr THEN t.vmcs.field[m] ELSE IF m = "APIC_BASE" THEN ApicBase ELSE 0
<1> DEFINE m == MsrOf(t.regs["rcx"])
           w == handle_rdmsr_value(t)
           r == [[t.regs EXCEPT !["rax"] = Low(w)] EXCEPT !["rdx"] = High(w)]
<1>1. t.vmcs.field \in [Stored -> Nat] /\ t.regs \in [Reg -> Int]
  BY DEF VcpuOK, VmcsOK
<1>2. m \in Msr
  BY DEF MsrOf, Msr
<1> HIDE DEF m
<1>3. w \in Nat /\ w = IF m \in StoredMsr THEN t.vmcs.field[m] ELSE IF m = "APIC_BASE" THEN ApicBase ELSE 0
  <2>1. CASE m \in StoredMsr
    <3>1. w = t.vmcs.field[m]
      BY <2>1 DEF handle_rdmsr_value, StoredMsr, m
    <3>2. m \in Stored
      BY <2>1 DEF Stored
    <3> HIDE DEF w
    <3>3. w \in Nat
      BY <1>1, <3>1, <3>2
    <3> QED
      BY <2>1, <3>1, <3>3
  <2>2. CASE m = "APIC_BASE"
    BY <2>2 DEF handle_rdmsr_value, StoredMsr, ApicBase, m
  <2>3. CASE m = "UNKNOWN"
    BY <2>3 DEF handle_rdmsr_value, StoredMsr, m
  <2> QED
    BY <1>2, <2>1, <2>2, <2>3 DEF Msr
<1> HIDE DEF w
<1>3a. w \in Nat
  BY <1>3
<1>4. Low(w) \in Int /\ High(w) \in Int /\ High(w) * HALF + Low(w) = w
  BY <1>3a, Halves, ExitConstants
<1>5. r \in [Reg -> Int] /\ r["rax"] = Low(w) /\ r["rdx"] = High(w) /\ r["rcx"] = t.regs["rcx"]
  BY <1>1, <1>4 DEF Reg
<1>6. vmexit_handler(t, "RDMSR", q) = Emulated([t EXCEPT !.regs["rax"] = Low(w), !.regs["rdx"] = High(w)])
  BY DEF vmexit_handler, handle_rdmsr, w
<1>7. [t EXCEPT !.regs["rax"] = Low(w), !.regs["rdx"] = High(w)] = WithRegs(t, r)
  BY DEF VcpuOK, WithRegs
<1> HIDE DEF r
<1>8. vmexit_handler(t, "RDMSR", q) = Emulated(WithRegs(t, r))
  BY <1>6, <1>7
<1>9. Settles(Emulated(WithRegs(t, r)), t) /\ Emulated(WithRegs(t, r)).vcpu.regs = r
  BY <1>5, EmulatedRegisters DEF Settles
<1>10. Emulates(t, "RDMSR", q)
  BY <1>8, <1>9, Zenon DEF Emulates
<1> QED
  BY <1>3, <1>4, <1>5, <1>8, <1>9, <1>10 DEF m, w

\* What a handler stores: one field, and the shadow with it.
Stores(d, t, x, w, shadow) ==
    /\ d.ret = 0 /\ d.vcpu \in VcpuOK
    /\ d.vcpu.vmcs.field = [t.vmcs.field EXCEPT ![x] = w]
    /\ d.vcpu.vmcs.shadow = shadow
    /\ d.vcpu.vmcs.advanced = TRUE

WithField(t, x, w) == [t EXCEPT !.vmcs.field[x] = w]

LEMMA FieldStored ==
  ASSUME NEW t \in VcpuOK, NEW x \in Stored, NEW w \in Nat
  PROVE  /\ WithField(t, x, w) \in VcpuOK
         /\ WithField(t, x, w).regs = t.regs
         /\ WithField(t, x, w).vmcs.field = [t.vmcs.field EXCEPT ![x] = w]
         /\ WithField(t, x, w).vmcs.shadow = t.vmcs.shadow
<1>1. t.vmcs \in VmcsOK
  BY DEF VcpuOK
<1>2. WithField(t, x, w).vmcs = [t.vmcs EXCEPT !.field[x] = w]
  BY DEF WithField, VcpuOK
<1>3. /\ [t.vmcs EXCEPT !.field[x] = w] \in VmcsOK
      /\ [t.vmcs EXCEPT !.field[x] = w].field = [t.vmcs.field EXCEPT ![x] = w]
      /\ [t.vmcs EXCEPT !.field[x] = w].shadow = t.vmcs.shadow
  BY <1>1 DEF VmcsOK
<1>4. WithField(t, x, w).regs = t.regs /\ WithField(t, x, w) \in VcpuOK
  BY <1>1, <1>3 DEF WithField, VcpuOK
<1> QED
  BY <1>2, <1>3, <1>4

LEMMA EmulatedStore ==
  ASSUME NEW t \in VcpuOK, NEW u \in VcpuOK, NEW x, NEW w,
         u.vmcs.field = [t.vmcs.field EXCEPT ![x] = w]
  PROVE  Stores(Emulated(u), t, x, w, u.vmcs.shadow)
<1>1. /\ advance_guest_rip(u) \in VcpuOK
      /\ advance_guest_rip(u).vmcs.field = u.vmcs.field
      /\ advance_guest_rip(u).vmcs.shadow = u.vmcs.shadow
      /\ advance_guest_rip(u).vmcs.advanced = TRUE
  BY Advanced
<1>2. Emulated(u).vcpu = advance_guest_rip(u) /\ Emulated(u).ret = 0
  BY DEF Emulated, Done
<1> QED
  BY <1>1, <1>2 DEF Stores

\* WRMSR stores what rdx and rax hold, or nothing.
Written64(t) == Low(t.regs["rdx"]) * HALF + Low(t.regs["rax"])

LEMMA WrmsrStores ==
  ASSUME NEW t \in VcpuOK, NEW q
  PROVE  IF MsrOf(t.regs["rcx"]) \in StoredMsr
         THEN Stores(vmexit_handler(t, "WRMSR", q), t, MsrOf(t.regs["rcx"]), Written64(t), t.vmcs.shadow)
         ELSE Emulates(t, "WRMSR", q)
<1> DEFINE m == MsrOf(t.regs["rcx"])
           w == Written64(t)
<1>1. w \in Nat
  <2>1. t.regs["rdx"] \in Int /\ t.regs["rax"] \in Int
    BY DEF VcpuOK, Reg
  <2> QED
    BY <2>1, ExitConstants DEF Written64, Low
<1> HIDE DEF m, w
<1>2. vmexit_handler(t, "WRMSR", q) = Emulated(IF m \in StoredMsr THEN WithField(t, m, w) ELSE t)
  BY DEF vmexit_handler, handle_wrmsr, WithField, Written64, m, w
<1>3. CASE m \in StoredMsr
  <2>1. m \in Stored
    BY <1>3 DEF Stored
  <2> DEFINE u == WithField(t, m, w)
  <2>2. /\ u \in VcpuOK
        /\ u.vmcs.field = [t.vmcs.field EXCEPT ![m] = w]
        /\ u.vmcs.shadow = t.vmcs.shadow
    BY <1>1, <2>1, FieldStored
  <2>3. vmexit_handler(t, "WRMSR", q) = Emulated(u)
    BY <1>2, <1>3
  <2> HIDE DEF u
  <2>4. Stores(Emulated(u), t, m, w, u.vmcs.shadow)
    BY <2>2, EmulatedStore
  <2> QED
    BY <1>3, <2>2, <2>3, <2>4 DEF m, w
<1>4. CASE m \notin StoredMsr
  <2>1. vmexit_handler(t, "WRMSR", q) = Emulated(t)
    BY <1>2, <1>4
  <2> QED
    BY <1>4, <2>1, SameRegisters DEF Emulates, Settles, m
<1> QED
  BY <1>3, <1>4

\* MOV to a control register stores the register, and in CR0 and CR4 its shadow.
ShadowAfter(t, cr, w) ==
    IF cr \in {"CR0", "CR4"} THEN [t.vmcs.shadow EXCEPT ![cr] = w] ELSE t.vmcs.shadow

LEMMA CrStored ==
  ASSUME NEW t \in VcpuOK, NEW cr \in ControlReg, NEW w \in Nat
  PROVE  /\ mov_to_cr(t, cr, w) \in VcpuOK
         /\ mov_to_cr(t, cr, w).vmcs.field = [t.vmcs.field EXCEPT ![cr] = w]
         /\ mov_to_cr(t, cr, w).vmcs.shadow = ShadowAfter(t, cr, w)
<1> DEFINE sh == ShadowAfter(t, cr, w)
           v == [t.vmcs EXCEPT !.field[cr] = w, !.shadow = sh]
<1>1. t.vmcs \in VmcsOK /\ cr \in Stored
  BY DEF VcpuOK, Stored
<1>2. sh \in [{"CR0", "CR4"} -> Nat]
  BY <1>1 DEF ShadowAfter, VmcsOK
<1> HIDE DEF sh
<1>3. v \in VmcsOK /\ v.field = [t.vmcs.field EXCEPT ![cr] = w] /\ v.shadow = sh
  BY <1>1, <1>2 DEF VmcsOK
<1>4. mov_to_cr(t, cr, w) = [t EXCEPT !.vmcs = v]
  BY <1>1 DEF mov_to_cr, VcpuOK, VmcsOK, sh, ShadowAfter
<1> HIDE DEF v
<1>5. mov_to_cr(t, cr, w) \in VcpuOK /\ mov_to_cr(t, cr, w).vmcs = v
  BY <1>3, <1>4 DEF VcpuOK
<1> QED
  BY <1>3, <1>5 DEF sh

CrQuals ==
    [type : {"to", "from"}, cr : GuestCrs, reg : {"rax", "rbx"}]
    \cup [type : {"other"}, cr : {"CR0"}, reg : {"rax"}]

LEMMA CrAccessStores ==
  ASSUME NEW t \in VcpuOK, NEW q \in CrQuals, t.regs \in [Reg -> Nat]
  PROVE  IF q.type = "to"
         THEN Stores(vmexit_handler(t, "CR_ACCESS", q), t, q.cr, t.regs[q.reg],
                     ShadowAfter(t, q.cr, t.regs[q.reg]))
         ELSE /\ Emulates(t, "CR_ACCESS", q)
              /\ q.type = "from" =>
                    vmexit_handler(t, "CR_ACCESS", q).vcpu.regs[q.reg] = t.vmcs.field[q.cr]
<1>1. q.type \in {"to", "from", "other"} /\ q.reg \in Reg /\ q.cr \in ControlReg
  BY ExitConstants DEF CrQuals, Reg, ControlReg
<1>2. CASE q.type = "to"
  <2> DEFINE w == t.regs[q.reg]
             u == mov_to_cr(t, q.cr, w)
  <2>1. w \in Nat
    BY <1>1
  <2>2. vmexit_handler(t, "CR_ACCESS", q) = Emulated(u)
    BY <1>2 DEF vmexit_handler, handle_cr_access
  <2> HIDE DEF w
  <2>3. /\ u \in VcpuOK
        /\ u.vmcs.field = [t.vmcs.field EXCEPT ![q.cr] = w]
        /\ u.vmcs.shadow = ShadowAfter(t, q.cr, w)
    BY <1>1, <2>1, CrStored
  <2> HIDE DEF u
  <2>4. Stores(Emulated(u), t, q.cr, w, u.vmcs.shadow)
    BY <2>3, EmulatedStore
  <2> QED
    BY <1>2, <2>2, <2>3, <2>4 DEF w
<1>3. CASE q.type = "from"
  <2> DEFINE w == t.vmcs.field[q.cr]
             r == [t.regs EXCEPT ![q.reg] = w]
  <2>1. w \in Nat
    BY <1>1 DEF VcpuOK, VmcsOK, Stored
  <2>2. vmexit_handler(t, "CR_ACCESS", q) = Emulated([t EXCEPT !.regs[q.reg] = w])
    BY <1>3 DEF vmexit_handler, handle_cr_access
  <2> HIDE DEF w
  <2>3. r \in [Reg -> Int] /\ r[q.reg] = w
    BY <1>1, <2>1 DEF VcpuOK
  <2>4. [t EXCEPT !.regs[q.reg] = w] = WithRegs(t, r)
    BY DEF VcpuOK, WithRegs
  <2> HIDE DEF r
  <2>5. vmexit_handler(t, "CR_ACCESS", q) = Emulated(WithRegs(t, r))
    BY <2>2, <2>4
  <2>6. Settles(Emulated(WithRegs(t, r)), t) /\ Emulated(WithRegs(t, r)).vcpu.regs = r
    BY <2>3, EmulatedRegisters DEF Settles
  <2>7. Emulates(t, "CR_ACCESS", q)
    BY <2>5, <2>6, Zenon DEF Emulates
  <2> QED
    BY <1>3, <2>3, <2>5, <2>6, <2>7 DEF w
<1>4. CASE q.type = "other"
  <2>1. vmexit_handler(t, "CR_ACCESS", q) = Emulated(t)
    BY <1>4 DEF vmexit_handler, handle_cr_access
  <2> QED
    BY <1>4, <2>1, SameRegisters DEF Emulates, Settles
<1> QED
  BY <1>1, <1>2, <1>3, <1>4

-----------------------------------------------------------------------------
(* VmExit: the inductive invariant. *)

Shadowed == {"CR0", "CR4"}

\* What the guest wrote and the handlers carried out is what the VMCS holds: in
\* CR0 and CR4 as the processor shows it, in the others directly.  The MSRs that
\* are not stored keep the value they are given out with.
ExitCore ==
    /\ s \in VcpuOK
    /\ written \in [Register -> Nat]
    /\ lost \subseteq Droppable
    /\ \A x \in Stored \ Shadowed : s.vmcs.field[x] = written[x]
    /\ \A cr \in Shadowed : Visible(cr) = written[cr]
    /\ written["APIC_BASE"] = ApicBase /\ written["UNKNOWN"] = 0

ExitInv == ExitCore /\ GuestSeesItsProgram

LEMMA CoreKept ==
  ASSUME ExitCore, s' \in VcpuOK, s'.vmcs.field = s.vmcs.field, s'.vmcs.shadow = s.vmcs.shadow,
         written' = written, lost' \subseteq Droppable
  PROVE  ExitCore'
BY DEF ExitCore, Visible

LEMMA CoreWritten ==
  ASSUME ExitCore, NEW x \in Stored, NEW w \in Nat, s' \in VcpuOK,
         s'.vmcs.field = [s.vmcs.field EXCEPT ![x] = w],
         s'.vmcs.shadow = IF x \in Shadowed THEN [s.vmcs.shadow EXCEPT ![x] = w] ELSE s.vmcs.shadow,
         written' = [written EXCEPT ![x] = w], lost' \subseteq lost
  PROVE  ExitCore'
<1>0. Stored \subseteq Register /\ "APIC_BASE" \notin Stored /\ "UNKNOWN" \notin Stored
  BY DEF Stored, Register, Msr, StoredMsr, ControlReg
<1>1. s.vmcs.field \in [Stored -> Nat] /\ s.vmcs.shadow \in [Shadowed -> Nat]
  BY DEF ExitCore, VcpuOK, VmcsOK, Shadowed
<1>2. Shadowed \subseteq Stored
  BY DEF Shadowed, Stored, ControlReg
<1>3. /\ written' \in [Register -> Nat] /\ lost' \subseteq Droppable
      /\ written'["APIC_BASE"] = ApicBase /\ written'["UNKNOWN"] = 0
  BY <1>0 DEF ExitCore
<1>4. \A y \in Stored \ Shadowed : s'.vmcs.field[y] = written'[y]
  BY <1>0, <1>1 DEF ExitCore
<1>5. ASSUME NEW cr \in Shadowed PROVE Visible(cr)' = written'[cr]
  <2>1. CASE cr = x
    <3>1. s'.vmcs.field[cr] = w /\ s'.vmcs.shadow[cr] = w /\ written'[cr] = w
      BY <1>0, <1>1, <1>2, <2>1 DEF ExitCore
    <3> QED
      BY <3>1, Halves DEF Visible
  <2>2. CASE cr # x
    <3>1. /\ s'.vmcs.field[cr] = s.vmcs.field[cr] /\ s'.vmcs.shadow[cr] = s.vmcs.shadow[cr]
          /\ written'[cr] = written[cr]
      BY <1>0, <1>1, <1>2, <2>2 DEF ExitCore
    <3> QED
      BY <3>1 DEF Visible, ExitCore
  <2> QED
    BY <2>1, <2>2
<1> QED
  BY <1>3, <1>4, <1>5 DEF ExitCore

LEMMA ExitStart == ExitInit => ExitInv
<1> SUFFICES ASSUME ExitInit PROVE ExitInv
  OBVIOUS
<1>1. s \in VcpuOK /\ written \in [Register -> Nat] /\ lost \subseteq Droppable
  BY DEF ExitInit, VcpuOK, VmcsOK, ApicBase
<1>2. /\ \A x \in Stored \ Shadowed : s.vmcs.field[x] = written[x]
      /\ written["APIC_BASE"] = ApicBase /\ written["UNKNOWN"] = 0
  BY DEF ExitInit, Shadowed, Stored, Register, ControlReg, Msr, StoredMsr
<1>3. ASSUME NEW cr \in Shadowed PROVE Visible(cr) = written[cr]
  <2>1. s.vmcs.field[cr] = 1 /\ s.vmcs.shadow[cr] = 0 /\ written[cr] = 0
    BY DEF ExitInit, Shadowed, Stored, Register, ControlReg
  <2>2. High(0 * HALF + 1) = 0 /\ Low(0 * HALF + 0) = 0
    BY ExitConstants, Joined
  <2>3. High(1) = 0 /\ Low(0) = 0
    BY <2>2, ExitConstants
  <2> QED
    BY <2>1, <2>3, ExitConstants DEF Visible
<1>4. exit.reason = "EXTERNAL_INT" /\ s.vmcs.advanced = FALSE
  BY DEF ExitInit
<1>5. ExitCore
  BY <1>1, <1>2, <1>3 DEF ExitCore
<1>6. GuestSeesItsProgram
  BY <1>1, <1>3, <1>4 DEF GuestSeesItsProgram, Instructions, Shadowed
<1> QED
  BY <1>5, <1>6 DEF ExitInv

\* The vCPU a guest exits with: its registers are its own.
EnteredWith(t) ==
    /\ t \in VcpuOK /\ t.regs \in [Reg -> Nat]
    /\ t.vmcs.field = s.vmcs.field /\ t.vmcs.shadow = s.vmcs.shadow
    /\ t.vmcs.advanced = FALSE

RegsOf(a, d, m) == [rax |-> a, rbx |-> d, rcx |-> MsrNumber[m], rdx |-> d]
EnteredAs(r) == [s EXCEPT !.regs = r, !.state = "RUNNING", !.vmcs.advanced = FALSE]

LEMMA Entered ==
  ASSUME ExitCore, NEW a \in Inputs, NEW d \in Inputs, NEW m \in GuestMsrs
  PROVE  /\ EnteredWith(EnteredAs(RegsOf(a, d, m)))
         /\ EnteredAs(RegsOf(a, d, m)).regs = RegsOf(a, d, m)
<1> DEFINE regs == RegsOf(a, d, m)
           entered == EnteredAs(regs)
<1>1. a \in Nat /\ d \in Nat /\ MsrNumber[m] \in Nat
  BY ExitConstants DEF Ones, MsrNumber, Msr, StoredMsr
<1>2. regs \in [Reg -> Nat]
  <2> DEFINE f == [r \in Reg |-> CASE r = "rax" -> a [] r = "rcx" -> MsrNumber[m] [] OTHER -> d]
  <2>1. f \in [Reg -> Nat]
    BY <1>1 DEF Reg
  <2>2. regs = f
    BY DEF Reg, RegsOf
  <2> QED
    BY <2>1, <2>2
<1>3. s \in VcpuOK /\ s.vmcs \in VmcsOK
  BY DEF ExitCore, VcpuOK
<1> DEFINE v == [s.vmcs EXCEPT !.advanced = FALSE]
<1>4. v \in VmcsOK /\ v.field = s.vmcs.field /\ v.shadow = s.vmcs.shadow /\ v.advanced = FALSE
  BY <1>3 DEF VmcsOK
<1> HIDE DEF regs
<1>5. entered = [regs |-> regs, state |-> "RUNNING", vmcs |-> v]
  <2>1. /\ entered = [s EXCEPT !.regs = regs, !.state = "RUNNING", !.vmcs.advanced = FALSE]
        /\ s = [regs |-> s.regs, state |-> s.state, vmcs |-> s.vmcs]
    BY <1>3 DEF VcpuOK, EnteredAs
  <2> HIDE DEF entered
  <2> QED
    BY <2>1
<1> HIDE DEF v, entered
<1>6. regs \in [Reg -> Int]
  BY ONLY <1>2
<1>7. [regs |-> regs, state |-> "RUNNING", vmcs |-> v] \in VcpuOK
  BY ONLY <1>4, <1>6 DEF VcpuOK
<1>8. entered.regs = regs /\ entered.vmcs = v
  BY ONLY <1>5
<1>9. EnteredWith(entered)
  BY ONLY <1>2, <1>4, <1>5, <1>7, <1>8 DEF EnteredWith
<1> QED
  BY ONLY <1>8, <1>9, Zenon DEF entered, regs

\* An exit that stores nothing: an instruction that is over, or an event.
LEMMA StoresNothing ==
  ASSUME ExitCore, NEW t, NEW d, NEW advanced \in BOOLEAN,
         t.vmcs.field = s.vmcs.field, t.vmcs.shadow = s.vmcs.shadow,
         KeepsStored(d.vcpu, t, advanced), s' = d.vcpu, written' = written, lost' \subseteq Droppable,
         NEW reason, NEW q, exit' = [reason |-> reason, qual |-> q, ret |-> d.ret],
         advanced = TRUE <=> (d.ret = 0 /\ reason \in Instructions)
  PROVE  /\ ExitCore'
         /\ reason # "RDMSR" /\ reason # "CR_ACCESS" => GuestSeesItsProgram'
         /\ (s.vmcs.advanced <=> (exit.ret = 0 /\ exit.reason \in Instructions))'
<1>1. /\ s' \in VcpuOK /\ s'.vmcs.field = s.vmcs.field /\ s'.vmcs.shadow = s.vmcs.shadow
      /\ s'.vmcs.advanced = advanced
  BY DEF KeepsStored
<1>2. ExitCore'
  BY <1>1, CoreKept
<1>3. exit'.reason = reason /\ exit'.qual = q /\ exit'.ret = d.ret
  OBVIOUS
<1>4. (s.vmcs.advanced <=> (exit.ret = 0 /\ exit.reason \in Instructions))'
  BY <1>1, <1>3
<1>5. (lost \subseteq Droppable /\ \A cr \in {"CR0", "CR4"} : Visible(cr) = written[cr])'
  BY <1>2 DEF ExitCore, Shadowed
<1>6. reason # "RDMSR" /\ reason # "CR_ACCESS" => GuestSeesItsProgram'
  BY <1>3, <1>4, <1>5 DEF GuestSeesItsProgram
<1> QED
  BY <1>2, <1>4, <1>6

\* One exit, with the guest's registers in t.
ExitWith(t, reason, q) ==
    /\ s' = vmexit_handler(t, reason, q).vcpu
    /\ exit' = [reason |-> reason, qual |-> q, ret |-> vmexit_handler(t, reason, q).ret]
    /\ Noted(reason, q, t.regs)

LEMMA EveryExit ==
  ASSUME ExitCore, NEW reason \in Reasons, VmExitOf(reason)
  PROVE  \E q \in Quals(reason) : \E t : EnteredWith(t) /\ ExitWith(t, reason, q)
<1>1. PICK q \in Quals(reason), a \in Inputs, d \in Inputs, m \in GuestMsrs :
         /\ s' = vmexit_handler(EnteredAs(RegsOf(a, d, m)), reason, q).vcpu
         /\ exit' = [reason |-> reason, qual |-> q,
                     ret |-> vmexit_handler(EnteredAs(RegsOf(a, d, m)), reason, q).ret]
         /\ Noted(reason, q, RegsOf(a, d, m))
  BY Zenon DEF VmExitOf, EnteredAs, RegsOf
<1> DEFINE t == EnteredAs(RegsOf(a, d, m))
<1>2. EnteredWith(t) /\ t.regs = RegsOf(a, d, m)
  BY Entered
<1>3. ExitWith(t, reason, q)
  BY <1>1, <1>2 DEF ExitWith
<1> QED
  BY <1>2, <1>3

LEMMA PlainExit ==
  ASSUME ExitCore, NEW t, EnteredWith(t), NEW q,
         NEW reason \in Reasons \ {"WRMSR", "RDMSR", "CR_ACCESS"}, q \in Quals(reason),
         ExitWith(t, reason, q)
  PROVE  ExitInv'
<1> DEFINE d == vmexit_handler(t, reason, q)
<1>1. t \in VcpuOK
  BY DEF EnteredWith
<1>2. written' = written /\ lost' \subseteq Droppable
  BY DEF ExitWith, Noted, Writes, ExitCore
<1>3. CASE reason \in {"CPUID", "HLT", "IO_INSTR", "VMCALL"}
  <2>1. Emulates(t, reason, q)
    BY <1>1, <1>3, CpuidKeeps, HltKeeps, IoKeeps, VmcallKeeps DEF Quals
  <2>2. KeepsStored(d.vcpu, t, TRUE) /\ d.ret = 0 /\ reason \in Instructions
    BY <1>3, <2>1 DEF Emulates, Settles, Instructions
  <2> QED
    BY <1>2, <2>2, StoresNothing DEF ExitInv, ExitWith, EnteredWith
<1>4. CASE reason \in {"EPT_VIOLATION", "EXTERNAL_INT", "TRIPLE_FAULT", "RDTSC"}
  <2>1. d.vcpu = t /\ reason \notin Instructions
    BY <1>4 DEF vmexit_handler, handle_ept_violation, Done, Instructions
  <2>2. KeepsStored(d.vcpu, t, FALSE)
    BY <2>1 DEF KeepsStored, EnteredWith
  <2> QED
    BY <1>2, <2>1, <2>2, StoresNothing DEF ExitInv, ExitWith, EnteredWith
<1> QED
  BY <1>3, <1>4 DEF Reasons, Instructions

LEMMA RdmsrExit ==
  ASSUME ExitCore, NEW t, EnteredWith(t), NEW q, ExitWith(t, "RDMSR", q)
  PROVE  ExitInv'
<1> DEFINE d == vmexit_handler(t, "RDMSR", q)
           m == MsrOf(t.regs["rcx"])
<1>1. t \in VcpuOK
  BY DEF EnteredWith
<1>2. written' = written /\ lost' \subseteq Droppable
  BY DEF ExitWith, Noted, Writes, ExitCore
<1>3. /\ Emulates(t, "RDMSR", q)
      /\ d.vcpu.regs["rcx"] = t.regs["rcx"]
      /\ d.vcpu.regs["rdx"] * HALF + d.vcpu.regs["rax"]
           = IF m \in StoredMsr THEN t.vmcs.field[m] ELSE IF m = "APIC_BASE" THEN ApicBase ELSE 0
  BY <1>1, RdmsrReads
<1>4. KeepsStored(d.vcpu, t, TRUE) /\ d.ret = 0 /\ "RDMSR" \in Instructions
  BY <1>3 DEF Emulates, Settles, Instructions
<1>5. ExitCore' /\ (s.vmcs.advanced <=> (exit.ret = 0 /\ exit.reason \in Instructions))'
  BY <1>2, <1>4, StoresNothing DEF ExitWith, EnteredWith
<1>6. s' = d.vcpu /\ exit'.reason = "RDMSR"
  BY DEF ExitWith
<1>7. (s.regs["rdx"] * HALF + s.regs["rax"] = written[MsrOf(s.regs["rcx"])])'
  <2>1. MsrOf(s.regs["rcx"])' = m
    BY <1>3, <1>6 DEF MsrOf
  <2>2. /\ m \in StoredMsr => s.vmcs.field[m] = written[m]
        /\ m \notin StoredMsr => m = "APIC_BASE" \/ m = "UNKNOWN"
    BY DEF ExitCore, StoredMsr, Stored, Shadowed, m, MsrOf, Msr
  <2>3. written["APIC_BASE"] = ApicBase /\ written["UNKNOWN"] = 0
    BY DEF ExitCore
  <2> QED
    BY <1>2, <1>3, <1>6, <2>1, <2>2, <2>3 DEF EnteredWith
<1>8. (lost \subseteq Droppable /\ \A cr \in {"CR0", "CR4"} : Visible(cr) = written[cr])'
  BY <1>5 DEF ExitCore, Shadowed
<1>9. GuestSeesItsProgram'
  BY <1>5, <1>6, <1>7, <1>8 DEF GuestSeesItsProgram
<1> QED
  BY <1>5, <1>9 DEF ExitInv

\* An exit that stores x: the guest's note of it is the same.
LEMMA StoringExit ==
  ASSUME ExitCore, NEW t, EnteredWith(t), NEW q, NEW reason \in {"WRMSR", "CR_ACCESS"},
         ExitWith(t, reason, q), NEW x \in Stored, NEW w \in Nat,
         Stores(vmexit_handler(t, reason, q), t, x, w,
                IF x \in Shadowed THEN [t.vmcs.shadow EXCEPT ![x] = w] ELSE t.vmcs.shadow),
         written' = [written EXCEPT ![x] = w], lost' \subseteq lost,
         reason = "CR_ACCESS" => q.type # "from"
  PROVE  ExitInv'
<1> DEFINE d == vmexit_handler(t, reason, q)
<1>1. /\ d.ret = 0 /\ d.vcpu \in VcpuOK
      /\ d.vcpu.vmcs.field = [s.vmcs.field EXCEPT ![x] = w]
      /\ d.vcpu.vmcs.shadow = IF x \in Shadowed THEN [s.vmcs.shadow EXCEPT ![x] = w] ELSE s.vmcs.shadow
      /\ d.vcpu.vmcs.advanced = TRUE
  BY DEF Stores, EnteredWith
<1>2. s' = d.vcpu /\ exit'.reason = reason /\ exit'.ret = d.ret /\ exit'.qual = q
  BY DEF ExitWith
<1> HIDE DEF d
<1>3. ExitCore'
  BY <1>1, <1>2, CoreWritten
<1>4. (s.vmcs.advanced <=> (exit.ret = 0 /\ exit.reason \in Instructions))'
  BY <1>1, <1>2 DEF Instructions
<1>5. (lost \subseteq Droppable /\ \A cr \in {"CR0", "CR4"} : Visible(cr) = written[cr])'
  BY <1>3 DEF ExitCore, Shadowed
<1>6. GuestSeesItsProgram'
  BY <1>2, <1>4, <1>5 DEF GuestSeesItsProgram
<1> QED
  BY <1>3, <1>6 DEF ExitInv

LEMMA WrmsrExit ==
  ASSUME ExitCore, NEW t, EnteredWith(t), NEW q, ExitWith(t, "WRMSR", q)
  PROVE  ExitInv'
<1> DEFINE m == MsrOf(t.regs["rcx"])
           w == Written64(t)
<1>1. t \in VcpuOK
  BY DEF EnteredWith
<1>2. CASE m \in StoredMsr
  <2>1. Stores(vmexit_handler(t, "WRMSR", q), t, m, w, t.vmcs.shadow)
    BY <1>1, <1>2, WrmsrStores
  <2>2. m \in Stored /\ m \notin Shadowed
    BY <1>2 DEF Stored, StoredMsr, Shadowed
  <2>3. w \in Nat
    BY ExitConstants DEF Written64, Low, EnteredWith, Reg
  <2>4. written' = [written EXCEPT ![m] = w] /\ lost' \subseteq lost
    <3>1. /\ written' = [y \in Register |-> IF y \in {m} THEN w ELSE written[y]]
          /\ lost' = lost \ {m}
      BY <1>2 DEF ExitWith, Noted, Writes, CarriedOut, ValueWritten, Written64
    <3>2. written \in [Register -> Nat]
      BY DEF ExitCore
    <3> HIDE DEF m, w
    <3> QED
      BY <3>1, <3>2
  <2> HIDE DEF m, w
  <2>5. Stores(vmexit_handler(t, "WRMSR", q), t, m, w,
               IF m \in Shadowed THEN [t.vmcs.shadow EXCEPT ![m] = w] ELSE t.vmcs.shadow)
    BY <2>1, <2>2
  <2> QED
    BY <2>2, <2>3, <2>4, <2>5, StoringExit
<1>3. CASE m \notin StoredMsr
  <2> DEFINE d == vmexit_handler(t, "WRMSR", q)
  <2>1. Emulates(t, "WRMSR", q)
    BY <1>1, <1>3, WrmsrStores
  <2>2. KeepsStored(d.vcpu, t, TRUE) /\ d.ret = 0 /\ "WRMSR" \in Instructions
    BY <2>1 DEF Emulates, Settles, Instructions
  <2>3. written' = written /\ lost' \subseteq Droppable
    <3>1. m \in Msr
      BY DEF MsrOf, Msr
    <3> QED
      BY <1>3, <3>1 DEF ExitWith, Noted, Writes, CarriedOut, ExitCore, Droppable
  <2>4. s' = d.vcpu /\ exit' = [reason |-> "WRMSR", qual |-> q, ret |-> d.ret]
    BY DEF ExitWith
  <2>5. t.vmcs.field = s.vmcs.field /\ t.vmcs.shadow = s.vmcs.shadow
    BY DEF EnteredWith
  <2> HIDE DEF d
  <2>6. ExitCore' /\ GuestSeesItsProgram'
    <3> DEFINE r == "WRMSR"
    <3>1. /\ exit' = [reason |-> r, qual |-> q, ret |-> d.ret]
          /\ TRUE <=> (d.ret = 0 /\ r \in Instructions)
          /\ r # "RDMSR" /\ r # "CR_ACCESS"
      BY <2>2, <2>4
    <3> HIDE DEF r
    <3> QED
      BY <2>2, <2>3, <2>4, <2>5, <3>1, StoresNothing
  <2> QED
    BY <2>6 DEF ExitInv
<1> QED
  BY <1>2, <1>3

LEMMA CrAccessExit ==
  ASSUME ExitCore, NEW t, EnteredWith(t), NEW q \in CrQuals, ExitWith(t, "CR_ACCESS", q)
  PROVE  ExitInv'
<1> DEFINE d == vmexit_handler(t, "CR_ACCESS", q)
<1>1. t \in VcpuOK /\ t.regs \in [Reg -> Nat]
  BY DEF EnteredWith
<1>2. q.type \in {"to", "from", "other"} /\ q.reg \in Reg /\ q.cr \in ControlReg
  BY ExitConstants DEF CrQuals, Reg, ControlReg
<1>3. CASE q.type = "to"
  <2> DEFINE w == t.regs[q.reg]
             x == q.cr
  <2>1. Stores(d, t, x, w, ShadowAfter(t, x, w))
    BY <1>1, <1>3, CrAccessStores
  <2>2. x \in Stored /\ w \in Nat
    BY <1>1, <1>2 DEF Stored
  <2>3. written' = [written EXCEPT ![x] = w] /\ lost' \subseteq lost
    <3>1. /\ written' = [y \in Register |-> IF y \in {x} THEN w ELSE written[y]]
          /\ lost' = lost \ {x}
      BY <1>3 DEF ExitWith, Noted, Writes, CarriedOut, ValueWritten
    <3>2. written \in [Register -> Nat]
      BY DEF ExitCore
    <3> HIDE DEF x, w
    <3> QED
      BY <3>1, <3>2
  <2>4. q.type # "from"
    BY <1>3
  <2> HIDE DEF x, w
  <2>5. Stores(d, t, x, w, IF x \in Shadowed THEN [t.vmcs.shadow EXCEPT ![x] = w] ELSE t.vmcs.shadow)
    BY <2>1 DEF ShadowAfter, Shadowed
  <2> QED
    BY <2>2, <2>3, <2>4, <2>5, StoringExit
<1>4. CASE q.type # "to"
  <2>1. /\ Emulates(t, "CR_ACCESS", q)
        /\ q.type = "from" => d.vcpu.regs[q.reg] = t.vmcs.field[q.cr]
    BY <1>1, <1>4, CrAccessStores
  <2>2. KeepsStored(d.vcpu, t, TRUE) /\ d.ret = 0 /\ "CR_ACCESS" \in Instructions
    BY <2>1 DEF Emulates, Settles, Instructions
  <2>3. written' = written /\ lost' \subseteq Droppable
    <3>1. q.type = "other" => q.cr = "CR0"
      BY DEF CrQuals
    <3> QED
      BY <1>2, <1>4, <3>1 DEF ExitWith, Noted, Writes, CarriedOut, ExitCore, Droppable
  <2>4. ExitCore' /\ (s.vmcs.advanced <=> (exit.ret = 0 /\ exit.reason \in Instructions))'
    BY <2>2, <2>3, StoresNothing DEF ExitWith, EnteredWith
  <2>5. s' = d.vcpu /\ exit'.reason = "CR_ACCESS" /\ exit'.qual = q
    BY DEF ExitWith
  <2>6. q.type = "from" /\ q.cr = "CR3" => s'.regs[q.reg] = written'["CR3"]
    <3>1. s.vmcs.field["CR3"] = written["CR3"]
      BY DEF ExitCore, Stored, ControlReg, Shadowed
    <3> QED
      BY <2>1, <2>3, <2>5, <3>1 DEF EnteredWith
  <2>7. (lost \subseteq Droppable /\ \A cr \in {"CR0", "CR4"} : Visible(cr) = written[cr])'
    BY <2>4 DEF ExitCore, Shadowed
  <2>8. GuestSeesItsProgram'
    BY <2>4, <2>5, <2>6, <2>7 DEF GuestSeesItsProgram
  <2> QED
    BY <2>4, <2>8 DEF ExitInv
<1> QED
  BY <1>3, <1>4

\* A MOV to CR0 or CR4 in the guest changes the bits that are the guest's.
LEMMA MovInGuest ==
  ASSUME ExitInv, MovToCrInGuest
  PROVE  ExitInv'
<1>1. PICK cr \in GuestCrs \cap {"CR0", "CR4"}, w \in Inputs :
         /\ Low(w) = Low(s.vmcs.shadow[cr])
         /\ s' = [s EXCEPT !.vmcs.field[cr] = High(w) * HALF + Low(@)]
         /\ written' = [written EXCEPT ![cr] = w]
         /\ lost' = lost \ {cr}
         /\ UNCHANGED exit
  BY DEF MovToCrInGuest
<1> DEFINE old == s.vmcs.field[cr]
           new == High(w) * HALF + Low(old)
<1>2. s \in VcpuOK /\ cr \in Stored /\ cr \in Shadowed /\ w \in Nat /\ ExitCore
  BY ExitConstants DEF ExitInv, ExitCore, Stored, ControlReg, Shadowed, Ones
<1>3. s.vmcs.field \in [Stored -> Nat] /\ s.vmcs.shadow \in [Shadowed -> Nat] /\ old \in Nat
  BY <1>2 DEF VcpuOK, VmcsOK, Shadowed
<1>4. s' = WithField(s, cr, new)
  BY <1>1, <1>2 DEF WithField, VcpuOK, VmcsOK
<1> HIDE DEF old
<1>5. Low(old) \in 0 .. HALF - 1 /\ High(w) \in Nat /\ High(w) * HALF + Low(w) = w
  BY <1>2, <1>3, Halves
<1>6. new \in Nat /\ High(new) = High(w)
  BY <1>5, Joined, ExitConstants
<1> HIDE DEF new
<1>7. /\ s' \in VcpuOK /\ s'.regs = s.regs
      /\ s'.vmcs.field = [s.vmcs.field EXCEPT ![cr] = new]
      /\ s'.vmcs.shadow = s.vmcs.shadow
  BY <1>2, <1>4, <1>6, FieldStored
<1>8. s'.vmcs.advanced = s.vmcs.advanced
  BY <1>2, <1>4 DEF WithField, VcpuOK, VmcsOK
<1>9. /\ written' \in [Register -> Nat] /\ \A x \in Register \ {cr} : written'[x] = written[x]
      /\ lost' \subseteq Droppable
  BY <1>1, <1>2 DEF ExitCore
<1>a. Stored \subseteq Register /\ cr \in {"CR0", "CR4"}
  BY <1>1 DEF Stored, Register, Msr
<1>b. written'["APIC_BASE"] = ApicBase /\ written'["UNKNOWN"] = 0
  BY <1>1, <1>2, <1>9, <1>a DEF ExitCore, Register, Msr
<1>10. \A x \in Stored \ Shadowed : s'.vmcs.field[x] = written'[x]
  BY <1>2, <1>3, <1>7, <1>9, <1>a DEF ExitCore
<1>11. ASSUME NEW c \in Shadowed PROVE Visible(c)' = written'[c]
  <2>1. CASE c = cr
    <3>1. s'.vmcs.field[c] = new /\ s'.vmcs.shadow[c] = s.vmcs.shadow[cr] /\ written'[c] = w
      BY <1>1, <1>2, <1>3, <1>7, <1>a, <2>1 DEF ExitCore
    <3> QED
      BY <1>1, <1>5, <1>6, <3>1 DEF Visible
  <2>2. CASE c # cr
    <3>1. c \in Stored
      BY DEF Shadowed, Stored, ControlReg
    <3>2. s'.vmcs.field[c] = s.vmcs.field[c] /\ written'[c] = written[c]
      BY <1>3, <1>7, <1>9, <1>a, <2>2, <3>1
    <3> QED
      BY <1>2, <1>7, <3>2 DEF Visible, ExitCore
  <2> QED
    BY <2>1, <2>2
<1>12. ExitCore'
  BY <1>7, <1>9, <1>b, <1>10, <1>11 DEF ExitCore
<1>13. GuestSeesItsProgram'
  <2>1. (lost \subseteq Droppable /\ \A c \in {"CR0", "CR4"} : Visible(c) = written[c])'
    BY <1>12 DEF ExitCore, Shadowed
  <2>2. \A m \in Msr \cup {"CR3"} : written'[m] = written[m]
    BY <1>9, <1>a DEF StoredMsr, Msr, Register, ControlReg
  <2>3. exit' = exit /\ s'.regs = s.regs /\ s'.vmcs.advanced = s.vmcs.advanced
    BY <1>1, <1>7, <1>8
  <2>4. /\ exit.reason = "RDMSR" =>
              s.regs["rdx"] * HALF + s.regs["rax"] = written[MsrOf(s.regs["rcx"])]
        /\ exit.reason = "CR_ACCESS" =>
              (exit.qual.type = "from" /\ exit.qual.cr = "CR3"
                  => s.regs[exit.qual.reg] = written["CR3"])
        /\ s.vmcs.advanced <=> (exit.ret = 0 /\ exit.reason \in Instructions)
    BY Zenon DEF ExitInv, GuestSeesItsProgram
  <2>5. MsrOf(s'.regs["rcx"]) = MsrOf(s.regs["rcx"]) /\ MsrOf(s.regs["rcx"]) \in Msr
    BY <2>3 DEF MsrOf, Msr
  <2>6. /\ exit'.reason = "RDMSR" =>
              s'.regs["rdx"] * HALF + s'.regs["rax"] = written'[MsrOf(s'.regs["rcx"])]
        /\ exit'.reason = "CR_ACCESS" =>
              (exit'.qual.type = "from" /\ exit'.qual.cr = "CR3"
                  => s'.regs[exit'.qual.reg] = written'["CR3"])
        /\ s'.vmcs.advanced <=> (exit'.ret = 0 /\ exit'.reason \in Instructions)
    BY <2>2, <2>3, <2>4, <2>5
  <2> QED
    BY <2>1, <2>6, Zenon DEF GuestSeesItsProgram, MsrOf
<1> QED
  BY <1>12, <1>13 DEF ExitInv

LEMMA ExitStep == ExitInv /\ [ExitNext]_exit_vars => ExitInv'
<1> SUFFICES ASSUME ExitInv, [ExitNext]_exit_vars PROVE ExitInv'
  OBVIOUS
<1>1. ASSUME NEW reason \in Reasons, VmExitOf(reason) PROVE ExitInv'
  <2> PICK q \in Quals(reason) : \E t : EnteredWith(t) /\ ExitWith(t, reason, q)
    BY <1>1, EveryExit DEF ExitInv
  <2>1. PICK t : EnteredWith(t) /\ ExitWith(t, reason, q)
    OBVIOUS
  <2>2. CASE reason \notin {"WRMSR", "RDMSR", "CR_ACCESS"}
    BY <2>1, <2>2, PlainExit DEF ExitInv
  <2>3. CASE reason = "RDMSR"
    BY <2>1, <2>3, RdmsrExit DEF ExitInv
  <2>4. CASE reason = "WRMSR"
    BY <2>1, <2>4, WrmsrExit DEF ExitInv
  <2>5. CASE reason = "CR_ACCESS"
    <3>1. q \in CrQuals
      BY <2>5 DEF Quals, CrQuals
    <3> QED
      BY <2>1, <2>5, <3>1, CrAccessExit DEF ExitInv
  <2> QED
    BY <2>2, <2>3, <2>4, <2>5
<1>2. CASE UNCHANGED exit_vars
  BY <1>2 DEF exit_vars, ExitInv, ExitCore, GuestSeesItsProgram, Visible
<1> QED
  BY <1>1, <1>2, MovInGuest DEF ExitNext

\* Outside the registers whose last write was dropped (LMSW and CLTS in CR0, all
\* MSRs but three) the guest finds in its control registers and MSRs what it last
\* put there, in those what was there before; an emulated instruction is over, and
\* nothing else moves it on
\* (handle_cr_access, handle_wrmsr, handle_rdmsr, advance_guest_rip).
THEOREM GuestIsUndisturbed == ExitSpec => []GuestSeesItsProgram
<1>1. ExitInv => GuestSeesItsProgram
  BY DEF ExitInv
<1> QED
  BY <1>1, ExitStart, ExitStep, PTL DEF ExitSpec

-----------------------------------------------------------------------------
(* Smp: the interrupt-safe lock and the count of processors online, for    *)
(* every number of processors.                                             *)

(* The lock. *)

Step == {"out", "saved", "spinning", "locked", "inside", "releasing", "restoring"}

LockTypeOK ==
    /\ ap \in [CPU -> {"waiting", "started", "marked", "running"}]
    /\ lock \in [locked: BOOLEAN, flags: BOOLEAN]
    /\ intr \in [CPU -> BOOLEAN]
    /\ level \in [CPU -> Level]
    /\ at \in [CPU -> [Level -> Step]]
    /\ flags \in [CPU -> [Level -> BOOLEAN]]
    /\ wanted \in [CPU -> BOOLEAN]

\* One holder, and the lock word tells whether there is one.
OneHolder ==
    /\ \A i, j \in CPU : \A l, k \in Level :
         at[i][l] \in Inside /\ at[j][k] \in Inside => i = j /\ l = k
    /\ lock.locked = TRUE <=> \E i \in CPU : \E l \in Level : at[i][l] \in Inside

\* A processor uses the lock only once it runs, in a handler only inside one,
\* and a handler interrupts nothing beyond the saving of the flags.
LevelsNest ==
    \A i \in CPU :
        /\ ap[i] # "running" => level[i] = 0 /\ at[i][0] = "out"
        /\ level[i] = 0 => at[i][1] = "out"
        /\ level[i] = 1 => at[i][0] \in {"out", "saved"} /\ wanted[i] = TRUE

\* The interrupt flag as the code at a level had it before the acquire.
Before(i, l) == l = 0 /\ wanted[i] = TRUE

\* It is in the register outside, in the local variable on the way in and out,
\* in the lock itself in between.
RegisterKept(i) ==
    /\ at[i][level[i]] \in {"out", "saved"} => (intr[i] = TRUE <=> Before(i, level[i]))
    /\ at[i][level[i]] \notin {"out", "saved"} => intr[i] = FALSE
MemoryKept(i, l) ==
    /\ at[i][l] \in {"saved", "spinning", "locked", "releasing", "restoring"}
         => (flags[i][l] = TRUE <=> Before(i, l))
    /\ at[i][l] = "inside" => (lock.flags = TRUE <=> Before(i, l))
FlagsKept ==
    /\ \A i \in CPU : RegisterKept(i)
    /\ \A i \in CPU : \A l \in Level : MemoryKept(i, l)

\* The inductive invariant of the lock.
LockInv == LockTypeOK /\ OneHolder /\ LevelsNest /\ FlagsKept

\* smp_init leaves the lock free and every processor outside it.
LEMMA LockInit == SmpInit => LockInv
<1> SUFFICES ASSUME SmpInit PROVE LockInv
  OBVIOUS
<1>1. LockTypeOK
  BY DEF SmpInit, LockTypeOK, Level, Step
<1>2. OneHolder
  BY DEF SmpInit, OneHolder, Inside
<1>3. LevelsNest
  BY DEF SmpInit, LevelsNest, Level
<1>4. FlagsKept
  BY DEF SmpInit, FlagsKept, RegisterKept, MemoryKept, Before, Level
<1> QED
  BY <1>1, <1>2, <1>3, <1>4 DEF LockInv

\* A step of one processor at its level: the rest of at stays.
LEMMA OneMoves ==
  ASSUME LockInv, NEW i \in CPU, NEW step \in Step, GoTo(i, step)
  PROVE  /\ level[i] \in Level
         /\ at' \in [CPU -> [Level -> Step]]
         /\ at'[i][level[i]] = step
         /\ \A j \in CPU : \A l \in Level :
              j # i \/ l # level[i] => at'[j][l] = at[j][l]
  BY DEF LockInv, LockTypeOK, GoTo, Level

LEMMA OneRemembers ==
  ASSUME LockInv, NEW i \in CPU, NEW f \in BOOLEAN, Remember(i, f)
  PROVE  /\ flags' \in [CPU -> [Level -> BOOLEAN]]
         /\ flags'[i][level[i]] = f
         /\ \A j \in CPU : \A l \in Level :
              j # i \/ l # level[i] => flags'[j][l] = flags[j][l]
  BY DEF LockInv, LockTypeOK, Remember, Level

\* A step that takes nobody in or out leaves the holder what it was.
LEMMA HolderStays ==
  ASSUME OneHolder, lock'.locked = lock.locked,
         \A j \in CPU : \A l \in Level : at'[j][l] \in Inside <=> at[j][l] \in Inside
  PROVE  OneHolder'
  BY DEF OneHolder

\* A processor that uses the lock moves at its own level only.
LEMMA NestStays ==
  ASSUME LockInv, NEW i \in CPU, NEW now, At(i, now), UNCHANGED <<ap, level, wanted>>,
         \A j \in CPU : \A l \in Level : j # i \/ l # level[i] => at'[j][l] = at[j][l]
  PROVE  LevelsNest'
<1> SUFFICES ASSUME NEW j \in CPU
             PROVE  /\ ap[j] # "running" => level[j] = 0 /\ at'[j][0] = "out"
                    /\ level[j] = 0 => at'[j][1] = "out"
                    /\ level[j] = 1 => at'[j][0] \in {"out", "saved"} /\ wanted[j] = TRUE
  BY DEF LevelsNest
<1>1. /\ ap[j] # "running" => level[j] = 0 /\ at[j][0] = "out"
      /\ level[j] = 0 => at[j][1] = "out"
      /\ level[j] = 1 => at[j][0] \in {"out", "saved"} /\ wanted[j] = TRUE
  BY DEF LockInv, LevelsNest
<1>2. CASE j = i
  <2>1. ap[i] = "running"
    BY DEF At
  <2>2. level[i] = 0 => at'[i][1] = at[i][1]
    BY DEF Level
  <2>3. level[i] = 1 => at'[i][0] = at[i][0]
    BY DEF Level
  <2> QED
    BY <1>1, <1>2, <2>1, <2>2, <2>3
<1>3. CASE j # i
  <2>1. at'[j][0] = at[j][0] /\ at'[j][1] = at[j][1]
    BY <1>3 DEF Level
  <2> QED
    BY <1>1, <2>1
<1> QED
  BY <1>2, <1>3

\* Saving the flags leaves the register and the lock alone.
LEMMA LockSaveFlags ==
  ASSUME LockInv, NEW i \in CPU, SaveFlags(i), UNCHANGED <<boot, level, wanted>>
  PROVE  LockInv'
<1> USE DEF LockInv, boot
<1>1. /\ level[i] \in Level
      /\ at' \in [CPU -> [Level -> Step]]
      /\ at'[i][level[i]] = "saved"
      /\ \A j \in CPU : \A l \in Level :
           j # i \/ l # level[i] => at'[j][l] = at[j][l]
  BY OneMoves DEF SaveFlags, Step
<1>2. /\ flags' \in [CPU -> [Level -> BOOLEAN]]
      /\ flags'[i][level[i]] = intr[i]
      /\ \A j \in CPU : \A l \in Level :
           j # i \/ l # level[i] => flags'[j][l] = flags[j][l]
  BY OneRemembers DEF SaveFlags, LockTypeOK
<1>3. LockTypeOK'
  BY <1>1, <1>2 DEF SaveFlags, LockTypeOK
<1>4. OneHolder'
  BY <1>1, HolderStays DEF SaveFlags, Inside, At, LockTypeOK
<1>5. LevelsNest'
  BY <1>1, NestStays DEF SaveFlags
<1>6. ASSUME NEW j \in CPU PROVE RegisterKept(j)'
  <2>1. CASE j = i
    BY <1>1, <1>2, <2>1 DEF SaveFlags, FlagsKept, RegisterKept, MemoryKept, Before, At, LockTypeOK
  <2>2. CASE j # i
    <3>1. at'[j][level[j]] = at[j][level[j]] /\ intr'[j] = intr[j]
      BY <1>1, <2>2 DEF SaveFlags, LockTypeOK
    <3> QED
      BY <3>1 DEF FlagsKept, RegisterKept, Before
  <2> QED
    BY <2>1, <2>2
<1>7. ASSUME NEW j \in CPU, NEW l \in Level PROVE MemoryKept(j, l)'
  <2>1. CASE j = i /\ l = level[i]
    BY <1>1, <1>2, <2>1 DEF SaveFlags, FlagsKept, RegisterKept, MemoryKept, Before, At, MyFlags, LockTypeOK
  <2>2. CASE j # i \/ l # level[i]
    BY <1>1, <1>2, <2>2 DEF SaveFlags, FlagsKept, MemoryKept, Before, LockTypeOK
  <2> QED
    BY <2>1, <2>2
<1> QED
  BY <1>3, <1>4, <1>5, <1>6, <1>7 DEF FlagsKept

\* Interrupts go off after they were saved.
LEMMA LockCli ==
  ASSUME LockInv, NEW i \in CPU, Cli(i), UNCHANGED <<boot, level, wanted>>
  PROVE  LockInv'
<1> USE DEF LockInv, boot
<1>1. /\ level[i] \in Level
      /\ at' \in [CPU -> [Level -> Step]]
      /\ at'[i][level[i]] = "spinning"
      /\ \A j \in CPU : \A l \in Level :
           j # i \/ l # level[i] => at'[j][l] = at[j][l]
  BY OneMoves DEF Cli, Step
<1>2. /\ flags' \in [CPU -> [Level -> BOOLEAN]]
      /\ flags'[i][level[i]] = flags[i][level[i]]
      /\ \A j \in CPU : \A l \in Level :
           j # i \/ l # level[i] => flags'[j][l] = flags[j][l]
  BY <1>1 DEF Cli, LockTypeOK
<1>3. LockTypeOK'
  BY <1>1, <1>2 DEF Cli, LockTypeOK
<1>4. OneHolder'
  BY <1>1, HolderStays DEF Cli, Inside, At, LockTypeOK
<1>5. LevelsNest'
  BY <1>1, NestStays DEF Cli
<1>6. ASSUME NEW j \in CPU PROVE RegisterKept(j)'
  BY <1>1, <1>2 DEF Cli, FlagsKept, RegisterKept, MemoryKept, Before, At, MyFlags, LockTypeOK
<1>7. ASSUME NEW j \in CPU, NEW l \in Level PROVE MemoryKept(j, l)'
  <2>1. CASE j = i /\ l = level[i]
    BY <1>1, <1>2, <2>1 DEF Cli, FlagsKept, RegisterKept, MemoryKept, Before, At, MyFlags, LockTypeOK
  <2>2. CASE j # i \/ l # level[i]
    BY <1>1, <1>2, <2>2 DEF Cli, FlagsKept, MemoryKept, Before, LockTypeOK
  <2> QED
    BY <2>1, <2>2
<1> QED
  BY <1>3, <1>4, <1>5, <1>6, <1>7 DEF FlagsKept

\* The lock is taken only while nobody is inside.
LEMMA LockSpinlockAcquire ==
  ASSUME LockInv, NEW i \in CPU, spinlock_acquire(i), UNCHANGED <<boot, level, wanted>>
  PROVE  LockInv'
<1> USE DEF LockInv, boot
<1>1. /\ level[i] \in Level
      /\ at' \in [CPU -> [Level -> Step]]
      /\ at'[i][level[i]] = "locked"
      /\ \A j \in CPU : \A l \in Level :
           j # i \/ l # level[i] => at'[j][l] = at[j][l]
  BY OneMoves DEF spinlock_acquire, Step
<1>2. /\ flags' \in [CPU -> [Level -> BOOLEAN]]
      /\ flags'[i][level[i]] = flags[i][level[i]]
      /\ \A j \in CPU : \A l \in Level :
           j # i \/ l # level[i] => flags'[j][l] = flags[j][l]
  BY <1>1 DEF spinlock_acquire, LockTypeOK
<1>3. LockTypeOK'
  BY <1>1, <1>2 DEF spinlock_acquire, LockTypeOK
<1>4. OneHolder'
  <2>1. lock.locked = FALSE /\ lock'.locked = TRUE
    BY DEF spinlock_acquire, LockTypeOK
  <2>2. \A j \in CPU : \A l \in Level : at[j][l] \notin Inside
    BY <2>1 DEF OneHolder
  <2>3. \A j \in CPU : \A l \in Level : at'[j][l] \in Inside <=> j = i /\ l = level[i]
    BY <1>1, <2>2 DEF Inside
  <2> QED
    BY <1>1, <2>1, <2>3 DEF OneHolder
<1>5. LevelsNest'
  BY <1>1, NestStays DEF spinlock_acquire
<1>6. ASSUME NEW j \in CPU PROVE RegisterKept(j)'
  BY <1>1, <1>2 DEF spinlock_acquire, FlagsKept, RegisterKept, MemoryKept, Before, At, MyFlags, LockTypeOK
<1>7. ASSUME NEW j \in CPU, NEW l \in Level PROVE MemoryKept(j, l)'
  <2>1. CASE j = i /\ l = level[i]
    BY <1>1, <1>2, <2>1 DEF spinlock_acquire, FlagsKept, RegisterKept, MemoryKept, Before, At, MyFlags, LockTypeOK
  <2>2. CASE j # i \/ l # level[i]
    BY <1>1, <1>2, <2>2 DEF spinlock_acquire, FlagsKept, MemoryKept, Before, LockTypeOK
  <2> QED
    BY <2>1, <2>2
<1> QED
  BY <1>3, <1>4, <1>5, <1>6, <1>7 DEF FlagsKept

\* The holder alone writes its flags into the lock.
LEMMA LockStoreFlags ==
  ASSUME LockInv, NEW i \in CPU, StoreFlags(i), UNCHANGED <<boot, level, wanted>>
  PROVE  LockInv'
<1> USE DEF LockInv, boot
<1>1. /\ level[i] \in Level
      /\ at' \in [CPU -> [Level -> Step]]
      /\ at'[i][level[i]] = "inside"
      /\ \A j \in CPU : \A l \in Level :
           j # i \/ l # level[i] => at'[j][l] = at[j][l]
  BY OneMoves DEF StoreFlags, Step
<1>2. /\ flags' \in [CPU -> [Level -> BOOLEAN]]
      /\ flags'[i][level[i]] = flags[i][level[i]]
      /\ \A j \in CPU : \A l \in Level :
           j # i \/ l # level[i] => flags'[j][l] = flags[j][l]
  BY <1>1 DEF StoreFlags, LockTypeOK
<1>3. LockTypeOK'
  <2>1. MyFlags(i) \in BOOLEAN
    BY <1>1 DEF MyFlags, LockTypeOK
  <2> QED
    BY <1>1, <1>2, <2>1 DEF StoreFlags, LockTypeOK
<1>4. OneHolder'
  BY <1>1, HolderStays DEF StoreFlags, Inside, At, LockTypeOK
<1>5. LevelsNest'
  BY <1>1, NestStays DEF StoreFlags
<1>6. ASSUME NEW j \in CPU PROVE RegisterKept(j)'
  <2>1. CASE j = i
    BY <1>1, <2>1 DEF StoreFlags, FlagsKept, RegisterKept, At
  <2>2. CASE j # i
    BY <1>1, <2>2 DEF StoreFlags, FlagsKept, RegisterKept, Before, LockTypeOK
  <2> QED
    BY <2>1, <2>2
<1>7. ASSUME NEW j \in CPU, NEW l \in Level PROVE MemoryKept(j, l)'
  <2>1. CASE j = i /\ l = level[i]
    BY <1>1, <1>2, <2>1 DEF StoreFlags, FlagsKept, RegisterKept, MemoryKept, Before, At, MyFlags, LockTypeOK
  <2>2. CASE j # i \/ l # level[i]
    BY <1>1, <1>2, <2>2 DEF StoreFlags, FlagsKept, MemoryKept, Before, LockTypeOK, OneHolder, Inside, At
  <2> QED
    BY <2>1, <2>2
<1> QED
  BY <1>3, <1>4, <1>5, <1>6, <1>7 DEF FlagsKept

\* The holder takes them out before it lets go.
LEMMA LockLoadFlags ==
  ASSUME LockInv, NEW i \in CPU, LoadFlags(i), UNCHANGED <<boot, level, wanted>>
  PROVE  LockInv'
<1> USE DEF LockInv, boot
<1>1. /\ level[i] \in Level
      /\ at' \in [CPU -> [Level -> Step]]
      /\ at'[i][level[i]] = "releasing"
      /\ \A j \in CPU : \A l \in Level :
           j # i \/ l # level[i] => at'[j][l] = at[j][l]
  BY OneMoves DEF LoadFlags, Step
<1>2. /\ flags' \in [CPU -> [Level -> BOOLEAN]]
      /\ flags'[i][level[i]] = lock.flags
      /\ \A j \in CPU : \A l \in Level :
           j # i \/ l # level[i] => flags'[j][l] = flags[j][l]
  BY OneRemembers DEF LoadFlags, LockTypeOK
<1>3. LockTypeOK'
  BY <1>1, <1>2 DEF LoadFlags, LockTypeOK
<1>4. OneHolder'
  BY <1>1, HolderStays DEF LoadFlags, Inside, At, LockTypeOK
<1>5. LevelsNest'
  BY <1>1, NestStays DEF LoadFlags
<1>6. ASSUME NEW j \in CPU PROVE RegisterKept(j)'
  <2>1. CASE j = i
    BY <1>1, <2>1 DEF LoadFlags, FlagsKept, RegisterKept, At
  <2>2. CASE j # i
    BY <1>1, <2>2 DEF LoadFlags, FlagsKept, RegisterKept, Before, LockTypeOK
  <2> QED
    BY <2>1, <2>2
<1>7. ASSUME NEW j \in CPU, NEW l \in Level PROVE MemoryKept(j, l)'
  <2>1. CASE j = i /\ l = level[i]
    BY <1>1, <1>2, <2>1 DEF LoadFlags, FlagsKept, RegisterKept, MemoryKept, Before, At, MyFlags, LockTypeOK
  <2>2. CASE j # i \/ l # level[i]
    BY <1>1, <1>2, <2>2 DEF LoadFlags, FlagsKept, MemoryKept, Before, LockTypeOK
  <2> QED
    BY <2>1, <2>2
<1> QED
  BY <1>3, <1>4, <1>5, <1>6, <1>7 DEF FlagsKept

\* Only the holder releases, and then nobody is inside.
LEMMA LockSpinlockRelease ==
  ASSUME LockInv, NEW i \in CPU, spinlock_release(i), UNCHANGED <<boot, level, wanted>>
  PROVE  LockInv'
<1> USE DEF LockInv, boot
<1>1. /\ level[i] \in Level
      /\ at' \in [CPU -> [Level -> Step]]
      /\ at'[i][level[i]] = "restoring"
      /\ \A j \in CPU : \A l \in Level :
           j # i \/ l # level[i] => at'[j][l] = at[j][l]
  BY OneMoves DEF spinlock_release, Step
<1>2. /\ flags' \in [CPU -> [Level -> BOOLEAN]]
      /\ flags'[i][level[i]] = flags[i][level[i]]
      /\ \A j \in CPU : \A l \in Level :
           j # i \/ l # level[i] => flags'[j][l] = flags[j][l]
  BY <1>1 DEF spinlock_release, LockTypeOK
<1>3. LockTypeOK'
  BY <1>1, <1>2 DEF spinlock_release, LockTypeOK
<1>4. OneHolder'
  <2>1. lock'.locked = FALSE
    BY DEF spinlock_release, LockTypeOK
  <2>2. at[i][level[i]] \in Inside
    BY DEF spinlock_release, At, Inside
  <2>3. \A j \in CPU : \A l \in Level : at'[j][l] \notin Inside
    <3> SUFFICES ASSUME NEW j \in CPU, NEW l \in Level PROVE at'[j][l] \notin Inside
      OBVIOUS
    <3>1. CASE j = i /\ l = level[i]
      BY <1>1, <3>1 DEF Inside
    <3>2. CASE j # i \/ l # level[i]
      BY <1>1, <2>2, <3>2 DEF OneHolder
    <3> QED
      BY <3>1, <3>2
  <2> QED
    BY <2>1, <2>3 DEF OneHolder
<1>5. LevelsNest'
  BY <1>1, NestStays DEF spinlock_release
<1>6. ASSUME NEW j \in CPU PROVE RegisterKept(j)'
  <2>1. CASE j = i
    BY <1>1, <1>2, <2>1 DEF spinlock_release, FlagsKept, RegisterKept, MemoryKept, Before, At, LockTypeOK
  <2>2. CASE j # i
    <3>1. at'[j][level[j]] = at[j][level[j]] /\ intr'[j] = intr[j]
      BY <1>1, <2>2 DEF spinlock_release, LockTypeOK
    <3> QED
      BY <3>1 DEF FlagsKept, RegisterKept, Before
  <2> QED
    BY <2>1, <2>2
<1>7. ASSUME NEW j \in CPU, NEW l \in Level PROVE MemoryKept(j, l)'
  <2>1. CASE j = i /\ l = level[i]
    BY <1>1, <1>2, <2>1 DEF spinlock_release, FlagsKept, RegisterKept, MemoryKept, Before, At, MyFlags, LockTypeOK
  <2>2. CASE j # i \/ l # level[i]
    BY <1>1, <1>2, <2>2 DEF spinlock_release, FlagsKept, MemoryKept, Before, LockTypeOK
  <2> QED
    BY <2>1, <2>2
<1> QED
  BY <1>3, <1>4, <1>5, <1>6, <1>7 DEF FlagsKept

\* The register is restored from the local variable.
LEMMA LockRestoreFlags ==
  ASSUME LockInv, NEW i \in CPU, RestoreFlags(i), UNCHANGED <<boot, level, wanted>>
  PROVE  LockInv'
<1> USE DEF LockInv, boot
<1>1. /\ level[i] \in Level
      /\ at' \in [CPU -> [Level -> Step]]
      /\ at'[i][level[i]] = "out"
      /\ \A j \in CPU : \A l \in Level :
           j # i \/ l # level[i] => at'[j][l] = at[j][l]
  BY OneMoves DEF RestoreFlags, Step
<1>2. /\ flags' \in [CPU -> [Level -> BOOLEAN]]
      /\ flags'[i][level[i]] = FALSE
      /\ \A j \in CPU : \A l \in Level :
           j # i \/ l # level[i] => flags'[j][l] = flags[j][l]
  BY OneRemembers DEF RestoreFlags, LockTypeOK
<1>3. LockTypeOK'
  <2>1. MyFlags(i) \in BOOLEAN
    BY <1>1 DEF MyFlags, LockTypeOK
  <2> QED
    BY <1>1, <1>2, <2>1 DEF RestoreFlags, LockTypeOK
<1>4. OneHolder'
  BY <1>1, HolderStays DEF RestoreFlags, Inside, At, LockTypeOK
<1>5. LevelsNest'
  BY <1>1, NestStays DEF RestoreFlags
<1>6. ASSUME NEW j \in CPU PROVE RegisterKept(j)'
  BY <1>1, <1>2 DEF RestoreFlags, FlagsKept, RegisterKept, MemoryKept, Before, At, MyFlags, LockTypeOK
<1>7. ASSUME NEW j \in CPU, NEW l \in Level PROVE MemoryKept(j, l)'
  <2>1. CASE j = i /\ l = level[i]
    BY <1>1, <1>2, <2>1 DEF RestoreFlags, FlagsKept, RegisterKept, MemoryKept, Before, At, MyFlags, LockTypeOK
  <2>2. CASE j # i \/ l # level[i]
    BY <1>1, <1>2, <2>2 DEF RestoreFlags, FlagsKept, MemoryKept, Before, LockTypeOK
  <2> QED
    BY <2>1, <2>2
<1> QED
  BY <1>3, <1>4, <1>5, <1>6, <1>7 DEF FlagsKept

\* Every step of the lock functions keeps the invariant.
LEMMA LockUse ==
  ASSUME LockInv, NEW i \in CPU, UseLock(i)
  PROVE  LockInv'
  BY LockSaveFlags, LockCli, LockSpinlockAcquire, LockStoreFlags, LockLoadFlags,
     LockSpinlockRelease, LockRestoreFlags
     DEF UseLock, irqlock_acquire, irqlock_release

\* A handler is entered only where interrupts are on, which is never beyond the
\* saving of the flags.
LEMMA LockInterrupt ==
  ASSUME LockInv, NEW i \in CPU, Interrupt(i)
  PROVE  LockInv'
<1> USE DEF LockInv, boot, locking
<1>1. /\ at[i][0] \in {"out", "saved"} /\ wanted[i] = TRUE /\ at[i][1] = "out"
      /\ intr' = [intr EXCEPT ![i] = FALSE] /\ level' = [level EXCEPT ![i] = 1]
      /\ ap[i] = "running"
  BY DEF Interrupt, LevelsNest, FlagsKept, RegisterKept, Before, LockTypeOK
<1>2. LockTypeOK' /\ OneHolder'
  BY <1>1 DEF Interrupt, LockTypeOK, OneHolder, Level
<1>3. LevelsNest'
  BY <1>1 DEF Interrupt, LockTypeOK, LevelsNest
<1>4. ASSUME NEW j \in CPU PROVE RegisterKept(j)'
  BY <1>1 DEF Interrupt, LockTypeOK, FlagsKept, RegisterKept, Before
<1>5. ASSUME NEW j \in CPU, NEW l \in Level PROVE MemoryKept(j, l)'
  BY DEF Interrupt, FlagsKept, MemoryKept, Before
<1> QED
  BY <1>2, <1>3, <1>4, <1>5 DEF FlagsKept

\* It returns to code that had interrupts on.
LEMMA LockIret ==
  ASSUME LockInv, NEW i \in CPU, Iret(i)
  PROVE  LockInv'
<1> USE DEF LockInv, boot, locking
<1>1. /\ at[i][0] \in {"out", "saved"} /\ wanted[i] = TRUE /\ at[i][1] = "out"
      /\ intr' = [intr EXCEPT ![i] = TRUE] /\ level' = [level EXCEPT ![i] = 0]
      /\ ap[i] = "running"
  BY DEF Iret, At, LevelsNest
<1>2. LockTypeOK' /\ OneHolder'
  BY <1>1 DEF Iret, LockTypeOK, OneHolder, Level
<1>3. LevelsNest'
  BY <1>1 DEF Iret, LockTypeOK, LevelsNest
<1>4. ASSUME NEW j \in CPU PROVE RegisterKept(j)'
  BY <1>1 DEF Iret, LockTypeOK, FlagsKept, RegisterKept, Before
<1>5. ASSUME NEW j \in CPU, NEW l \in Level PROVE MemoryKept(j, l)'
  BY DEF Iret, FlagsKept, MemoryKept, Before
<1> QED
  BY <1>2, <1>3, <1>4, <1>5 DEF FlagsKept

\* Ordinary code switches interrupts only outside the lock.
LEMMA LockSwitchInterrupts ==
  ASSUME LockInv, NEW i \in CPU, SwitchInterrupts(i)
  PROVE  LockInv'
<1> USE DEF LockInv, boot, locking
<1>1. /\ level[i] = 0 /\ at[i][0] = "out" /\ at[i][1] = "out"
      /\ intr' = [intr EXCEPT ![i] = ~intr[i]] /\ wanted' = [wanted EXCEPT ![i] = ~wanted[i]]
  BY DEF SwitchInterrupts, At, LevelsNest
<1>2. LockTypeOK' /\ OneHolder'
  BY <1>1 DEF SwitchInterrupts, LockTypeOK, OneHolder
<1>3. LevelsNest'
  BY <1>1 DEF SwitchInterrupts, LockTypeOK, LevelsNest
<1>4. ASSUME NEW j \in CPU PROVE RegisterKept(j)'
  BY <1>1 DEF SwitchInterrupts, LockTypeOK, FlagsKept, RegisterKept, Before
<1>5. ASSUME NEW j \in CPU, NEW l \in Level PROVE MemoryKept(j, l)'
  BY <1>1 DEF SwitchInterrupts, LockTypeOK, FlagsKept, MemoryKept, Before, Level
<1> QED
  BY <1>2, <1>3, <1>4, <1>5 DEF FlagsKept

\* A processor that comes up turns interrupts on outside the lock.
LEMMA LockApEntry ==
  ASSUME LockInv, NEW i \in CPU, ap_entry(i)
  PROVE  LockInv'
<1> USE DEF LockInv, locking
<1>1. CASE MarkOnline(i)
  <2>1. LockTypeOK' /\ OneHolder' /\ LevelsNest'
    BY <1>1 DEF ap_entry, MarkOnline, LockTypeOK, OneHolder, LevelsNest
  <2>2. FlagsKept'
    BY <1>1 DEF ap_entry, MarkOnline, FlagsKept, RegisterKept, MemoryKept, Before
  <2> QED
    BY <2>1, <2>2
<1>2. CASE CountStarted(i)
  <2>1. level[i] = 0 /\ at[i][0] = "out" /\ at[i][1] = "out"
    BY <1>2 DEF CountStarted, LevelsNest
  <2>2. LockTypeOK' /\ OneHolder' /\ LevelsNest'
    BY <1>2, <2>1 DEF ap_entry, CountStarted, LockTypeOK, OneHolder, LevelsNest
  <2>3. ASSUME NEW j \in CPU PROVE RegisterKept(j)'
    BY <1>2, <2>1 DEF ap_entry, CountStarted, LockTypeOK, FlagsKept, RegisterKept, Before
  <2>4. ASSUME NEW j \in CPU, NEW l \in Level PROVE MemoryKept(j, l)'
    BY <1>2, <2>1 DEF ap_entry, CountStarted, LockTypeOK, FlagsKept, MemoryKept, Before, Level
  <2> QED
    BY <2>2, <2>3, <2>4 DEF FlagsKept
<1> QED
  BY <1>1, <1>2 DEF ap_entry

-----------------------------------------------------------------------------
(* Starting the processors. *)

Backed(i) == state[i] = "ONLINE" /\ ap[i] \in {"marked", "running"}

BootTypeOK ==
    /\ state \in [CPU -> {"OFFLINE", "STARTING", "ONLINE"}]
    /\ ap \in [CPU -> {"waiting", "started", "marked", "running"}]
    /\ bsp \in [pc: {"send", "wait", "test", "count", "give_up"}, i: 1 .. cpu_count]
    /\ bsp.pc # "send" => bsp.i < cpu_count
    /\ online_cpus \in Nat

\* A processor waits until its turn, and only a processor marks itself online.
TurnsKept ==
    /\ \A j \in CPU : (j > bsp.i \/ (j = bsp.i /\ bsp.pc = "send")) => ap[j] = "waiting"
    /\ \A j \in CPU : state[j] = "ONLINE" => ap[j] \in {"marked", "running"}

\* The processors whose turn is over and that are backed are at least as many
\* as were counted; the one about to be counted is backed.
CountBacked ==
    /\ online_cpus <= Cardinality({j \in 0 .. bsp.i - 1 : Backed(j)})
    /\ bsp.pc = "count" => Backed(bsp.i)

\* The inductive invariant of the start-up.
BootInv == BootTypeOK /\ TurnsKept /\ CountBacked

\* The steps of the boot CPU keep the lock's invariant: it starts only
\* processors that do not run yet.
LEMMA LockStartAps ==
  ASSUME LockInv, BootInv, smp_start_aps, UNCHANGED <<locking, intr, level, wanted>>
  PROVE  LockInv'
<1> USE DEF LockInv, locking
<1>1. CASE ap' = ap
  BY <1>1 DEF LockTypeOK, OneHolder, LevelsNest, FlagsKept, RegisterKept, MemoryKept, Before
<1>2. CASE SendStartup
  <2>1. bsp.i \in CPU /\ ap[bsp.i] = "waiting"
    BY <1>2, SmpConstants DEF SendStartup, BootInv, BootTypeOK, TurnsKept, CPU
  <2>2. LockTypeOK' /\ OneHolder' /\ LevelsNest'
    BY <1>2, <2>1 DEF SendStartup, LockTypeOK, OneHolder, LevelsNest
  <2>3. FlagsKept'
    BY DEF FlagsKept, RegisterKept, MemoryKept, Before
  <2> QED
    BY <2>2, <2>3
<1> QED
  BY <1>1, <1>2 DEF smp_start_aps, WaitForAp, TestAp, CountAp, GiveUp

LEMMA BootInit == SmpInit => BootInv
<1> SUFFICES ASSUME SmpInit PROVE BootInv
  OBVIOUS
<1>1. BootTypeOK /\ TurnsKept
  BY SmpConstants DEF SmpInit, BootTypeOK, TurnsKept, CPU
<1>2. {j \in 0 .. bsp.i - 1 : Backed(j)} = {0}
  <2>1. bsp.i = 1 /\ 0 \in CPU
    BY SmpConstants DEF SmpInit, CPU
  <2>2. Backed(0)
    BY <2>1 DEF SmpInit, Backed
  <2>3. 0 .. bsp.i - 1 = {0}
    BY <2>1
  <2> QED
    BY <2>2, <2>3
<1>3. Cardinality({j \in 0 .. bsp.i - 1 : Backed(j)}) = 1
  BY <1>2, FS_Singleton
<1>4. online_cpus = 1 /\ bsp.pc # "count"
  BY DEF SmpInit
<1>5. CountBacked
  BY <1>3, <1>4 DEF CountBacked
<1> QED
  BY <1>1, <1>5 DEF BootInv

\* A step that takes back no mark of a processor whose turn is over keeps the
\* count backed.
LEMMA CountStays ==
  ASSUME BootInv, BootTypeOK', online_cpus' = online_cpus,
         bsp'.i \in {bsp.i, bsp.i + 1},
         \A j \in 0 .. bsp.i - 1 : Backed(j) => Backed(j)'
  PROVE  online_cpus' <= Cardinality({j \in 0 .. bsp'.i - 1 : Backed(j)'})
<1> DEFINE S == {j \in 0 .. bsp.i - 1 : Backed(j)}
           T == {j \in 0 .. bsp'.i - 1 : Backed(j)'}
<1>1. bsp.i \in Nat /\ bsp'.i \in Nat /\ online_cpus \in Nat
  BY SmpConstants DEF BootInv, BootTypeOK
<1>2. IsFiniteSet(0 .. bsp'.i - 1)
  BY <1>1, FS_Interval
<1>3. IsFiniteSet(T)
  BY <1>2, FS_Subset
<1>4. S \subseteq T
  BY <1>1
<1>5. IsFiniteSet(S) /\ Cardinality(S) <= Cardinality(T)
  BY <1>3, <1>4, FS_Subset
<1>6. Cardinality(S) \in Nat /\ Cardinality(T) \in Nat
  BY <1>3, <1>5, FS_CardinalityType
<1>7. online_cpus <= Cardinality(S)
  BY DEF BootInv, CountBacked
<1> QED
  BY <1>1, <1>5, <1>6, <1>7

\* A processor is sent the STARTUP IPI when its turn comes, before it can be
\* backed.
LEMMA BootSendStartup ==
  ASSUME BootInv, SendStartup
  PROVE  BootInv'
<1> USE SmpConstants DEF BootInv
<1>1. bsp.i \in CPU /\ bsp' = [bsp EXCEPT !.pc = "wait"]
  BY DEF SendStartup, BootTypeOK, CPU, Goto
<1>2. BootTypeOK'
  BY <1>1 DEF SendStartup, BootTypeOK
<1>3. TurnsKept'
  BY <1>1 DEF SendStartup, BootTypeOK, TurnsKept, CPU
<1>4. \A j \in 0 .. bsp.i - 1 : Backed(j) => Backed(j)'
  BY <1>1 DEF SendStartup, BootTypeOK, Backed, CPU
<1>5. online_cpus' <= Cardinality({j \in 0 .. bsp'.i - 1 : Backed(j)'})
  BY <1>1, <1>2, <1>4, CountStays DEF SendStartup, BootTypeOK
<1> QED
  BY <1>1, <1>2, <1>3, <1>5 DEF CountBacked, BootTypeOK

\* The boot CPU looks at the mark; a processor that has made it stays backed.
LEMMA BootLook ==
  ASSUME BootInv, WaitForAp \/ TestAp
  PROVE  BootInv'
<1> USE SmpConstants DEF BootInv
<1>1. /\ bsp.i \in CPU /\ bsp'.i = bsp.i /\ bsp.pc # "send" /\ bsp'.pc # "send"
      /\ bsp' \in [pc: {"send", "wait", "test", "count", "give_up"}, i: 1 .. cpu_count]
      /\ bsp'.pc = "count" => state[bsp.i] = "ONLINE"
      /\ UNCHANGED <<state, ap, online_cpus>>
  BY DEF WaitForAp, TestAp, BootTypeOK, CPU, Goto
<1>2. BootTypeOK'
  BY <1>1 DEF BootTypeOK
<1>3. TurnsKept'
  BY <1>1 DEF TurnsKept
<1>4. \A j : Backed(j) => Backed(j)'
  BY <1>1 DEF Backed
<1>5. online_cpus' <= Cardinality({j \in 0 .. bsp'.i - 1 : Backed(j)'})
  BY <1>1, <1>2, <1>4, CountStays
<1>6. bsp'.pc = "count" => Backed(bsp.i)'
  BY <1>1 DEF TurnsKept, Backed
<1> QED
  BY <1>1, <1>2, <1>3, <1>5, <1>6 DEF CountBacked, Backed

\* The processor that is counted joins the backed ones whose turn is over.
LEMMA BootCountAp ==
  ASSUME BootInv, CountAp
  PROVE  BootInv'
<1> USE SmpConstants DEF BootInv
<1>1. /\ bsp.i \in CPU /\ bsp.i \in Nat /\ bsp' = [pc |-> "send", i |-> bsp.i + 1]
      /\ Backed(bsp.i) /\ online_cpus' = online_cpus + 1 /\ online_cpus \in Nat
      /\ UNCHANGED <<state, ap>>
  BY DEF CountAp, BootTypeOK, CPU, NextCpu, CountBacked
<1>2. BootTypeOK'
  BY <1>1 DEF BootTypeOK, CPU
<1>3. TurnsKept'
  BY <1>1 DEF TurnsKept, CPU
<1> DEFINE S == {j \in 0 .. bsp.i - 1 : Backed(j)}
<1>4. {j \in 0 .. bsp'.i - 1 : Backed(j)'} = S \cup {bsp.i}
  BY <1>1 DEF Backed
<1>5. IsFiniteSet(0 .. bsp.i - 1)
  BY <1>1, FS_Interval
<1>6. IsFiniteSet(S) /\ bsp.i \notin S
  BY <1>1, <1>5, FS_Subset
<1>7. Cardinality(S \cup {bsp.i}) = Cardinality(S) + 1 /\ Cardinality(S) \in Nat
  BY <1>6, FS_AddElement, FS_CardinalityType
<1>8. online_cpus <= Cardinality(S)
  BY DEF CountBacked
<1>9. online_cpus' <= Cardinality({j \in 0 .. bsp'.i - 1 : Backed(j)'})
  BY <1>1, <1>4, <1>7, <1>8
<1> QED
  BY <1>1, <1>2, <1>3, <1>9 DEF CountBacked

\* The boot CPU takes back the mark only of a processor it does not count.
LEMMA BootGiveUp ==
  ASSUME BootInv, GiveUp
  PROVE  BootInv'
<1> USE SmpConstants DEF BootInv
<1>1. /\ bsp.i \in CPU /\ bsp.i \in Nat /\ bsp' = [pc |-> "send", i |-> bsp.i + 1]
      /\ state' = [state EXCEPT ![bsp.i] = "OFFLINE"]
      /\ UNCHANGED <<ap, online_cpus>>
  BY DEF GiveUp, BootTypeOK, CPU, NextCpu
<1>2. BootTypeOK'
  BY <1>1 DEF BootTypeOK, CPU
<1>3. TurnsKept'
  BY <1>1 DEF TurnsKept, BootTypeOK, CPU
<1>4. \A j \in 0 .. bsp.i - 1 : Backed(j) => Backed(j)'
  BY <1>1 DEF BootTypeOK, Backed, CPU
<1>5. online_cpus' <= Cardinality({j \in 0 .. bsp'.i - 1 : Backed(j)'})
  BY <1>1, <1>2, <1>4, CountStays
<1> QED
  BY <1>1, <1>2, <1>3, <1>5 DEF CountBacked

\* A processor that comes up adds its mark, whatever the boot CPU is doing.
LEMMA BootApEntry ==
  ASSUME BootInv, NEW i \in CPU, ap_entry(i)
  PROVE  BootInv'
<1> USE SmpConstants DEF BootInv
<1>1. /\ bsp' = bsp /\ online_cpus' = online_cpus
      /\ ap[i] # "waiting" /\ ap' \in {[ap EXCEPT ![i] = "marked"], [ap EXCEPT ![i] = "running"]}
      /\ state' \in {state, [state EXCEPT ![i] = "ONLINE"]}
  BY DEF ap_entry, MarkOnline, CountStarted
<1>2. BootTypeOK'
  BY <1>1 DEF BootTypeOK
<1>3. TurnsKept'
  BY <1>1 DEF TurnsKept, BootTypeOK
<1>4. \A j \in CPU : Backed(j) => Backed(j)'
  BY <1>1 DEF BootTypeOK, Backed
<1>5. bsp.i \in Nat /\ (\A j \in 0 .. bsp.i - 1 : j \in CPU) /\ (bsp.pc = "count" => bsp.i \in CPU)
  BY DEF BootTypeOK, CPU
<1>6. online_cpus' <= Cardinality({j \in 0 .. bsp'.i - 1 : Backed(j)'})
  BY <1>1, <1>2, <1>4, <1>5, CountStays
<1>7. bsp'.pc = "count" => Backed(bsp.i)'
  BY <1>1, <1>4, <1>5 DEF CountBacked
<1> QED
  BY <1>1, <1>2, <1>3, <1>6, <1>7 DEF CountBacked, Backed

\* No step of the lock or of an interrupt touches the start-up.
LEMMA BootStays ==
  ASSUME BootInv, UNCHANGED boot
  PROVE  BootInv'
  BY DEF boot, BootInv, BootTypeOK, TurnsKept, CountBacked, Backed

-----------------------------------------------------------------------------
(* The theorems. *)

LEMMA SmpKept ==
  ASSUME LockInv, BootInv, [SmpNext]_smp_vars
  PROVE  LockInv' /\ BootInv'
<1>1. CASE smp_start_aps /\ UNCHANGED <<locking, intr, level, wanted>>
  BY <1>1, LockStartAps, BootSendStartup, BootLook, BootCountAp, BootGiveUp DEF smp_start_aps
<1>2. ASSUME NEW i \in CPU \ {0}, ap_entry(i) PROVE LockInv' /\ BootInv'
  BY <1>2, LockApEntry, BootApEntry
<1>3. ASSUME NEW i \in CPU, UseLock(i) \/ Interrupt(i) \/ Iret(i) \/ SwitchInterrupts(i)
      PROVE  LockInv' /\ BootInv'
  <2>1. UNCHANGED boot
    BY <1>3 DEF UseLock, Interrupt, Iret, SwitchInterrupts
  <2> QED
    BY <1>3, <2>1, BootStays, LockUse, LockInterrupt, LockIret, LockSwitchInterrupts
<1>4. CASE UNCHANGED smp_vars
  <2>1. UNCHANGED boot
    BY <1>4 DEF smp_vars
  <2>2. LockInv'
    BY <1>4 DEF smp_vars, boot, locking, LockInv, LockTypeOK, OneHolder, LevelsNest, FlagsKept,
       RegisterKept, MemoryKept, Before
  <2> QED
    BY <2>1, <2>2, BootStays
<1> QED
  BY <1>1, <1>2, <1>3, <1>4 DEF SmpNext

\* Both inductive invariants hold for every number of processors, whenever and
\* in whatever order these come up and are interrupted (smp_start_aps, ap_entry,
\* irqlock_acquire, irqlock_release).
THEOREM SmpInvariant == SmpSpec => [](LockInv /\ BootInv)
<1>1. SmpInit => LockInv /\ BootInv
  BY LockInit, BootInit
<1>2. LockInv /\ BootInv /\ [SmpNext]_smp_vars => (LockInv /\ BootInv)'
  BY SmpKept
<1> QED
  BY <1>1, <1>2, PTL DEF SmpSpec

LEMMA HolderIsOne ==
  ASSUME LockInv PROVE LockSafe
<1> DEFINE H == {h \in CPU \X Level : at[h[1]][h[2]] \in Inside}
<1>1. Cardinality(H) <= 1
  <2> HIDE DEF H
  <2>1. CASE H = {}
    BY <2>1, FS_EmptySet
  <2>2. CASE H # {}
    <3>1. PICK h \in H : TRUE
      BY <2>2
    <3>2. ASSUME NEW g \in H PROVE g = h
      <4>1. h[1] = g[1] /\ h[2] = g[2]
        BY <3>1 DEF H, LockInv, OneHolder
      <4> QED
        BY <4>1 DEF H
    <3>3. H = {h}
      BY <3>1, <3>2
    <3>4. Cardinality(H) = 1
      BY <3>3, FS_Singleton
    <3> QED
      BY <3>4
  <2> QED
    BY <2>1, <2>2
<1> QED
  BY <1>1 DEF LockInv, OneHolder, LevelsNest, LockTypeOK, LockSafe

\* Mutual exclusion of the interrupt-safe lock, and no processor that waits for
\* itself, for every number of processors (irqlock_acquire).
THEOREM LockIsSafe == SmpSpec => []LockSafe
  BY SmpInvariant, HolderIsOne, PTL

\* Every release restores the interrupt flag the acquire had found, for every
\* number of processors (irqlock_release).
THEOREM InterruptsAreRestored == SmpSpec => []InterruptsRestored
<1>1. LockInv => InterruptsRestored
  BY DEF LockInv, LockTypeOK, FlagsKept, RegisterKept, Before, InterruptsRestored, At, Level
<1> QED
  BY <1>1, SmpInvariant, PTL

LEMMA BackedAreCounted ==
  ASSUME BootInv PROVE OnlineIsBacked
<1> DEFINE S == {j \in 0 .. bsp.i - 1 : Backed(j)}
           T == {i \in CPU : state[i] = "ONLINE" /\ ap[i] \in {"marked", "running"}}
<1>1. bsp.i \in 1 .. cpu_count /\ cpu_count \in Nat /\ online_cpus \in Nat
  BY SmpConstants DEF BootInv, BootTypeOK
<1>2. S \subseteq T
  BY <1>1 DEF Backed, CPU
<1>3. IsFiniteSet(CPU)
  BY <1>1, FS_Interval DEF CPU
<1>4. IsFiniteSet(T)
  BY <1>3, FS_Subset
<1>5. IsFiniteSet(S) /\ Cardinality(S) <= Cardinality(T)
  BY <1>2, <1>4, FS_Subset
<1>6. Cardinality(S) \in Nat /\ Cardinality(T) \in Nat
  BY <1>4, <1>5, FS_CardinalityType
<1>7. online_cpus <= Cardinality(S)
  BY DEF BootInv, CountBacked
<1> QED
  BY <1>1, <1>5, <1>6, <1>7 DEF OnlineIsBacked

\* Every processor that was counted is online for good, for every number of
\* processors and however late each of them comes up (smp_start_aps).
THEOREM CountIsBacked == SmpSpec => []OnlineIsBacked
  BY SmpInvariant, BackedAreCounted, PTL

-----------------------------------------------------------------------------
(* VmScheduler: the loops. *)

\* The sum over the nodes.
SumStep(e, n, c) == e[n] + c
AnyOf(S) == CHOOSE x \in S : TRUE
Tot == INSTANCE ListLemmas WITH step <- SumStep, pick <- AnyOf

\* The loop of scheduler_evacuate_node.
Leave(p, v, n) ==
    LET target == scheduler_schedule(p.vm_count, v, {n})
    IN  IF p.host[v] = n /\ target # Nil THEN migrate(p, v, target) ELSE p
LeaveStep(e, i, p) == Leave(p, e.list[i], e.node)
Evac == INSTANCE ListLemmas WITH step <- LeaveStep, pick <- Max

VmState == {"CREATED", "RUNNING", "PAUSED", "STOPPED"}
ActiveVms == {v \in Known : Active(vm_state[v])}

\* No VM is twice in the list, and the maps are total.
ListOK ==
    /\ Tot!Distinct(vms)
    /\ vm_state \in [VM -> VmState \cup {Nil}]
    /\ host \in [VM -> Node \cup {Nil}]

\* The counters add up to r but for a multiple of 2^32.
Balanced(count, r) == \E k \in Int : TotalOf(count) = r + k * U32

\* The inductive invariant.
SchedulerInv ==
    /\ TypeOK
    /\ ListOK
    /\ RunningCountExact
    /\ Balanced(vm_count, running_count)

-----------------------------------------------------------------------------
(* Counters. *)

LEMMA Modulus == U32 \in Nat \ {0}
  BY SchedulerConstants

LEMMA Increment ==
  ASSUME NEW x \in 0 .. U32 - 1
  PROVE  /\ Inc(x) \in 0 .. U32 - 1
         /\ Inc(x) = IF x = U32 - 1 THEN x + 1 - U32 ELSE x + 1
<1>1. CASE x = U32 - 1
  <2>1. U32 % U32 = 0
    BY Modulus
  <2> QED
    BY <1>1, <2>1, Modulus DEF Inc
<1>2. CASE x # U32 - 1
  <2>1. x + 1 \in 0 .. U32 - 1
    BY <1>2, Modulus
  <2>2. (x + 1) % U32 = x + 1
    BY <2>1, Modulus
  <2> QED
    BY <1>2, <2>1, <2>2 DEF Inc
<1> QED
  BY <1>1, <1>2

LEMMA Decrement ==
  ASSUME NEW x \in 0 .. U32 - 1
  PROVE  /\ Dec(x) \in 0 .. U32 - 1
         /\ Dec(x) = IF x = 0 THEN x - 1 + U32 ELSE x - 1
<1>1. CASE x = 0
  <2>1. x + U32 - 1 = U32 - 1 /\ U32 - 1 \in 0 .. U32 - 1
    BY <1>1, Modulus
  <2>2. (U32 - 1) % U32 = U32 - 1
    BY Modulus
  <2> QED
    BY <1>1, <2>1, <2>2, Modulus DEF Dec
<1>2. CASE x # 0
  <2>1. (x + U32 - 1) % U32 = x - 1
    BY <1>2, Modulus, Tot!CountDown
  <2> QED
    BY <1>2, <2>1, Modulus DEF Dec
<1> QED
  BY <1>1, <1>2

LEMMA Remainder ==
  ASSUME NEW r \in 0 .. U32 - 1, NEW k \in Int
  PROVE  (r + k * U32) % U32 = r
  BY Modulus

LEMMA NodeFinite == IsFiniteSet(Node)
<1>1. Nodes \in Seq(Node)
  BY SchedulerConstants
<1>2. IsFiniteSet(1 .. Len(Nodes))
  <2>1. \A n \in Nat : IsFiniteSet(1 .. n)
    BY FS_Interval
  <2> QED
    BY <1>1, <2>1
<1>3. Nodes \in Surjection(1 .. Len(Nodes), Node)
  <2>1. Nodes \in [1 .. Len(Nodes) -> Node]
    BY <1>1
  <2>2. \A n \in Node : \E i \in 1 .. Len(Nodes) : Nodes[i] = n
    BY <2>1 DEF Node, Range
  <2> QED
    BY <2>1, <2>2 DEF Surjection
<1> QED
  BY <1>2, <1>3, FS_Surjection

LEMMA TotalIsFold ==
  ASSUME NEW count
  PROVE  TotalOf(count) = Tot!Fold(count, 0, Node)
  BY DEF TotalOf, FoldSet, MapThenFoldSet, Tot!Fold, SumStep, AnyOf

\* The folds' own finiteness is that of the library.
LEMMA NodeFolds ==
  /\ Tot!IsFiniteSet(Node)
  /\ Tot!Picks(Node)
<1>1. Tot!IsFiniteSet(Node)
  BY NodeFinite DEF IsFiniteSet, Tot!IsFiniteSet
<1>2. Tot!Picks(Node)
  BY DEF Tot!Picks, AnyOf
<1> QED
  BY <1>1, <1>2

\* Changing one counter changes the sum by as much.
LEMMA TotalChanges ==
  ASSUME NEW f \in [Node -> Int], NEW n \in Node, NEW w \in Int
  PROVE  /\ TotalOf(f) \in Int
         /\ TotalOf([f EXCEPT ![n] = w]) = TotalOf(f) + w - f[n]
<1> DEFINE g == [f EXCEPT ![n] = w]
           J == [ns \in SUBSET Node |-> Int]
           I == [ns \in SUBSET Node |->
                   {Tot!Fold(f, 0, ns) + (IF n \in ns THEN w - f[n] ELSE 0)}]
<1>1. \A ns \in SUBSET Node : Tot!Fold(f, 0, ns) \in Int
  <2> SUFFICES ASSUME NEW ns \in SUBSET Node PROVE Tot!Fold(f, 0, ns) \in Int
    OBVIOUS
  <2>1. Tot!IsFiniteSet(ns) /\ Tot!Picks(ns)
    <3>1. IsFiniteSet(ns)
      BY NodeFinite, FS_Subset
    <3> QED
      BY <3>1, NodeFolds DEF Tot!Picks, IsFiniteSet, Tot!IsFiniteSet
  <2> DEFINE K == [t \in SUBSET ns |-> Int]
  <2>2. 0 \in K[{}]
    OBVIOUS
  <2>3. \A t \in SUBSET ns : t # {} => \A c \in K[t \ {AnyOf(t)}] : SumStep(f, AnyOf(t), c) \in K[t]
    <3> SUFFICES ASSUME NEW t \in SUBSET ns, t # {}, NEW c \in Int PROVE SumStep(f, AnyOf(t), c) \in Int
      OBVIOUS
    <3>1. AnyOf(t) \in Node
      BY DEF AnyOf
    <3> QED
      BY <3>1 DEF SumStep
  <2> HIDE DEF K
  <2>4. Tot!Fold(f, 0, ns) \in K[ns]
    BY <2>1, <2>2, <2>3, Tot!FoldInduction
  <2> QED
    BY <2>4 DEF K
<1>2. 0 \in I[{}]
  <2>1. Tot!Fold(f, 0, {}) = 0
    BY Tot!FoldEmpty
  <2> QED
    BY <2>1
<1>3. ASSUME NEW ns \in SUBSET Node, ns # {}, NEW c \in I[ns \ {AnyOf(ns)}]
      PROVE  SumStep(g, AnyOf(ns), c) \in I[ns]
  <2> DEFINE x == AnyOf(ns)
             t == ns \ {x}
  <2>1. x \in ns /\ x \in Node /\ t \in SUBSET Node
    BY <1>3 DEF AnyOf
  <2>2. Tot!IsFiniteSet(ns) /\ Tot!Picks(ns)
    <3>1. IsFiniteSet(ns)
      BY NodeFinite, FS_Subset
    <3> QED
      BY <3>1, NodeFolds DEF Tot!Picks, IsFiniteSet, Tot!IsFiniteSet
  <2>3. Tot!Fold(f, 0, ns) = SumStep(f, x, Tot!Fold(f, 0, t))
    BY <1>3, <2>2, Tot!FoldStep
  <2>4. c = Tot!Fold(f, 0, t) + (IF n \in t THEN w - f[n] ELSE 0)
    BY <1>3, <2>1
  <2>5. n \in t <=> (n \in ns /\ n # x)
    OBVIOUS
  <2>6. g[x] = IF x = n THEN w ELSE f[x]
    BY <2>1
  <2>7. Tot!Fold(f, 0, t) \in Int /\ f[x] \in Int /\ f[n] \in Int
    BY <1>1, <2>1
  <2> HIDE DEF x, t, g
  <2>8. SumStep(g, x, c) = Tot!Fold(f, 0, ns) + (IF n \in ns THEN w - f[n] ELSE 0)
    BY <2>1, <2>3, <2>4, <2>5, <2>6, <2>7 DEF SumStep
  <2> QED
    BY <2>8 DEF x
<1>4. Tot!Fold(g, 0, Node) \in I[Node]
  <2> HIDE DEF I, g
  <2> QED
    BY <1>2, <1>3, NodeFolds, Tot!FoldInduction
<1>5. Tot!Fold(g, 0, Node) = Tot!Fold(f, 0, Node) + (w - f[n])
  BY <1>4
<1> QED
  BY <1>1, <1>5, TotalIsFold

\* One counter up or down takes the sum along, modulo 2^32.
Counts == [Node -> 0 .. U32 - 1]

LEMMA OneUp ==
  ASSUME NEW f \in Counts, NEW n \in Node, NEW r \in Int, Balanced(f, r)
  PROVE  /\ [f EXCEPT ![n] = Inc(@)] \in Counts
         /\ Balanced([f EXCEPT ![n] = Inc(@)], r + 1)
<1>1. f[n] \in 0 .. U32 - 1 /\ f \in [Node -> Int] /\ U32 \in Int
  BY Modulus DEF Counts
<1>2. Inc(f[n]) \in 0 .. U32 - 1 /\ \E j \in {0, 1} : Inc(f[n]) = f[n] + 1 - j * U32
  <2>1. Inc(f[n]) \in 0 .. U32 - 1 /\ (Inc(f[n]) = f[n] + 1 - 0 * U32 \/ Inc(f[n]) = f[n] + 1 - 1 * U32)
    BY <1>1, Increment
  <2> QED
    BY <2>1
<1>3. PICK j \in {0, 1} : Inc(f[n]) = f[n] + 1 - j * U32
  BY <1>2
<1>4. PICK k \in Int : TotalOf(f) = r + k * U32
  BY DEF Balanced
<1>5. TotalOf([f EXCEPT ![n] = Inc(f[n])]) = TotalOf(f) + Inc(f[n]) - f[n]
  <2>1. Inc(f[n]) \in Int
    BY <1>1, <1>2
  <2> QED
    BY <1>1, <2>1, TotalChanges, Zenon
<1>6. TotalOf([f EXCEPT ![n] = Inc(f[n])]) = r + 1 + (k - j) * U32
  BY <1>1, <1>3, <1>4, <1>5
<1>7. k - j \in Int
  OBVIOUS
<1> QED
  BY <1>2, <1>6, <1>7 DEF Balanced, Counts

LEMMA OneDown ==
  ASSUME NEW f \in Counts, NEW n \in Node, NEW r \in Int, Balanced(f, r)
  PROVE  /\ [f EXCEPT ![n] = Dec(@)] \in Counts
         /\ Balanced([f EXCEPT ![n] = Dec(@)], r - 1)
<1>1. f[n] \in 0 .. U32 - 1 /\ f \in [Node -> Int] /\ U32 \in Int
  BY Modulus DEF Counts
<1>2. Dec(f[n]) \in 0 .. U32 - 1 /\ \E j \in {0, 1} : Dec(f[n]) = f[n] - 1 + j * U32
  <2>1. Dec(f[n]) \in 0 .. U32 - 1 /\ (Dec(f[n]) = f[n] - 1 + 0 * U32 \/ Dec(f[n]) = f[n] - 1 + 1 * U32)
    BY <1>1, Decrement
  <2> QED
    BY <2>1
<1>3. PICK j \in {0, 1} : Dec(f[n]) = f[n] - 1 + j * U32
  BY <1>2
<1>4. PICK k \in Int : TotalOf(f) = r + k * U32
  BY DEF Balanced
<1>5. TotalOf([f EXCEPT ![n] = Dec(f[n])]) = TotalOf(f) + Dec(f[n]) - f[n]
  <2>1. Dec(f[n]) \in Int
    BY <1>1, <1>2
  <2> QED
    BY <1>1, <2>1, TotalChanges, Zenon
<1>6. TotalOf([f EXCEPT ![n] = Dec(f[n])]) = r - 1 + (k + j) * U32
  BY <1>1, <1>3, <1>4, <1>5
<1>7. k + j \in Int
  OBVIOUS
<1> QED
  BY <1>2, <1>6, <1>7 DEF Balanced, Counts

-----------------------------------------------------------------------------
(* The life cycle. *)

\* There are fewer active VMs than a counter can hold.
LEMMA ActiveBounded ==
  ASSUME NEW S \in SUBSET VM
  PROVE  IsFiniteSet(S) /\ Cardinality(S) \in 0 .. U32 - 1
<1>1. IsFiniteSet(VM) /\ Cardinality(VM) < U32
  BY SchedulerConstants
<1>2. IsFiniteSet(S) /\ Cardinality(S) <= Cardinality(VM)
  BY <1>1, FS_Subset
<1>3. Cardinality(S) \in Nat /\ Cardinality(VM) \in Nat
  BY <1>1, <1>2, FS_CardinalityType
<1> QED
  BY <1>1, <1>2, <1>3, Modulus

LEMMA TotalInit == ASSUME Init PROVE TotalOf(vm_count) = 0
<1> DEFINE I == [ns \in SUBSET Node |-> {0}]
<1>1. 0 \in I[{}]
  OBVIOUS
<1>2. \A ns \in SUBSET Node : ns # {} =>
        \A c \in I[ns \ {AnyOf(ns)}] : SumStep(vm_count, AnyOf(ns), c) \in I[ns]
  BY DEF Init, AnyOf, SumStep
<1> HIDE DEF I
<1>3. Tot!Fold(vm_count, 0, Node) \in I[Node]
  BY <1>1, <1>2, NodeFolds, Tot!FoldInduction
<1> QED
  BY <1>3, TotalIsFold DEF I

LEMMA SchedulerInit == Init => SchedulerInv
<1> SUFFICES ASSUME Init PROVE SchedulerInv
  OBVIOUS
<1>1. Known = {}
  BY DEF Init, Known, Range
<1>2. TypeOK
  BY <1>1, Modulus, SchedulerConstants DEF Init, TypeOK
<1>3. ListOK
  BY DEF Init, ListOK, Tot!Distinct
<1>4. {v \in Known : Active(vm_state[v])} = {}
  BY <1>1
<1>5. RunningCountExact
  BY <1>4, FS_EmptySet DEF Init, RunningCountExact
<1>6. TotalOf(vm_count) = 0
  BY TotalInit
<1>7. Balanced(vm_count, running_count)
  <2>1. 0 = 0 + 0 * U32
    BY Modulus
  <2> QED
    BY <1>6, <2>1 DEF Init, Balanced
<1> QED
  BY <1>2, <1>3, <1>5, <1>7 DEF SchedulerInv

\* One VM more or less is active: the counter follows without a wrap-around.
LEMMA OneMore ==
  ASSUME NEW A \in SUBSET VM, NEW v \in VM, v \notin A
  PROVE  /\ Inc(Cardinality(A)) = Cardinality(A) + 1
         /\ Cardinality(A \cup {v}) = Cardinality(A) + 1
<1>1. IsFiniteSet(A) /\ Cardinality(A) \in 0 .. U32 - 1
  BY ActiveBounded
<1>2. Cardinality(A \cup {v}) = Cardinality(A) + 1
  BY <1>1, FS_AddElement
<1>3. Cardinality(A \cup {v}) \in 0 .. U32 - 1
  BY ActiveBounded
<1>4. Cardinality(A) # U32 - 1
  BY <1>1, <1>2, <1>3, Modulus
<1> QED
  BY <1>1, <1>2, <1>4, Increment

LEMMA OneLess ==
  ASSUME NEW A \in SUBSET VM, NEW v \in A
  PROVE  /\ Dec(Cardinality(A)) = Cardinality(A) - 1
         /\ Cardinality(A \ {v}) = Cardinality(A) - 1
<1>1. IsFiniteSet(A) /\ Cardinality(A) \in 0 .. U32 - 1
  BY ActiveBounded
<1>2. Cardinality(A \ {v}) = Cardinality(A) - 1
  BY <1>1, FS_RemoveElement
<1>3. Cardinality(A \ {v}) \in 0 .. U32 - 1
  BY ActiveBounded
<1>4. Cardinality(A) # 0
  BY <1>1, <1>2, <1>3, Modulus
<1> QED
  BY <1>1, <1>2, <1>4, Decrement

\* What the invariant says of one VM.
LEMMA KnownVm ==
  ASSUME SchedulerInv
  PROVE  /\ Known \subseteq VM /\ ActiveVms \subseteq Known /\ ActiveVms \in SUBSET VM
         /\ running_count = Cardinality(ActiveVms) /\ running_count \in 0 .. U32 - 1
         /\ running_count \in Int
         /\ vm_count \in Counts /\ Balanced(vm_count, running_count)
         /\ Local \in Node
         /\ \A v \in VM : /\ Active(vm_state[v]) <=> v \in ActiveVms
                          /\ v \in Known <=> vm_state[v] \in VmState
                          /\ v \in Known <=> host[v] \in Node
<1> USE DEF SchedulerInv
<1>1. Known \subseteq VM
  BY DEF Known, Range, TypeOK
<1>2. running_count = Cardinality(ActiveVms) /\ running_count \in 0 .. U32 - 1
  BY DEF RunningCountExact, ActiveVms, TypeOK
<1>3. Nil \notin VmState /\ Nil \notin Node /\ Local \in Node
  BY SchedulerConstants DEF VmState
<1>4. ASSUME NEW v \in VM
      PROVE  /\ Active(vm_state[v]) <=> v \in ActiveVms
             /\ v \in Known <=> vm_state[v] \in VmState
             /\ v \in Known <=> host[v] \in Node
  BY <1>3 DEF TypeOK, Active, ActiveVms, VmState
<1> QED
  BY <1>1, <1>2, <1>3, <1>4, Modulus DEF ActiveVms, TypeOK, Counts

LEMMA StartKeeps ==
  ASSUME SchedulerInv, NEW v \in VM, virt_vm_start(v)
  PROVE  SchedulerInv'
<1>1. /\ v \in Known /\ v \notin ActiveVms
      /\ vm_state' = [vm_state EXCEPT ![v] = "RUNNING"]
      /\ running_count' = Inc(running_count)
      /\ vm_count' = [vm_count EXCEPT ![Local] = Inc(@)]
      /\ UNCHANGED <<vms, host, online>> /\ Known' = Known
  BY KnownVm DEF virt_vm_start, Active, Known, VmState
<1>2. ListOK'
  BY <1>1 DEF SchedulerInv, ListOK, VmState
<1>3. ActiveVms' = ActiveVms \cup {v}
  BY <1>1, KnownVm DEF ActiveVms, Active, SchedulerInv, ListOK
<1>4. running_count' = running_count + 1 /\ Cardinality(ActiveVms') = running_count + 1
  BY <1>1, <1>3, KnownVm, OneMore
<1>5. RunningCountExact'
  BY <1>4 DEF RunningCountExact, ActiveVms
<1>6. vm_count' \in Counts /\ Balanced(vm_count', running_count')
  BY <1>1, <1>4, KnownVm, OneUp
<1>7. running_count' \in 0 .. U32 - 1
  BY <1>1, KnownVm, Increment
<1>8. TypeOK'
  BY <1>1, <1>2, <1>6, <1>7, SchedulerConstants DEF SchedulerInv, TypeOK, Counts, ListOK
<1> QED
  BY <1>2, <1>5, <1>6, <1>8 DEF SchedulerInv

LEMMA StopKeeps ==
  ASSUME SchedulerInv, NEW v \in VM, virt_vm_stop(v)
  PROVE  SchedulerInv'
<1>1. /\ v \in Known /\ v \in ActiveVms
      /\ vm_state' = [vm_state EXCEPT ![v] = "STOPPED"]
      /\ running_count' = Dec(running_count)
      /\ vm_count' = [vm_count EXCEPT ![Local] = Dec(@)]
      /\ UNCHANGED <<vms, host, online>> /\ Known' = Known
  BY KnownVm DEF virt_vm_stop, Known, VmState
<1>2. ListOK'
  BY <1>1 DEF SchedulerInv, ListOK, VmState
<1>3. ActiveVms' = ActiveVms \ {v}
  BY <1>1, KnownVm DEF ActiveVms, Active, SchedulerInv, ListOK
<1>4. running_count' = running_count - 1 /\ Cardinality(ActiveVms') = running_count - 1
  BY <1>1, <1>3, KnownVm, OneLess
<1>5. RunningCountExact'
  BY <1>4 DEF RunningCountExact, ActiveVms
<1>6. vm_count' \in Counts /\ Balanced(vm_count', running_count')
  BY <1>1, <1>4, KnownVm, OneDown
<1>7. running_count' \in 0 .. U32 - 1
  BY <1>1, KnownVm, Decrement
<1>8. TypeOK'
  BY <1>1, <1>2, <1>6, <1>7, SchedulerConstants DEF SchedulerInv, TypeOK, Counts, ListOK
<1> QED
  BY <1>2, <1>5, <1>6, <1>8 DEF SchedulerInv

\* Pausing and resuming leave the VM active.
LEMMA PauseKeeps ==
  ASSUME SchedulerInv, NEW v \in VM, virt_vm_pause(v) \/ virt_vm_resume(v)
  PROVE  SchedulerInv'
<1>1. PICK ns \in {"RUNNING", "PAUSED"} :
         /\ v \in Known /\ v \in ActiveVms
         /\ vm_state' = [vm_state EXCEPT ![v] = ns]
         /\ UNCHANGED <<vms, host, running_count, vm_count, online>> /\ Known' = Known
  BY KnownVm DEF virt_vm_pause, virt_vm_resume, Known, VmState, Active
<1>2. ListOK'
  BY <1>1 DEF SchedulerInv, ListOK, VmState
<1>3. ActiveVms' = ActiveVms
  BY <1>1, KnownVm DEF ActiveVms, Active, SchedulerInv, ListOK
<1>4. RunningCountExact'
  BY <1>1, <1>3, KnownVm DEF RunningCountExact, ActiveVms
<1>5. TypeOK'
  BY <1>1, <1>2, SchedulerConstants DEF SchedulerInv, TypeOK, Counts, ListOK
<1> QED
  BY <1>1, <1>2, <1>4, <1>5 DEF SchedulerInv

\* A restart stops an active VM first: both counters come back to where they were.
LEMMA RestartKeeps ==
  ASSUME SchedulerInv, NEW v \in VM, virt_vm_restart(v)
  PROVE  SchedulerInv'
<1>1. CASE v \in ActiveVms
  <2>1. /\ v \in Known /\ vm_state' = [vm_state EXCEPT ![v] = "RUNNING"]
        /\ running_count' = Inc(Dec(running_count))
        /\ vm_count' = [vm_count EXCEPT ![Local] = Inc(Dec(@))]
        /\ UNCHANGED <<vms, host, online>> /\ Known' = Known
    BY <1>1, KnownVm DEF virt_vm_restart, Known
  <2>2. \A x \in 0 .. U32 - 1 : Inc(Dec(x)) = x
    BY Increment, Decrement, Modulus
  <2>3. UNCHANGED <<running_count, vm_count>>
    BY <2>1, <2>2, KnownVm DEF Counts
  <2>4. ListOK'
    BY <2>1 DEF SchedulerInv, ListOK, VmState
  <2>5. ActiveVms' = ActiveVms
    BY <1>1, <2>1, KnownVm DEF ActiveVms, Active, SchedulerInv, ListOK
  <2>6. RunningCountExact'
    BY <2>3, <2>5, KnownVm DEF RunningCountExact, ActiveVms
  <2>7. TypeOK'
    <3>1. ASSUME NEW w \in VM
          PROVE  /\ vm_state'[w] \in {Nil, "CREATED", "RUNNING", "PAUSED", "STOPPED"}
                 /\ w \in Known <=> vm_state'[w] # Nil
      <4>1. CASE w = v
        <5>1. vm_state'[v] = "RUNNING" /\ v \in Known
          BY <2>1 DEF SchedulerInv, ListOK
        <5>2. "RUNNING" # Nil
          BY <2>1, KnownVm, SchedulerConstants
        <5> QED
          BY <4>1, <5>1, <5>2
      <4>2. CASE w # v
        BY <2>1, <4>2 DEF SchedulerInv, TypeOK
      <4> QED
        BY <4>1, <4>2
    <3> QED
      BY <2>1, <2>3, <3>1 DEF SchedulerInv, TypeOK
  <2> QED
    BY <2>3, <2>4, <2>6, <2>7 DEF SchedulerInv
<1>2. CASE v \notin ActiveVms
  <2>1. virt_vm_start(v)
    BY <1>2, KnownVm DEF virt_vm_restart, virt_vm_start, Active, VmState
  <2> QED
    BY <2>1, StartKeeps
<1> QED
  BY <1>1, <1>2

\* A new VM is linked in at the front of the list.
LEMMA CreateKeeps ==
  ASSUME SchedulerInv, NEW v \in VM, virt_vm_create(v)
  PROVE  SchedulerInv'
<1>1. /\ vms \in Seq(VM) /\ vms' = <<v>> \o vms
      /\ v \notin Tot!Elements(vms) /\ Tot!Distinct(vms)
  BY DEF SchedulerInv, TypeOK, ListOK, virt_vm_create, Known, Range, Tot!Elements
<1>2. vms' \in Seq(VM)
  BY ONLY <1>1, v \in VM, Tot!LinkIn, Zenon
<1>3. Tot!Distinct(vms')
  BY ONLY <1>1, v \in VM, Tot!LinkIn, Zenon
<1>4. Tot!Elements(vms') = Tot!Elements(vms) \cup {v}
  BY ONLY <1>1, v \in VM, Tot!LinkIn, ZenonT(60)
<1>5. Known' = Known \cup {v} /\ v \notin Known
  BY <1>1, <1>4 DEF Known, Range, Tot!Elements
<1>6. /\ vm_state' = [vm_state EXCEPT ![v] = "CREATED"]
      /\ host' = [host EXCEPT ![v] = Local]
      /\ UNCHANGED <<running_count, vm_count, online>>
  BY DEF virt_vm_create
<1>7. ListOK'
  BY <1>3, <1>6, SchedulerConstants DEF SchedulerInv, ListOK, VmState
<1>8. ActiveVms' = ActiveVms
  BY <1>5, <1>6, KnownVm DEF ActiveVms, Active, SchedulerInv, ListOK
<1>9. RunningCountExact'
  BY <1>6, <1>8, KnownVm DEF RunningCountExact, ActiveVms
<1>10. TypeOK'
  <2>1. \A w \in VM : /\ vm_state'[w] \in VmState \cup {Nil} /\ host'[w] \in Node \cup {Nil}
                      /\ w \in Known' <=> vm_state'[w] # Nil
                      /\ w \in Known' <=> host'[w] # Nil
    BY <1>5, <1>6, <1>7, SchedulerConstants DEF SchedulerInv, TypeOK, ListOK, VmState
  <2> QED
    BY <1>2, <1>6, <2>1 DEF SchedulerInv, TypeOK, VmState
<1> QED
  BY <1>6, <1>7, <1>9, <1>10 DEF SchedulerInv

\* A VM that is destroyed is unlinked, and stopped when it was active.
LEMMA DestroyKeeps ==
  ASSUME SchedulerInv, NEW v \in VM, virt_vm_destroy(v)
  PROVE  SchedulerInv'
<1>1. v \in Known /\ vms \in Seq(VM) /\ Tot!Distinct(vms)
  BY DEF SchedulerInv, TypeOK, ListOK, virt_vm_destroy
<1>2. \E p \in 1 .. Len(vms) : vms[p] = v /\ vms' = RemoveAt(vms, p)
  <2> DEFINE J == {i \in 1 .. Len(vms) : vms[i] = v}
  <2>1. \E i \in 1 .. Len(vms) : vms[i] = v
    BY <1>1 DEF Known, Range
  <2>2. J \subseteq Nat /\ J # {}
    BY <2>1
  <2>3. \E m \in J : \A y \in J : m <= y
    BY <2>2, Tot!LeastMember
  <2>4. Min(J) \in J
    BY <2>3 DEF Min
  <2>5. vms' = RemoveAt(vms, Min(J))
    BY <2>1, <2>2 DEF virt_vm_destroy, RemoveFirst, SelectInSeq
  <2> QED
    BY <2>4, <2>5
<1>3. PICK p \in 1 .. Len(vms) : vms[p] = v /\ vms' = RemoveAt(vms, p)
  BY <1>2
<1>4. /\ vms \in Seq(VM) /\ p \in 1 .. Len(vms) /\ Tot!Distinct(vms)
      /\ vms' = SubSeq(vms, 1, p - 1) \o SubSeq(vms, p + 1, Len(vms))
  BY <1>1, <1>3 DEF RemoveAt
<1>5. vms' \in Seq(VM)
  BY ONLY <1>4, Tot!Unlink, Zenon
<1>6. Tot!Distinct(vms')
  BY ONLY <1>4, Tot!Unlink, Zenon
<1>7. Tot!Elements(vms') = Tot!Elements(vms) \ {vms[p]}
  BY ONLY <1>4, Tot!Unlink, Zenon
<1>8. Known' = Known \ {v}
  BY <1>3, <1>7 DEF Known, Range, Tot!Elements
<1>9. /\ vm_state' = [vm_state EXCEPT ![v] = Nil]
      /\ host' = [host EXCEPT ![v] = Nil]
      /\ UNCHANGED online
  BY DEF virt_vm_destroy
<1>10. ListOK'
  BY <1>6, <1>9 DEF SchedulerInv, ListOK
<1>11. ActiveVms' = ActiveVms \ {v}
  BY <1>8, <1>9, KnownVm DEF ActiveVms, Active, SchedulerInv, ListOK
<1>12. /\ RunningCountExact' /\ running_count' \in 0 .. U32 - 1
       /\ vm_count' \in Counts /\ Balanced(vm_count', running_count')
  <2>1. CASE v \in ActiveVms
    <3>1. /\ running_count' = Dec(running_count)
          /\ vm_count' = [vm_count EXCEPT ![Local] = Dec(@)]
      BY <2>1, KnownVm DEF virt_vm_destroy
    <3>2. running_count' = running_count - 1 /\ Cardinality(ActiveVms') = running_count - 1
      BY <1>11, <2>1, <3>1, KnownVm, OneLess
    <3>3. RunningCountExact'
      BY <3>2 DEF RunningCountExact, ActiveVms
    <3>4. vm_count' \in Counts /\ Balanced(vm_count', running_count')
      BY <3>1, <3>2, KnownVm, OneDown
    <3> QED
      BY <3>1, <3>3, <3>4, KnownVm, Decrement
  <2>2. CASE v \notin ActiveVms
    <3>1. UNCHANGED <<running_count, vm_count>> /\ ActiveVms' = ActiveVms
      BY <1>11, <2>2, KnownVm DEF virt_vm_destroy
    <3> QED
      BY <3>1, KnownVm DEF RunningCountExact, ActiveVms
  <2> QED
    BY <2>1, <2>2
<1>13. TypeOK'
  <2>1. \A w \in VM : /\ vm_state'[w] \in VmState \cup {Nil} /\ host'[w] \in Node \cup {Nil}
                      /\ w \in Known' <=> vm_state'[w] # Nil
                      /\ w \in Known' <=> host'[w] # Nil
    BY <1>8, <1>9, <1>10 DEF SchedulerInv, TypeOK, ListOK, VmState
  <2> QED
    BY <1>5, <1>9, <1>12, <2>1 DEF SchedulerInv, TypeOK, VmState, Counts
<1> QED
  BY <1>10, <1>12, <1>13 DEF SchedulerInv

-----------------------------------------------------------------------------
(* Placement. *)

\* The placements that keep the counters balanced and every known VM on a node.
Placed ==
    {p \in [host : [VM -> Node \cup {Nil}], vm_count : Counts] :
        /\ \A v \in VM : p.host[v] \in Node <=> v \in Known
        /\ Balanced(p.vm_count, running_count)}

LEMMA PlacementNow ==
  ASSUME SchedulerInv
  PROVE  Placement \in Placed
  BY KnownVm DEF Placement, Placed, SchedulerInv, ListOK

\* Moving a VM takes one from its host and gives one to the target.
LEMMA MigrateKeeps ==
  ASSUME SchedulerInv, NEW p \in Placed, NEW v \in VM, NEW target \in Node
  PROVE  migrate(p, v, target) \in Placed
<1>1. CASE ~ (virt_vm_can_migrate(v) /\ p.host[v] # target)
  BY <1>1 DEF migrate
<1>2. CASE virt_vm_can_migrate(v) /\ p.host[v] # target
  <2> DEFINE from == p.host[v]
             less == [p.vm_count EXCEPT ![from] = Dec(@)]
             more == [less EXCEPT ![target] = Inc(@)]
             q == migrate(p, v, target)
  <2>1. v \in Known /\ running_count \in Int
    BY <1>2, KnownVm DEF virt_vm_can_migrate
  <2>2. from \in Node /\ from # target
    BY <1>2, <2>1 DEF Placed
  <2>3. p.vm_count \in Counts /\ Balanced(p.vm_count, running_count)
    BY DEF Placed
  <2>4. less \in Counts /\ Balanced(less, running_count - 1)
    BY <2>1, <2>2, <2>3, OneDown
  <2>5. running_count - 1 \in Int /\ (running_count - 1) + 1 = running_count
    BY <2>1
  <2>6. more \in Counts /\ Balanced(more, running_count)
    <3> HIDE DEF less
    <3>1. more \in Counts /\ Balanced(more, (running_count - 1) + 1)
      BY <2>4, <2>5, OneUp
    <3> QED
      BY <2>5, <3>1
  <2>7. q.host = [p.host EXCEPT ![v] = target] /\ q.vm_count = more
        /\ q = [host |-> q.host, vm_count |-> q.vm_count]
    BY <1>2 DEF migrate
  <2> HIDE DEF q, more, less
  <2>8. q.host \in [VM -> Node \cup {Nil}] /\ \A w \in VM : q.host[w] \in Node <=> w \in Known
    BY <2>1, <2>7 DEF Placed
  <2>9. q \in Placed
    BY <2>6, <2>7, <2>8 DEF Placed
  <2> QED
    BY <2>9 DEF q
<1> QED
  BY <1>1, <1>2

LEMMA PlaceKeeps ==
  ASSUME SchedulerInv, NEW p \in Placed, Place(p)
  PROVE  SchedulerInv'
<1>1. /\ host' = p.host /\ vm_count' = p.vm_count
      /\ UNCHANGED <<vms, vm_state, running_count, online>> /\ Known' = Known
  BY DEF Place, Known
<1>2. /\ p.host \in [VM -> Node \cup {Nil}] /\ p.vm_count \in Counts
      /\ \A v \in VM : p.host[v] \in Node <=> v \in Known
      /\ Balanced(p.vm_count, running_count)
  BY DEF Placed
<1>3. ListOK'
  BY <1>1, <1>2 DEF SchedulerInv, ListOK
<1>4. RunningCountExact'
  BY <1>1 DEF SchedulerInv, RunningCountExact
<1>5. TypeOK'
  BY <1>1, <1>2, SchedulerConstants DEF SchedulerInv, TypeOK, Counts
<1> QED
  BY <1>1, <1>2, <1>3, <1>4, <1>5 DEF SchedulerInv

\* The scheduler answers with a node of the cluster, or with none.
LEMMA ScheduleIsNode ==
  ASSUME NEW count, NEW v, NEW forbidden
  PROVE  scheduler_schedule(count, v, forbidden) \in Node \cup {Nil}
<1> DEFINE feasible == {i \in DOMAIN Nodes : node_is_feasible(count, Nodes[i], v, forbidden)}
           best == {i \in feasible : \A k \in feasible :
                      score_node(count, Nodes[k]) <= score_node(count, Nodes[i])}
<1>1. scheduler_schedule(count, v, forbidden) = IF best = {} THEN Nil ELSE Nodes[Min(best)]
  BY DEF scheduler_schedule
<1>2. best \subseteq DOMAIN Nodes /\ DOMAIN Nodes \subseteq Nat
  <2>1. Nodes \in Seq(Node)
    BY SchedulerConstants
  <2>2. DOMAIN Nodes \subseteq Nat
    BY <2>1
  <2> QED
    BY <2>2
<1> HIDE DEF best
<1>3. ASSUME best # {} PROVE Min(best) \in DOMAIN Nodes
  <2>1. best \subseteq Nat /\ best # {}
    BY <1>2, <1>3
  <2>2. \E m \in best : \A y \in best : m <= y
    BY <2>1, Tot!LeastMember
  <2> QED
    BY <1>2, <2>2 DEF Min
<1> QED
  BY <1>1, <1>3 DEF Node, Range

\* Some online node has the most VMs and some has the fewest.
MostAt == {i \in OnlineAt : \A k \in OnlineAt : ~ (vm_count[Nodes[k]] > vm_count[Nodes[i]])}
FewestAt == {i \in OnlineAt : \A k \in OnlineAt : ~ (vm_count[Nodes[k]] < vm_count[Nodes[i]])}

LEMMA Extremes ==
  ASSUME SchedulerInv, OnlineAt # {}
  PROVE  /\ Overloaded \in Node /\ Underloaded \in Node
         /\ \E i \in MostAt : Overloaded = Nodes[i]
         /\ \E i \in FewestAt : Underloaded = Nodes[i]
<1>1. Nodes \in Seq(Node) /\ DOMAIN Nodes \subseteq Nat /\ OnlineAt \subseteq DOMAIN Nodes
  <2>1. Nodes \in Seq(Node)
    BY SchedulerConstants
  <2> QED
    BY <2>1 DEF OnlineAt
<1>2. \A i \in OnlineAt : vm_count[Nodes[i]] \in 0 .. U32 - 1 /\ Nodes[i] \in Node
  BY <1>1, KnownVm DEF Counts, Node, Range
<1>3. MostAt # {}
  <2> DEFINE C == {U32 - vm_count[Nodes[i]] : i \in OnlineAt}
  <2>1. C \subseteq Nat /\ C # {}
    BY <1>2, Modulus
  <2>2. PICK m \in C : \A y \in C : m <= y
    BY <2>1, Tot!LeastMember
  <2>3. PICK i \in OnlineAt : m = U32 - vm_count[Nodes[i]]
    OBVIOUS
  <2>4. \A k \in OnlineAt : U32 - vm_count[Nodes[i]] <= U32 - vm_count[Nodes[k]]
    BY <2>2, <2>3
  <2> QED
    BY <1>2, <2>4, Modulus DEF MostAt
<1>4. FewestAt # {}
  <2> DEFINE C == {vm_count[Nodes[i]] : i \in OnlineAt}
  <2>1. C \subseteq Nat /\ C # {}
    BY <1>2, Modulus
  <2>2. PICK m \in C : \A y \in C : m <= y
    BY <2>1, Tot!LeastMember
  <2>3. PICK i \in OnlineAt : m = vm_count[Nodes[i]]
    OBVIOUS
  <2>4. \A k \in OnlineAt : vm_count[Nodes[i]] <= vm_count[Nodes[k]]
    BY <2>2, <2>3
  <2> QED
    BY <1>2, <2>4 DEF FewestAt
<1>5. Overloaded = Nodes[Min(MostAt)] /\ Underloaded = Nodes[Min(FewestAt)]
  BY DEF Overloaded, Underloaded, Extreme, MostAt, FewestAt
<1>6. MostAt \subseteq Nat /\ FewestAt \subseteq Nat /\ MostAt \subseteq OnlineAt /\ FewestAt \subseteq OnlineAt
  BY <1>1 DEF MostAt, FewestAt
<1>7. Min(MostAt) \in MostAt
  <2>1. \E m \in MostAt : \A y \in MostAt : m <= y
    BY <1>3, <1>6, Tot!LeastMember
  <2> QED
    BY <2>1 DEF Min
<1>8. Min(FewestAt) \in FewestAt
  <2>1. \E m \in FewestAt : \A y \in FewestAt : m <= y
    BY <1>4, <1>6, Tot!LeastMember
  <2> QED
    BY <2>1 DEF Min
<1> QED
  BY <1>2, <1>5, <1>6, <1>7, <1>8

\* The VM that a rebalance moves: the first of the list that can be moved off
\* the node with the most.
Movable == {i \in DOMAIN vms : host[vms[i]] = Overloaded /\ virt_vm_can_migrate(vms[i])}

LEMMA FirstMovable ==
  ASSUME SchedulerInv, scheduler_rebalance
  PROVE  /\ OnlineAt # {} /\ Imbalanced
         /\ \E v \in Known : /\ host[v] = Overloaded /\ virt_vm_can_migrate(v)
                             /\ Place(migrate(Placement, v, Underloaded))
<1>1. /\ OnlineAt # {} /\ Imbalanced /\ Movable # {}
      /\ Place(migrate(Placement, vms[Min(Movable)], Underloaded))
  BY DEF scheduler_rebalance, Movable
<1>2. Movable \subseteq Nat
  BY DEF Movable, SchedulerInv, TypeOK
<1>3. \E m \in Movable : \A y \in Movable : m <= y
  BY <1>1, <1>2, Tot!LeastMember
<1>4. Min(Movable) \in Movable
  BY <1>3 DEF Min
<1>5. vms[Min(Movable)] \in Known
  BY <1>4 DEF Movable, Known, Range
<1> QED
  BY <1>1, <1>4, <1>5 DEF Movable

LEMMA RebalanceKeeps ==
  ASSUME SchedulerInv, scheduler_rebalance
  PROVE  SchedulerInv'
<1>1. PICK v \in Known : Place(migrate(Placement, v, Underloaded))
  BY FirstMovable
<1>2. v \in VM /\ Underloaded \in Node
  BY KnownVm, FirstMovable, Extremes
<1>3. migrate(Placement, v, Underloaded) \in Placed
  BY <1>2, PlacementNow, MigrateKeeps
<1> QED
  BY <1>1, <1>3, PlaceKeeps

\* Evacuation: every VM of the list is visited once.
LEMMA LeaveIsFold ==
  ASSUME NEW start, NEW list, NEW n
  PROVE  FoldLeft(LAMBDA p, v : LET target == scheduler_schedule(p.vm_count, v, {n})
                                IN  IF p.host[v] = n /\ target # Nil THEN migrate(p, v, target) ELSE p,
                  start, list)
           = Evac!Fold([list |-> list, node |-> n], start, DOMAIN list)
  BY DEF FoldLeft, MapThenFoldSet, Evac!Fold, LeaveStep, Leave

LEMMA EvacuateKeeps ==
  ASSUME SchedulerInv, NEW n \in Node, scheduler_evacuate_node(n)
  PROVE  SchedulerInv'
<1> DEFINE e == [list |-> vms, node |-> n]
           end == Evac!Fold(e, Placement, 1 .. Len(vms))
           I == [k \in 0 .. Len(vms) |-> Placed]
<1>1. vms \in Seq(VM) /\ Len(vms) \in Nat /\ DOMAIN vms = 1 .. Len(vms)
  BY DEF SchedulerInv, TypeOK
<1>2. Placement \in I[0]
  BY <1>1, PlacementNow
<1>3. ASSUME NEW k \in 0 .. Len(vms) - 1, NEW p \in I[k]
      PROVE  LeaveStep(e, k + 1, p) \in I[k + 1]
  <2>1. vms[k + 1] \in VM /\ k + 1 \in 0 .. Len(vms) /\ k \in 0 .. Len(vms)
    BY <1>1
  <2>2. p \in Placed /\ I[k + 1] = Placed
    BY <2>1
  <2> DEFINE v == vms[k + 1]
             target == scheduler_schedule(p.vm_count, v, {n})
  <2>3. LeaveStep(e, k + 1, p) = IF p.host[v] = n /\ target # Nil THEN migrate(p, v, target) ELSE p
    BY DEF LeaveStep, Leave
  <2>4. target \in Node \cup {Nil}
    BY ScheduleIsNode
  <2> HIDE DEF target, I
  <2> QED
    BY <2>1, <2>2, <2>3, <2>4, MigrateKeeps
<1>4. Evac!PicksLast(Len(vms))
  BY <1>1, Evac!GreatestMember DEF Evac!PicksLast, Max
<1>5. end \in Placed
  <2> HIDE DEF e, I
  <2>1. end \in I[Len(vms)]
    BY <1>1, <1>2, <1>3, <1>4, Evac!FoldSeqInduction
  <2> QED
    BY <1>1, <2>1 DEF I
<1>6. Place(end)
  BY <1>1, LeaveIsFold DEF scheduler_evacuate_node
<1> HIDE DEF end
<1> QED
  BY <1>5, <1>6, PlaceKeeps

LEMMA NodeStateKeeps ==
  ASSUME SchedulerInv, NEW n \in Node, node_set_state(n)
  PROVE  SchedulerInv'
  BY DEF SchedulerInv, node_set_state, TypeOK, ListOK, RunningCountExact, Known

LEMMA SchedulerNext ==
  ASSUME SchedulerInv, [Next]_vars
  PROVE  SchedulerInv'
<1>1. CASE UNCHANGED vars
  BY <1>1 DEF vars, SchedulerInv, TypeOK, ListOK, RunningCountExact, Known
<1>2. CASE Start
  BY <1>2, CreateKeeps, StartKeeps, PauseKeeps DEF Start
<1>3. CASE Stop
  BY <1>3, StopKeeps, RestartKeeps, DestroyKeeps DEF Stop
<1>4. CASE Move
  <2>1. ASSUME NEW v \in VM, NEW n \in Node, virt_vm_migrate(v, n) PROVE SchedulerInv'
    <3>1. migrate(Placement, v, n) \in Placed
      BY PlacementNow, MigrateKeeps
    <3> QED
      BY <2>1, <3>1, PlaceKeeps DEF virt_vm_migrate
  <2> QED
    BY <1>4, <2>1, RebalanceKeeps, EvacuateKeeps, NodeStateKeeps DEF Move
<1> QED
  BY <1>1, <1>2, <1>3, <1>4 DEF Next

\* The invariant holds in every state, for every set of VMs and list of nodes.
THEOREM SchedulerInvariant == Spec => []SchedulerInv
  BY SchedulerInit, SchedulerNext, PTL DEF Spec

\* The manager's fields keep their types, and exactly the VMs of its list have a
\* state and a host.
THEOREM TypeCorrect == Spec => []TypeOK
<1>1. SchedulerInv => TypeOK
  BY DEF SchedulerInv
<1> QED
  BY <1>1, SchedulerInvariant, PTL

\* running_count is exact and the nodes' workload counters add up to it in
\* unsigned arithmetic, whatever is started, stopped, moved and evacuated.
THEOREM CountsAreBalanced == Spec => []CountsBalance
<1>1. SchedulerInv => CountsBalance
  <2> SUFFICES ASSUME SchedulerInv PROVE CountsBalance
    OBVIOUS
  <2>1. PICK k \in Int : TotalOf(vm_count) = running_count + k * U32
    BY DEF SchedulerInv, Balanced
  <2>2. running_count \in 0 .. U32 - 1
    BY DEF SchedulerInv, TypeOK
  <2>3. TotalOf(vm_count) % U32 = running_count
    BY <2>1, <2>2, Remainder
  <2> QED
    BY <2>3 DEF SchedulerInv, CountsBalance
<1> QED
  BY <1>1, SchedulerInvariant, PTL

-----------------------------------------------------------------------------
(* Rebalancing.  It is sound as long as no counter that it compares has     *)
(* wrapped around.  The counter of the local node does, when VMs that were  *)
(* moved away are stopped; the others do not while the moves stay within    *)
(* the drift that Next allows.                                              *)

\* The sum of the counters of the other nodes, and the VMs placed on a node.
Remote(f) == TotalOf([f EXCEPT ![Local] = 0])
Hosted(h, n) == {v \in VM : h[v] = n}

\* Every other node counts at least the VMs placed on it, and all of them
\* together at most m.
RemoteOK(h, f, m) ==
    /\ \A n \in Node \ {Local} : Cardinality(Hosted(h, n)) <= f[n]
    /\ Remote(f) <= m

DriftInv == RemoteOK(host, vm_count, MaxDrift + 2 * Cardinality(VM))

LEMMA Sizes ==
  /\ MaxDrift \in Nat /\ U32 \in Nat /\ U32 > 0 /\ Cardinality(VM) \in Nat
  /\ 2 * (MaxDrift + 2 * Cardinality(VM) + 2) <= U32
  /\ Local \in Node
<1>1. IsFiniteSet(VM) /\ MaxDrift \in Nat /\ Local \in Node
  BY SchedulerConstants
<1> QED
  BY <1>1, Modulus, FS_CardinalityType, DriftIsSmall

\* A sum of natural numbers is one, and at least each of them.
LEMMA TotalNatural ==
  ASSUME NEW f \in [Node -> Nat]
  PROVE  TotalOf(f) \in Nat
<1> DEFINE I == [ns \in SUBSET Node |-> Nat]
<1>1. 0 \in I[{}]
  OBVIOUS
<1>2. \A ns \in SUBSET Node : ns # {} =>
        \A c \in I[ns \ {AnyOf(ns)}] : SumStep(f, AnyOf(ns), c) \in I[ns]
  <2> SUFFICES ASSUME NEW ns \in SUBSET Node, ns # {}, NEW c \in Nat
               PROVE  SumStep(f, AnyOf(ns), c) \in Nat
    OBVIOUS
  <2>1. AnyOf(ns) \in Node
    BY DEF AnyOf
  <2> QED
    BY <2>1 DEF SumStep
<1> HIDE DEF I
<1>3. Tot!Fold(f, 0, Node) \in I[Node]
  BY <1>1, <1>2, NodeFolds, Tot!FoldInduction
<1> QED
  BY <1>3, TotalIsFold DEF I

LEMMA RemoteSum ==
  ASSUME NEW f \in Counts
  PROVE  /\ Remote(f) \in Nat /\ TotalOf(f) = Remote(f) + f[Local]
         /\ \A n \in Node \ {Local} : f[n] <= Remote(f)
<1>1. f \in [Node -> Nat] /\ f \in [Node -> Int] /\ Local \in Node
  BY Sizes DEF Counts
<1> DEFINE g == [f EXCEPT ![Local] = 0]
<1>2. g \in [Node -> Nat] /\ g \in [Node -> Int]
  BY <1>1
<1>3. Remote(f) = TotalOf(g) /\ TotalOf(g) \in Nat
  BY <1>2, TotalNatural DEF Remote
<1>0. 0 \in Int
  OBVIOUS
<1>4. TotalOf(f) \in Int /\ TotalOf(g) = TotalOf(f) + 0 - f[Local]
  BY <1>0, <1>1, TotalChanges, Zenon
<1>5. ASSUME NEW n \in Node \ {Local} PROVE f[n] <= TotalOf(g)
  <2> DEFINE h == [g EXCEPT ![n] = 0]
  <2>1. g[n] = f[n] /\ h \in [Node -> Nat] /\ f[n] \in Nat
    BY <1>1, <1>2
  <2>2. TotalOf(h) \in Nat
    BY <2>1, TotalNatural
  <2>3. TotalOf(h) = TotalOf(g) + 0 - g[n]
    <3> HIDE DEF g
    <3>1. n \in Node
      OBVIOUS
    <3> QED
      BY <1>0, <1>2, <3>1, TotalChanges, Zenon
  <2> HIDE DEF g, h
  <2> QED
    BY <1>3, <2>1, <2>2, <2>3
<1> HIDE DEF g
<1>6. f[Local] \in Int
  BY <1>1
<1> QED
  BY <1>3, <1>4, <1>5, <1>6

\* The local counter does not matter.
LEMMA LocalOnly ==
  ASSUME NEW f \in Counts, NEW g \in Counts, NEW h, NEW j, NEW m, RemoteOK(h, f, m),
         \A n \in Node \ {Local} : g[n] = f[n] /\ Hosted(j, n) \subseteq Hosted(h, n)
  PROVE  RemoteOK(j, g, m)
<1>1. [g EXCEPT ![Local] = 0] = [f EXCEPT ![Local] = 0]
  BY DEF Counts
<1>2. Remote(g) <= m
  BY <1>1 DEF RemoteOK, Remote
<1>3. ASSUME NEW n \in Node \ {Local} PROVE Cardinality(Hosted(j, n)) <= g[n]
  <2>1. Hosted(j, n) \in SUBSET VM /\ Hosted(h, n) \in SUBSET VM
    BY DEF Hosted
  <2>2. /\ Cardinality(Hosted(j, n)) \in 0 .. U32 - 1
        /\ Cardinality(Hosted(h, n)) \in 0 .. U32 - 1
        /\ IsFiniteSet(Hosted(h, n))
    BY <2>1, ActiveBounded
  <2>3. Cardinality(Hosted(j, n)) <= Cardinality(Hosted(h, n))
    BY <2>2, FS_Subset
  <2>4. Cardinality(Hosted(h, n)) <= f[n] /\ f[n] = g[n] /\ f[n] \in Nat
    BY Sizes DEF RemoteOK, Counts
  <2> QED
    BY <2>2, <2>3, <2>4, Sizes
<1> QED
  BY <1>2, <1>3 DEF RemoteOK

\* Another node's counter takes the sum along.
LEMMA RemoteChanges ==
  ASSUME NEW f \in Counts, NEW n \in Node \ {Local}, NEW w \in 0 .. U32 - 1
  PROVE  Remote([f EXCEPT ![n] = w]) = Remote(f) + w - f[n]
<1>1. f \in [Node -> Int] /\ w \in Int /\ n \in Node /\ Local \in Node
  BY Sizes DEF Counts
<1> DEFINE g == [f EXCEPT ![Local] = 0]
<1>2. g \in [Node -> Int] /\ g[n] = f[n]
  BY <1>1
<1>3. [[f EXCEPT ![n] = w] EXCEPT ![Local] = 0] = [g EXCEPT ![n] = w]
  BY <1>1
<1>4. TotalOf([g EXCEPT ![n] = w]) = TotalOf(g) + w - g[n]
  <2> HIDE DEF g
  <2> QED
    BY <1>1, <1>2, TotalChanges
<1> QED
  BY <1>2, <1>3, <1>4 DEF Remote

\* A move changes the counters of the two nodes by one, without a wrap-around,
\* unless the node is the local one.
LEMMA MigrateDrifts ==
  ASSUME SchedulerInv, NEW p \in Placed, NEW v \in VM, NEW target \in Node, NEW m \in Nat,
         m < U32 - 1, RemoteOK(p.host, p.vm_count, m)
  PROVE  LET q == migrate(p, v, target) IN RemoteOK(q.host, q.vm_count, m + 1)
<1> DEFINE q == migrate(p, v, target)
           from == p.host[v]
           less == [p.vm_count EXCEPT ![from] = Dec(@)]
<1>0. p.vm_count \in Counts /\ p.host \in [VM -> Node \cup {Nil}] /\ Remote(p.vm_count) \in Nat
  BY RemoteSum DEF Placed
<1>1. CASE ~ (virt_vm_can_migrate(v) /\ p.host[v] # target)
  <2>1. q = p /\ Remote(p.vm_count) <= m + 1
    BY <1>0, <1>1 DEF migrate, RemoteOK
  <2> QED
    BY <2>1 DEF RemoteOK
<1>2. CASE virt_vm_can_migrate(v) /\ p.host[v] # target
  <2>1. v \in Known /\ from \in Node /\ from # target
    BY <1>2, KnownVm DEF virt_vm_can_migrate, Placed
  <2>2. q.host = [p.host EXCEPT ![v] = target] /\ q.vm_count = [less EXCEPT ![target] = Inc(@)]
    BY <1>2, <2>1 DEF migrate
  <2>3. p.vm_count[from] \in 0 .. U32 - 1 /\ p.vm_count[target] \in 0 .. U32 - 1
    BY <1>0, <2>1 DEF Counts
  <2>4. less \in Counts /\ less[target] = p.vm_count[target]
    BY <1>0, <2>1, <2>3, Decrement DEF Counts
  <2>5. \A n \in Node : n # from /\ n # target => q.vm_count[n] = p.vm_count[n]
    BY <1>0, <2>2 DEF Counts
  <2>6. ASSUME from # Local
        PROVE  less[from] = p.vm_count[from] - 1 /\ p.vm_count[from] >= 1
               /\ Cardinality(Hosted(q.host, from)) <= p.vm_count[from] - 1
    <3>1. Hosted(p.host, from) \in SUBSET VM /\ v \in Hosted(p.host, from)
      BY DEF Hosted
    <3>2. IsFiniteSet(Hosted(p.host, from)) /\ Cardinality(Hosted(p.host, from)) \in 0 .. U32 - 1
      BY <3>1, ActiveBounded
    <3>3. Hosted(q.host, from) = Hosted(p.host, from) \ {v}
      BY <1>0, <2>1, <2>2 DEF Hosted
    <3>4. Cardinality(Hosted(q.host, from)) = Cardinality(Hosted(p.host, from)) - 1
      <4> DEFINE H == Hosted(p.host, from)
      <4>1. v \in H /\ IsFiniteSet(H)
        BY <3>1, <3>2
      <4> HIDE DEF H
      <4>2. Cardinality(H \ {v}) = Cardinality(H) - 1
        BY <4>1, FS_RemoveElement
      <4> QED
        BY <3>3, <4>2 DEF H
    <3>5. Cardinality(Hosted(q.host, from)) \in Nat
      <4>1. Hosted(q.host, from) \in SUBSET VM
        BY DEF Hosted
      <4> QED
        BY <4>1, ActiveBounded
    <3>6. Cardinality(Hosted(p.host, from)) <= p.vm_count[from]
      BY <2>1, <2>6 DEF RemoteOK
    <3>7. p.vm_count[from] >= 1 /\ Cardinality(Hosted(q.host, from)) <= p.vm_count[from] - 1
      BY <2>3, <3>2, <3>4, <3>5, <3>6, Sizes
    <3>8. less[from] = Dec(p.vm_count[from])
      BY <1>0, <2>1 DEF Counts
    <3> QED
      BY <2>3, <3>7, <3>8, Decrement
  <2>7. ASSUME target # Local
        PROVE  /\ q.vm_count[target] = p.vm_count[target] + 1
               /\ Inc(p.vm_count[target]) = p.vm_count[target] + 1
               /\ Cardinality(Hosted(q.host, target)) <= p.vm_count[target] + 1
    <3>1. p.vm_count[target] <= m
      BY <1>0, <2>3, <2>7, RemoteSum DEF RemoteOK
    <3>2. Inc(p.vm_count[target]) = p.vm_count[target] + 1
      BY <2>3, <3>1, Sizes, Increment
    <3>3. q.vm_count[target] = Inc(p.vm_count[target])
      BY <2>2, <2>4 DEF Counts
    <3>4. Hosted(p.host, target) \in SUBSET VM /\ v \notin Hosted(p.host, target)
      BY <2>1 DEF Hosted
    <3>5. IsFiniteSet(Hosted(p.host, target)) /\ Cardinality(Hosted(p.host, target)) \in 0 .. U32 - 1
      BY <3>4, ActiveBounded
    <3>6. Hosted(q.host, target) = Hosted(p.host, target) \cup {v}
      BY <1>0, <2>1, <2>2 DEF Hosted
    <3>7. Cardinality(Hosted(q.host, target)) = Cardinality(Hosted(p.host, target)) + 1
      BY <3>4, <3>5, <3>6, FS_AddElement
    <3>8. Cardinality(Hosted(p.host, target)) <= p.vm_count[target]
      BY <2>7 DEF RemoteOK
    <3> QED
      BY <2>3, <3>2, <3>3, <3>5, <3>7, <3>8, Sizes
  <2>8. ASSUME NEW n \in Node \ {Local}
        PROVE  Cardinality(Hosted(q.host, n)) <= q.vm_count[n]
    <3>1. CASE n = from
      <4>1. q.vm_count[from] = less[from]
        BY <2>1, <2>2, <2>4 DEF Counts
      <4> QED
        BY <2>6, <3>1, <4>1
    <3>2. CASE n = target
      BY <2>7, <3>2
    <3>3. CASE n # from /\ n # target
      <4>1. Hosted(q.host, n) = Hosted(p.host, n)
        BY <1>0, <2>1, <2>2, <3>3 DEF Hosted
      <4> QED
        BY <2>5, <3>3, <4>1 DEF RemoteOK
    <3> QED
      BY <3>1, <3>2, <3>3
  <2>9. Remote(less) \in Nat /\ Remote(less) <= m
    <3>1. CASE from = Local
      <4>1. [less EXCEPT ![Local] = 0] = [p.vm_count EXCEPT ![Local] = 0]
        BY <1>0, <3>1 DEF Counts
      <4> QED
        BY <1>0, <4>1 DEF Remote, RemoteOK
    <3>2. CASE from # Local
      <4>1. less = [p.vm_count EXCEPT ![from] = less[from]] /\ less[from] \in 0 .. U32 - 1
        BY <1>0, <2>1, <2>4 DEF Counts
      <4>2. Remote(less) = Remote(p.vm_count) + less[from] - p.vm_count[from]
        BY <1>0, <2>1, <3>2, <4>1, RemoteChanges
      <4>3. less[from] = p.vm_count[from] - 1
        BY <2>6, <3>2
      <4>4. Remote(less) = Remote(p.vm_count) - 1
        BY <1>0, <2>3, <4>2, <4>3
      <4>5. Remote(p.vm_count) <= m
        BY DEF RemoteOK
      <4>6. Remote(less) \in Nat
        BY <2>4, RemoteSum
      <4> QED
        BY <1>0, <4>4, <4>5, <4>6
    <3> QED
      BY <3>1, <3>2
  <2>10. Remote(q.vm_count) <= m + 1
    <3>1. CASE target = Local
      <4>1. [q.vm_count EXCEPT ![Local] = 0] = [less EXCEPT ![Local] = 0]
        BY <2>2, <2>4, <3>1 DEF Counts
      <4> QED
        BY <2>9, <4>1 DEF Remote
    <3>2. CASE target # Local
      <4>1. q.vm_count = [less EXCEPT ![target] = p.vm_count[target] + 1]
            /\ p.vm_count[target] + 1 \in 0 .. U32 - 1
        BY <2>2, <2>3, <2>4, <2>7, <3>2, Increment
      <4>2. Remote(q.vm_count) = Remote(less) + (p.vm_count[target] + 1) - less[target]
        <5> DEFINE w == p.vm_count[target] + 1
        <5>1. w \in 0 .. U32 - 1 /\ target \in Node \ {Local}
          BY <3>2, <4>1
        <5>2. Remote([less EXCEPT ![target] = w]) = Remote(less) + w - less[target]
          <6> HIDE DEF w, less
          <6> QED
            BY <2>4, <5>1, RemoteChanges
        <5> QED
          BY <4>1, <5>2
      <4> QED
        BY <2>3, <2>4, <2>9, <4>2
    <3> QED
      BY <3>1, <3>2
  <2> QED
    BY <2>8, <2>10 DEF RemoteOK
<1> QED
  BY <1>1, <1>2

\* While moves are allowed, the other nodes count little more than there is.
LEMMA DriftBefore ==
  ASSUME SchedulerInv, DriftInv, DriftBounded
  PROVE  RemoteOK(host, vm_count, MaxDrift + Cardinality(VM))
<1> DEFINE R == Remote(vm_count)
           L == vm_count[Local]
           N == Cardinality(VM)
<1>1. /\ vm_count \in Counts /\ running_count \in Int /\ running_count <= N /\ running_count >= 0
      /\ Balanced(vm_count, running_count)
  <2>1. IsFiniteSet(VM) /\ ActiveVms \subseteq VM /\ Cardinality(ActiveVms) <= Cardinality(VM)
    BY KnownVm, SchedulerConstants, FS_Subset
  <2> QED
    BY <2>1, KnownVm
<1>2. R \in Nat /\ TotalOf(vm_count) = R + L /\ L \in 0 .. U32 - 1
  BY <1>1, RemoteSum, Sizes DEF Counts
<1>3. PICK k \in Int : TotalOf(vm_count) = running_count + k * U32
  BY <1>1 DEF Balanced
<1>4. R <= MaxDrift + 2 * N /\ (L < U32 \div 2 \/ L > U32 - MaxDrift)
  BY DEF DriftInv, RemoteOK, DriftBounded
<1> HIDE DEF R, L, N
<1>5. MaxDrift \in Nat /\ U32 \in Nat /\ U32 > 0 /\ N \in Nat /\ 2 * (MaxDrift + 2 * N + 2) <= U32
  BY Sizes DEF N
<1>6. R + L = running_count + k * U32
  BY <1>2, <1>3
<1>7. k * U32 \in Int /\ (k <= 0 => k * U32 <= 0) /\ (k >= 2 => k * U32 >= 2 * U32)
      /\ (k = 1 => k * U32 = U32)
  BY <1>5
<1>8. k * U32 < 2 * U32
  BY <1>1, <1>2, <1>4, <1>5, <1>6, <1>7
<1>9. k <= 1
  BY <1>5, <1>7, <1>8
<1>10. R <= MaxDrift + N
  <2>1. CASE k <= 0
    BY <1>1, <1>2, <1>5, <1>6, <1>7, <2>1
  <2>2. CASE k = 1
    <3>1. R = running_count + U32 - L
      BY <1>1, <1>2, <1>5, <1>6, <1>7, <2>2
    <3>2. L > U32 - MaxDrift
      BY <1>1, <1>2, <1>4, <1>5, <3>1
    <3> QED
      BY <1>1, <1>2, <1>5, <3>1, <3>2
  <2> QED
    BY <1>9, <2>1, <2>2
<1> QED
  BY <1>10 DEF DriftInv, RemoteOK, R, N

\* The drift after a move of one VM, and after an evacuation.
LEMMA DriftMore ==
  ASSUME NEW h, NEW f \in Counts, NEW m \in Nat, NEW n \in Nat, RemoteOK(h, f, m), m <= n
  PROVE  RemoteOK(h, f, n)
<1>1. Remote(f) \in Nat
  BY RemoteSum
<1> QED
  BY <1>1 DEF RemoteOK

LEMMA DriftAfterMove ==
  ASSUME SchedulerInv, DriftInv, DriftBounded, NEW v \in VM, NEW target \in Node,
         Place(migrate(Placement, v, target))
  PROVE  DriftInv'
<1> DEFINE q == migrate(Placement, v, target)
           m == MaxDrift + Cardinality(VM)
<1>1. Placement \in Placed /\ Placement.host = host /\ Placement.vm_count = vm_count
  BY PlacementNow DEF Placement
<1>2. m \in Nat /\ m < U32 - 1 /\ m + 1 \in Nat
  BY Sizes
<1>3. RemoteOK(Placement.host, Placement.vm_count, m)
  BY <1>1, DriftBefore
<1>4. Cardinality(VM) >= 1
  <2>1. IsFiniteSet(VM) /\ VM # {}
    BY SchedulerConstants
  <2>2. Cardinality(VM) # 0
    BY <2>1, FS_EmptySet
  <2> QED
    BY <2>2, Sizes
<1>5. RemoteOK(q.host, q.vm_count, m + 1)
  <2> HIDE DEF m
  <2> QED
    BY <1>1, <1>2, <1>3, MigrateDrifts
<1>6. q.vm_count \in Counts
  BY <1>1, MigrateKeeps DEF Placed
<1>7. RemoteOK(q.host, q.vm_count, MaxDrift + 2 * Cardinality(VM))
  <2>1. m + 1 <= MaxDrift + 2 * Cardinality(VM) /\ MaxDrift + 2 * Cardinality(VM) \in Nat
    BY <1>4, Sizes
  <2> HIDE DEF m, q
  <2> QED
    BY <1>2, <1>5, <1>6, <2>1, DriftMore
<1>8. host' = q.host /\ vm_count' = q.vm_count
  BY DEF Place
<1> HIDE DEF q
<1> QED
  BY <1>7, <1>8 DEF DriftInv, RemoteOK, Remote, Hosted

LEMMA ListFits ==
  ASSUME SchedulerInv
  PROVE  Len(vms) \in Nat /\ Len(vms) <= Cardinality(VM)
<1>1. vms \in Seq(VM) /\ Tot!Distinct(vms)
  BY DEF SchedulerInv, TypeOK, ListOK
<1>2. Tot!Cardinality(Tot!Elements(vms)) = Len(vms)
  BY <1>1, Tot!CountMembers
<1>3. \A T : Cardinality(T) = Tot!Cardinality(T)
  BY DEF IsFiniteSet, Tot!IsFiniteSet, Cardinality, Tot!Cardinality
<1>4. Tot!Elements(vms) = Known
  BY DEF Tot!Elements, Known, Range
<1>5. Cardinality(Known) = Len(vms)
  BY <1>2, <1>3, <1>4
<1>6. IsFiniteSet(VM)
  BY SchedulerConstants
<1>7. Cardinality(Known) <= Cardinality(VM)
  BY <1>6, KnownVm, FS_Subset
<1> QED
  BY <1>1, <1>5, <1>7

LEMMA DriftAfterEvacuation ==
  ASSUME SchedulerInv, DriftInv, DriftBounded, NEW n \in Node, scheduler_evacuate_node(n)
  PROVE  DriftInv'
<1> DEFINE e == [list |-> vms, node |-> n]
           end == Evac!Fold(e, Placement, 1 .. Len(vms))
           B(k) == MaxDrift + Cardinality(VM) + k
           Drifted(k) == {p \in Placed : RemoteOK(p.host, p.vm_count, B(k))}
           I == [k \in 0 .. Len(vms) |-> Drifted(k)]
<1>1. vms \in Seq(VM) /\ Len(vms) \in Nat /\ DOMAIN vms = 1 .. Len(vms)
  BY DEF SchedulerInv, TypeOK
<1>2. \A k \in 0 .. Len(vms) : B(k) \in Nat /\ B(k) < U32 - 1 /\ B(k) <= MaxDrift + 2 * Cardinality(VM)
  BY <1>1, ListFits, Sizes
<1>3. Placement \in I[0]
  <2>1. Placement.host = host /\ Placement.vm_count = vm_count /\ B(0) = MaxDrift + Cardinality(VM)
    BY Sizes DEF Placement
  <2> QED
    BY <1>1, <2>1, PlacementNow, DriftBefore
<1>4. ASSUME NEW k \in 0 .. Len(vms) - 1, NEW p \in I[k]
      PROVE  LeaveStep(e, k + 1, p) \in I[k + 1]
  <2>1. vms[k + 1] \in VM /\ k + 1 \in 0 .. Len(vms) /\ k \in 0 .. Len(vms)
    BY <1>1
  <2>2. p \in Placed /\ RemoteOK(p.host, p.vm_count, B(k)) /\ I[k + 1] = Drifted(k + 1)
    BY <2>1
  <2>3. B(k) \in Nat /\ B(k) < U32 - 1 /\ B(k + 1) = B(k) + 1 /\ B(k + 1) \in Nat
    BY <1>2, <2>1, Sizes
  <2> DEFINE v == vms[k + 1]
             target == scheduler_schedule(p.vm_count, v, {n})
             q == migrate(p, v, target)
  <2>4. LeaveStep(e, k + 1, p) = IF p.host[v] = n /\ target # Nil THEN q ELSE p
    BY DEF LeaveStep, Leave
  <2>5. target \in Node \cup {Nil} /\ v \in VM
    BY <2>1, ScheduleIsNode
  <2> HIDE DEF target, B, v
  <2>6. ASSUME target # Nil PROVE q \in Placed /\ RemoteOK(q.host, q.vm_count, B(k + 1))
    BY <2>2, <2>3, <2>5, <2>6, MigrateKeeps, MigrateDrifts
  <2>7. RemoteOK(p.host, p.vm_count, B(k + 1))
    <3>1. p.vm_count \in Counts /\ B(k) <= B(k + 1)
      BY <2>2, <2>3 DEF Placed
    <3> QED
      BY <2>2, <2>3, <3>1, DriftMore
  <2>8. \A r : r \in Placed /\ RemoteOK(r.host, r.vm_count, B(k + 1)) => r \in I[k + 1]
    BY <2>2
  <2> HIDE DEF I, q
  <2> QED
    BY <2>2, <2>4, <2>6, <2>7, <2>8
<1>5. Evac!PicksLast(Len(vms))
  BY <1>1, Evac!GreatestMember DEF Evac!PicksLast, Max
<1>6. end \in Drifted(Len(vms))
  <2> HIDE DEF e, I
  <2>1. end \in I[Len(vms)]
    BY <1>1, <1>3, <1>4, <1>5, Evac!FoldSeqInduction
  <2> QED
    BY <1>1, <2>1 DEF I
<1>7. Place(end)
  BY <1>1, LeaveIsFold DEF scheduler_evacuate_node
<1> HIDE DEF end, B
<1>8. end.vm_count \in Counts /\ RemoteOK(end.host, end.vm_count, B(Len(vms)))
  BY <1>6 DEF Placed
<1>9. RemoteOK(end.host, end.vm_count, MaxDrift + 2 * Cardinality(VM))
  <2>1. /\ B(Len(vms)) \in Nat /\ B(Len(vms)) <= MaxDrift + 2 * Cardinality(VM)
        /\ MaxDrift + 2 * Cardinality(VM) \in Nat
    BY <1>1, <1>2, Sizes
  <2> QED
    BY <1>8, <2>1, DriftMore
<1>10. host' = end.host /\ vm_count' = end.vm_count
  BY <1>7 DEF Place
<1> QED
  BY <1>9, <1>10 DEF DriftInv, RemoteOK, Remote, Hosted

\* The calls that move no VM leave the counters of the other nodes alone.
LEMMA DriftElsewhere ==
  ASSUME SchedulerInv, SchedulerInv', DriftInv,
         \A n \in Node \ {Local} : vm_count'[n] = vm_count[n] /\ Hosted(host', n) \subseteq Hosted(host, n)
  PROVE  DriftInv'
<1>1. vm_count \in Counts /\ vm_count' \in Counts
  BY DEF SchedulerInv, TypeOK, Counts
<1>2. RemoteOK(host', vm_count', MaxDrift + 2 * Cardinality(VM))
  BY <1>1, LocalOnly DEF DriftInv
<1> QED
  BY <1>2 DEF DriftInv, RemoteOK, Remote, Hosted

LEMMA DriftNext ==
  ASSUME SchedulerInv, DriftInv, [Next]_vars
  PROVE  DriftInv'
<1> USE DEF Hosted
<1>0. SchedulerInv'
  BY SchedulerNext
<1>1. Local \in Node /\ Nil \notin Node /\ vm_count \in Counts /\ host \in [VM -> Node \cup {Nil}]
  BY KnownVm, SchedulerConstants DEF SchedulerInv, ListOK
<1>2. CASE host' = host /\ vm_count' = vm_count
  BY <1>0, <1>2, DriftElsewhere
<1>3. ASSUME NEW v \in VM,
             virt_vm_start(v) \/ virt_vm_stop(v) \/ virt_vm_restart(v) \/ virt_vm_create(v)
             \/ virt_vm_destroy(v)
      PROVE  DriftInv'
  <2>1. \A n \in Node \ {Local} : vm_count'[n] = vm_count[n]
    BY <1>1, <1>3 DEF virt_vm_start, virt_vm_stop, virt_vm_restart, virt_vm_create, virt_vm_destroy, Counts
  <2>2. host' = host \/ host' = [host EXCEPT ![v] = Local] \/ host' = [host EXCEPT ![v] = Nil]
    BY <1>3 DEF virt_vm_start, virt_vm_stop, virt_vm_restart, virt_vm_create, virt_vm_destroy
  <2>3. \A n \in Node \ {Local} : Hosted(host', n) \subseteq Hosted(host, n)
    BY <1>1, <2>2
  <2> QED
    BY <1>0, <2>1, <2>3, DriftElsewhere
<1>4. CASE UNCHANGED vars
  BY <1>2, <1>4 DEF vars
<1>5. CASE Start
  BY <1>2, <1>3, <1>5 DEF Start, virt_vm_pause, virt_vm_resume
<1>6. CASE Stop
  BY <1>3, <1>6 DEF Stop
<1>7. CASE DriftBounded /\ Move
  <2>1. ASSUME scheduler_rebalance PROVE DriftInv'
    <3>1. PICK v \in Known : Place(migrate(Placement, v, Underloaded))
      BY <2>1, FirstMovable
    <3>2. v \in VM /\ Underloaded \in Node
      BY <2>1, KnownVm, FirstMovable, Extremes
    <3> QED
      BY <1>7, <3>1, <3>2, DriftAfterMove
  <2>2. ASSUME NEW n \in Node, node_set_state(n) PROVE DriftInv'
    BY <1>2, <2>2 DEF node_set_state
  <2> QED
    BY <1>7, <2>1, <2>2, DriftAfterMove, DriftAfterEvacuation DEF Move, virt_vm_migrate
<1> QED
  BY <1>4, <1>5, <1>6, <1>7 DEF Next

LEMMA DriftInit == Init => DriftInv
<1> SUFFICES ASSUME Init PROVE DriftInv
  OBVIOUS
<1>1. SchedulerInv /\ vm_count \in Counts
  BY SchedulerInit DEF SchedulerInv, TypeOK, Counts
<1>2. [vm_count EXCEPT ![Local] = 0] = vm_count
  BY DEF Init
<1>3. TotalOf(vm_count) = 0
  BY TotalInit
<1>4. \A n \in Node : Hosted(host, n) = {}
  BY SchedulerConstants DEF Hosted, Init
<1>5. \A n \in Node \ {Local} : Cardinality(Hosted(host, n)) <= vm_count[n]
  <2> SUFFICES ASSUME NEW n \in Node \ {Local}
               PROVE  Cardinality(Hosted(host, n)) <= vm_count[n]
    OBVIOUS
  <2>1. Cardinality({}) = 0
    BY FS_EmptySet
  <2>2. Cardinality(Hosted(host, n)) = 0
    BY <1>4, <2>1, Zenon
  <2>3. vm_count[n] = 0
    BY DEF Init
  <2> QED
    BY <2>2, <2>3
<1>6. Remote(vm_count) <= MaxDrift + 2 * Cardinality(VM)
  BY <1>2, <1>3, Sizes DEF Remote
<1> QED
  BY <1>5, <1>6 DEF DriftInv, RemoteOK

\* One rebalance: the counters it compares are not wrapped around, so the node
\* that gives keeps at least as many as the node that gets.
Settled ==
    \A v \in Known : host'[v] # host[v] => vm_count'[host[v]] >= vm_count'[host'[v]]

LEMMA RebalanceStep ==
  ASSUME SchedulerInv, DriftInv, scheduler_rebalance
  PROVE  Settled
<1> DEFINE over == vm_count[Overloaded]
           under == vm_count[Underloaded]
<1>1. PICK w \in Known : /\ host[w] = Overloaded /\ virt_vm_can_migrate(w)
                         /\ Place(migrate(Placement, w, Underloaded))
  BY FirstMovable
<1>2. Overloaded \in Node /\ Underloaded \in Node /\ w \in VM /\ Imbalanced
  BY KnownVm, FirstMovable, Extremes
<1>3. vm_count \in Counts /\ host \in [VM -> Node \cup {Nil}]
  BY KnownVm DEF SchedulerInv, ListOK
<1>4. over \in 0 .. U32 - 1 /\ under \in 0 .. U32 - 1
  BY <1>2, <1>3 DEF Counts
<1>5. CASE Overloaded = Underloaded
  <2>1. migrate(Placement, w, Underloaded) = Placement
    BY <1>1, <1>5 DEF migrate, Placement
  <2>2. host' = host
    BY <1>1, <2>1 DEF Place, Placement
  <2> QED
    BY <2>2 DEF Settled
<1>6. CASE Overloaded # Underloaded
  <2>1. under <= over
    <3>1. PICK i \in MostAt : Overloaded = Nodes[i]
      BY FirstMovable, Extremes
    <3>2. PICK k \in FewestAt : Underloaded = Nodes[k]
      BY FirstMovable, Extremes
    <3>3. ~ (vm_count[Nodes[i]] < vm_count[Nodes[k]])
      BY <3>1, <3>2 DEF MostAt, FewestAt
    <3> QED
      BY <1>4, <3>1, <3>2, <3>3, Sizes
  <2>2. under <= MaxDrift + 2 * Cardinality(VM)
    <3>1. Remote(vm_count) <= MaxDrift + 2 * Cardinality(VM) /\ Remote(vm_count) \in Nat
      BY <1>3, RemoteSum DEF DriftInv, RemoteOK
    <3>2. CASE Underloaded # Local
      <4>1. under <= Remote(vm_count)
        BY <1>2, <1>3, <3>2, RemoteSum
      <4> QED
        BY <1>4, <3>1, <4>1, Sizes
    <3>3. CASE Underloaded = Local
      <4>1. over <= Remote(vm_count)
        BY <1>2, <1>3, <1>6, <3>3, RemoteSum
      <4> QED
        BY <1>4, <2>1, <3>1, <4>1, Sizes
    <3> QED
      BY <3>2, <3>3
  <2>3. over > (under + 2) % U32
    BY <1>2 DEF Imbalanced
  <2> DEFINE u == under
             o == over
  <2>4. u \in 0 .. U32 - 1 /\ o \in 0 .. U32 - 1 /\ u + 2 \in 0 .. U32 - 1 /\ u # U32 - 1
    BY <1>4, <2>2, Sizes
  <2>5. (u + 2) % U32 = u + 2
    <3> HIDE DEF u
    <3> QED
      BY <2>4, Sizes
  <2>6. Dec(o) = o - 1 /\ Inc(u) = u + 1 /\ o - 1 >= u + 1
    <3>1. o > u + 2
      BY <2>3, <2>5
    <3> HIDE DEF u, o
    <3>2. o # 0 /\ o - 1 >= u + 1
      BY <2>4, <3>1, Sizes
    <3> QED
      BY <2>4, <3>2, Increment, Decrement
  <2>7. /\ host' = [host EXCEPT ![w] = Underloaded]
        /\ vm_count' = [vm_count EXCEPT ![Overloaded] = Dec(@), ![Underloaded] = Inc(@)]
    BY <1>1, <1>6 DEF Place, migrate, Placement
  <2>8. vm_count'[Overloaded] = Dec(o) /\ vm_count'[Underloaded] = Inc(u)
    BY <1>2, <1>3, <1>6, <2>7 DEF Counts
  <2>9. ASSUME NEW v \in Known, host'[v] # host[v]
        PROVE  vm_count'[host[v]] >= vm_count'[host'[v]]
    <3>1. v = w /\ host[v] = Overloaded /\ host'[v] = Underloaded
      BY <1>1, <1>2, <1>3, <2>7, <2>9, KnownVm
    <3> HIDE DEF o, u
    <3> QED
      BY <2>6, <2>8, <3>1
  <2> QED
    BY <2>9 DEF Settled
<1> QED
  BY <1>5, <1>6

\* Rebalancing never overshoots, so it comes to rest: scheduler_rebalance moves a
\* VM only to a node that then has no more than the one it came from, although
\* the counter of the local node may have run below zero.
THEOREM RebalanceIsSettled == Spec => RebalanceSettles
<1>1. SchedulerInv /\ DriftInv /\ [Next]_vars =>
        [scheduler_rebalance =>
           \A v \in Known : host'[v] # host[v] =>
             vm_count'[host[v]] >= vm_count'[host'[v]]]_vars
  BY RebalanceStep DEF Settled
<1>2. Spec => []DriftInv
  <2>1. SchedulerInv /\ DriftInv /\ [Next]_vars => DriftInv'
    BY DriftNext
  <2> QED
    BY <2>1, SchedulerInvariant, DriftInit, PTL DEF Spec
<1> QED
  BY <1>1, <1>2, SchedulerInvariant, PTL DEF Spec, RebalanceSettles

-----------------------------------------------------------------------------
(* Cluster membership. *)

\* The loop of cluster_tick as a fold over the positions of the list.
TickStep(e, i, c) == IF e.list[i] \in e.silent THEN FailNode(c, e.list[i]) ELSE c
Tick == INSTANCE ListLemmas WITH step <- TickStep, pick <- Max

\* No node is twice in the list.
NoDuplicates == \A i, j \in 1 .. Len(nodes) : nodes[i] = nodes[j] => i = j

\* The local node stays a member and online.
LocalStays == LocalId \in Members /\ node_state[LocalId] = "ONLINE"

\* The inductive invariant.
ClusterInv ==
    /\ ClusterTypeOK
    /\ NoDuplicates
    /\ Len(nodes) <= CLUSTER_MAX_NODES
    /\ LocalStays
    /\ CountExact
    /\ LeaderAlive

LEMMA CountMembers ==
  ASSUME NEW S, NEW ns \in Seq(S), \A i, j \in 1 .. Len(ns) : ns[i] = ns[j] => i = j
  PROVE  /\ IsFiniteSet(Range(ns))
         /\ Cardinality(Range(ns)) = Len(ns)
<1>1. \A T : (IsFiniteSet(T) <=> Tick!IsFiniteSet(T)) /\ Cardinality(T) = Tick!Cardinality(T)
  BY DEF IsFiniteSet, Tick!IsFiniteSet, Cardinality, Tick!Cardinality
<1> QED
  BY <1>1, Tick!CountMembers DEF Range, Tick!Distinct, Tick!Elements

\* The members that are online are finite in number and fit the table.
LEMMA OnlineBounded ==
  ASSUME ClusterTypeOK, NoDuplicates, Len(nodes) <= CLUSTER_MAX_NODES, NEW st
  PROVE  /\ IsFiniteSet(Members) /\ Members \subseteq NodeId
         /\ IsFiniteSet(Online(st)) /\ Online(st) \subseteq Members
         /\ Cardinality(Online(st)) \in 0 .. CLUSTER_MAX_NODES
<1>1. IsFiniteSet(Members) /\ Cardinality(Members) = Len(nodes)
  BY CountMembers DEF ClusterTypeOK, NoDuplicates, Members
<1>2. Members \subseteq NodeId
  BY DEF ClusterTypeOK, Members, Range
<1>3. Online(st) \subseteq Members
  BY DEF Online
<1>4. IsFiniteSet(Online(st)) /\ Cardinality(Online(st)) <= Cardinality(Members)
  BY <1>1, <1>3, FS_Subset
<1>5. Cardinality(Online(st)) \in Nat
  BY <1>4, FS_CardinalityType
<1>6. CLUSTER_MAX_NODES \in Nat /\ Len(nodes) \in Nat
  BY ClusterConstants DEF ClusterTypeOK
<1> QED
  BY <1>1, <1>2, <1>3, <1>4, <1>5, <1>6

\* An election among online nodes chooses one of them.
LEMMA Elected ==
  ASSUME NEW on, on \subseteq NodeId, on # {}, NEW leader
  PROVE  cluster_elect_leader(on, leader) \in on
<1>1. on \subseteq Nat
  BY ClusterConstants
<1>2. \E m \in on : \A y \in on : m <= y
  BY <1>1, Tick!LeastMember
<1> QED
  BY <1>2 DEF cluster_elect_leader, Min

LEMMA ClusterStart == ClusterInit => ClusterInv
<1> SUFFICES ASSUME ClusterInit PROVE ClusterInv
  OBVIOUS
<1>1. Members = {LocalId} /\ LocalId \in NodeId /\ Len(nodes) = 1 /\ nodes \in Seq(NodeId)
  BY ClusterConstants DEF ClusterInit, Members, Range
<1>2. ClusterTypeOK /\ NoDuplicates /\ LocalStays /\ LeaderAlive
  BY <1>1, ClusterConstants DEF ClusterInit, ClusterTypeOK, NoDuplicates, LocalStays, LeaderAlive, NodeState
<1>3. Online(node_state) = {LocalId}
  BY <1>1 DEF ClusterInit, Online
<1>4. Cardinality(Online(node_state)) = 1
  BY <1>3, FS_Singleton
<1>5. CountExact
  BY <1>4 DEF ClusterInit, CountExact
<1>6. Len(nodes) <= CLUSTER_MAX_NODES
  BY <1>1, ClusterConstants
<1> QED
  BY <1>2, <1>5, <1>6 DEF ClusterInv

LEMMA QuorumFits ==
  ASSUME NEW n \in 0 .. CLUSTER_MAX_NODES
  PROVE  quorum_of(n) \in 1 .. CLUSTER_MAX_NODES
  BY ClusterConstants DEF quorum_of

\* A node joins: one more member, one more online.
LEMMA ClusterAdd ==
  ASSUME ClusterInv, NEW n \in NodeId, cluster_add_node(n)
  PROVE  ClusterInv'
<1> USE DEF ClusterInv
<1>1. /\ nodes' \in Seq(NodeId) /\ Len(nodes') = Len(nodes) + 1
      /\ NoDuplicates' /\ Members' = Members \cup {n}
  <2>1. /\ nodes \in Seq(NodeId) /\ nodes' = <<n>> \o nodes
        /\ n \notin Tick!Elements(nodes) /\ Tick!Distinct(nodes)
    BY DEF cluster_add_node, ClusterTypeOK, NoDuplicates, Members, Range, Tick!Elements, Tick!Distinct
  <2>2. nodes' \in Seq(NodeId)
    BY ONLY <2>1, n \in NodeId, Tick!LinkIn, Zenon
  <2>3. Len(nodes') = Len(nodes) + 1
    BY ONLY <2>1, n \in NodeId, Tick!LinkIn, Zenon
  <2>4. Tick!Distinct(nodes')
    BY ONLY <2>1, n \in NodeId, Tick!LinkIn, Zenon
  <2>5. Tick!Elements(nodes') = Tick!Elements(nodes) \cup {n}
    BY ONLY <2>1, n \in NodeId, Tick!LinkIn, ZenonT(60)
  <2> QED
    <3>1. NoDuplicates'
      BY <2>4 DEF NoDuplicates, Tick!Distinct
    <3>2. Members' = Members \cup {n}
      BY <2>5 DEF Members, Range, Tick!Elements
    <3> QED
      BY <2>2, <2>3, <3>1, <3>2
<1>2. /\ n \notin Members /\ Len(nodes) \in Nat /\ Len(nodes') <= CLUSTER_MAX_NODES
      /\ node_state' = [node_state EXCEPT ![n] = "ONLINE"]
      /\ UNCHANGED <<has_quorum, leader_id, is_leader>>
  BY <1>1, ClusterConstants DEF cluster_add_node, ClusterTypeOK
<1>3. Online(node_state)' = Online(node_state) \cup {n}
  BY <1>1, <1>2, OnlineBounded DEF Online, ClusterTypeOK
<1>4. n \notin Online(node_state) /\ IsFiniteSet(Online(node_state))
  BY <1>2, OnlineBounded DEF Online
<1>5. Cardinality(Online(node_state)') = Cardinality(Online(node_state)) + 1
  BY <1>3, <1>4, FS_AddElement
<1>6. CountExact'
  BY <1>5 DEF cluster_add_node, CountExact
<1>7. quorum_size' \in 1 .. CLUSTER_MAX_NODES
  BY <1>1, <1>2, QuorumFits DEF cluster_add_node
<1>8. online_count' \in 0 .. CLUSTER_MAX_NODES
  <2>1. Cardinality(Members) = Len(nodes) /\ Cardinality(Online(node_state)) <= Cardinality(Members)
    BY CountMembers, OnlineBounded, FS_Subset DEF ClusterTypeOK, NoDuplicates, Members
  <2>2. Cardinality(Online(node_state)) \in Nat
    BY <1>4, FS_CardinalityType
  <2> QED
    BY <1>1, <1>2, <2>1, <2>2, ClusterConstants DEF cluster_add_node
<1>9. ClusterTypeOK'
  BY <1>1, <1>2, <1>7, <1>8 DEF ClusterTypeOK, NodeState
<1>10. LocalStays' /\ LeaderAlive'
  BY <1>1, <1>2, ClusterConstants DEF LocalStays, LeaderAlive, ClusterTypeOK
<1> QED
  BY <1>1, <1>2, <1>6, <1>9, <1>10

\* A node leaves, live or failed: it is no member any more.
LEMMA ClusterRemove ==
  ASSUME ClusterInv, NEW n \in NodeId, cluster_remove_node(n)
  PROVE  ClusterInv'
<1> USE DEF ClusterInv
<1>1. \E p \in 1 .. Len(nodes) : nodes[p] = n /\ nodes' = RemoveAt(nodes, p)
  <2>1. \E i \in 1 .. Len(nodes) : nodes[i] = n
    BY DEF cluster_remove_node, Members, Range, ClusterTypeOK
  <2> DEFINE J == {i \in 1 .. Len(nodes) : nodes[i] = n}
  <2>2. J \subseteq Nat /\ J # {}
    BY <2>1
  <2>3. \E m \in J : \A y \in J : m <= y
    BY <2>2, Tick!LeastMember
  <2>4. Min(J) \in J
    BY <2>3 DEF Min
  <2>5. nodes' = RemoveAt(nodes, Min(J))
    BY <2>1, <2>2 DEF cluster_remove_node, RemoveFirst, SelectInSeq
  <2> QED
    BY <2>4, <2>5
<1>2. /\ nodes' \in Seq(NodeId) /\ Len(nodes') = Len(nodes) - 1
      /\ NoDuplicates' /\ Members' = Members \ {n}
  <2>1. PICK p \in 1 .. Len(nodes) : nodes[p] = n /\ nodes' = RemoveAt(nodes, p)
    BY <1>1
  <2>2. /\ nodes \in Seq(NodeId)
        /\ nodes' = SubSeq(nodes, 1, p - 1) \o SubSeq(nodes, p + 1, Len(nodes))
        /\ Tick!Distinct(nodes)
    BY <2>1 DEF RemoveAt, ClusterTypeOK, NoDuplicates, Tick!Distinct
  <2>3. nodes' \in Seq(NodeId)
    BY ONLY <2>2, p \in 1 .. Len(nodes), Tick!Unlink, Zenon
  <2>4. Len(nodes') = Len(nodes) - 1
    BY ONLY <2>2, p \in 1 .. Len(nodes), Tick!Unlink, Zenon
  <2>5. Tick!Distinct(nodes')
    BY ONLY <2>2, p \in 1 .. Len(nodes), Tick!Unlink, Zenon
  <2>6. Tick!Elements(nodes') = Tick!Elements(nodes) \ {nodes[p]}
    BY ONLY <2>2, p \in 1 .. Len(nodes), Tick!Unlink, Zenon
  <2> QED
    BY <2>1, <2>3, <2>4, <2>5, <2>6 DEF NoDuplicates, Members, Range, Tick!Elements, Tick!Distinct
<1>3. /\ n # LocalId /\ Len(nodes) \in Nat /\ Len(nodes') \in 0 .. CLUSTER_MAX_NODES
      /\ node_state' = [node_state EXCEPT ![n] = "LEAVING"]
      /\ UNCHANGED <<has_quorum, leader_id, is_leader>>
  BY <1>2, ClusterConstants DEF cluster_remove_node, ClusterTypeOK
<1>4. Online(node_state)' = Online(node_state) \ {n}
  BY <1>2, <1>3, OnlineBounded DEF Online, ClusterTypeOK
<1>5. CountExact'
  BY <1>4 DEF cluster_remove_node, CountExact
<1>6. online_count' \in 0 .. CLUSTER_MAX_NODES
  <2>1. IsFiniteSet(Online(node_state)) /\ Cardinality(Online(node_state)) \in 0 .. CLUSTER_MAX_NODES
    BY OnlineBounded
  <2>2. /\ IsFiniteSet(Online(node_state) \ {n})
        /\ Cardinality(Online(node_state) \ {n}) <= Cardinality(Online(node_state))
    BY <2>1, FS_Subset
  <2>3. Cardinality(Online(node_state) \ {n}) \in Nat
    BY <2>2, FS_CardinalityType
  <2> QED
    BY <2>1, <2>2, <2>3, ClusterConstants DEF cluster_remove_node
<1>7. quorum_size' \in 1 .. CLUSTER_MAX_NODES
  BY <1>2, <1>3, QuorumFits DEF cluster_remove_node
<1>8. ClusterTypeOK'
  BY <1>2, <1>3, <1>6, <1>7 DEF ClusterTypeOK, NodeState
<1>9. LocalStays' /\ LeaderAlive'
  BY <1>2, <1>3, OnlineBounded, ClusterConstants DEF LocalStays, LeaderAlive, ClusterTypeOK
<1> QED
  BY <1>2, <1>3, <1>5, <1>8, <1>9, ClusterConstants

\* A quorum check and an election change only their own results.
LEMMA ClusterCheck ==
  ASSUME ClusterInv, check_quorum
  PROVE  ClusterInv'
  BY DEF ClusterInv, check_quorum, ClusterTypeOK, NoDuplicates, LocalStays, CountExact,
     LeaderAlive, Members, Online

LEMMA ClusterElect ==
  ASSUME ClusterInv, elect
  PROVE  ClusterInv'
<1> USE DEF ClusterInv
<1>1. LocalId \in Online(node_state) /\ Online(node_state) \subseteq Members /\ Members \subseteq NodeId
  BY OnlineBounded DEF LocalStays, Online
<1>2. leader_id' \in Online(node_state)
  BY <1>1, Elected DEF elect
<1>3. UNCHANGED <<nodes, node_state, online_count, quorum_size, has_quorum>>
  BY DEF elect
<1>4. is_leader' \in BOOLEAN
  BY <1>1 DEF elect
<1>5. ClusterTypeOK'
  BY <1>1, <1>2, <1>3, <1>4 DEF ClusterTypeOK
<1>6. LeaderAlive'
  BY <1>2, <1>3 DEF LeaderAlive, Online
<1> QED
  BY <1>3, <1>5, <1>6 DEF NoDuplicates, LocalStays, CountExact, Members, Online

\* The loop of cluster_tick visits the nodes in the order of the list.
LEMMA TickIsFold ==
  ASSUME NEW start, NEW list, NEW silent
  PROVE  FoldLeft(LAMBDA c, n : IF n \in silent THEN FailNode(c, n) ELSE c, start, list)
           = Tick!Fold([list |-> list, silent |-> silent], start, DOMAIN list)
  BY DEF FoldLeft, MapThenFoldSet, Tick!Fold, TickStep

\* The first k nodes of the list.
Visited(k) == {nodes[i] : i \in 1 .. k}

\* What holds after the loop has passed the first k nodes: the silent ones among
\* them are failed, the count is exact and no failed member leads.
TickState == [state : [NodeId -> NodeState], count : 0 .. CLUSTER_MAX_NODES, leader : NodeId,
              quorum : BOOLEAN, is_leader : BOOLEAN]
Passed(k, silent) ==
    {c \in TickState :
        /\ \A m \in NodeId : c.state[m] = IF m \in silent /\ m \in Visited(k)
                                         THEN "FAILED" ELSE node_state[m]
        /\ c.count = Cardinality(Online(c.state))
        /\ c.leader \in Members => c.state[c.leader] = "ONLINE"}

\* One silent node is failed.
LEMMA ClusterFail ==
  ASSUME ClusterInv, NEW silent, silent \subseteq Online(node_state) \ {LocalId},
         NEW k \in 0 .. Len(nodes) - 1, NEW c \in Passed(k, silent), nodes[k + 1] \in silent
  PROVE  FailNode(c, nodes[k + 1]) \in Passed(k + 1, silent)
<1> USE DEF ClusterInv
<1> DEFINE n == nodes[k + 1]
           st == [c.state EXCEPT ![n] = "FAILED"]
           d == FailNode(c, n)
<1>1. /\ c \in TickState /\ c.count = Cardinality(Online(c.state))
      /\ \A m \in NodeId : c.state[m] = IF m \in silent /\ m \in Visited(k)
                                       THEN "FAILED" ELSE node_state[m]
  BY DEF Passed
<1>2. n \in Members /\ n \in NodeId /\ n # LocalId /\ n \in silent /\ node_state[n] = "ONLINE"
  BY OnlineBounded DEF Online, Members, Range, ClusterTypeOK
<1>3. n \notin Visited(k)
  BY DEF Visited, NoDuplicates, ClusterTypeOK
<1>4. Visited(k + 1) = Visited(k) \cup {n}
  <2>1. k \in Nat /\ \A i : i \in 1 .. k + 1 <=> (i \in 1 .. k \/ i = k + 1)
    BY DEF ClusterTypeOK
  <2> QED
    BY ONLY <2>1 DEF Visited, n
<1>5. c.state \in [NodeId -> NodeState] /\ c.count \in 0 .. CLUSTER_MAX_NODES
  BY <1>1 DEF TickState
<1>6. st \in [NodeId -> NodeState] /\ \A m \in NodeId : st[m] = IF m = n THEN "FAILED" ELSE c.state[m]
  BY <1>5, <1>2 DEF NodeState
<1>7. \A m \in NodeId : st[m] = IF m \in silent /\ m \in Visited(k + 1)
                               THEN "FAILED" ELSE node_state[m]
  BY <1>1, <1>2, <1>4, <1>6
<1>8. Members \subseteq NodeId /\ IsFiniteSet(Online(c.state)) /\ Online(st) \subseteq Members
  BY OnlineBounded
<1>9. Online(st) = Online(c.state) \ {n} /\ n \in Online(c.state)
  BY <1>1, <1>2, <1>3, <1>6, <1>8 DEF Online
<1>10. LocalId \in Online(st)
  BY <1>1, <1>2, <1>6, ClusterConstants DEF Online, LocalStays
<1>11. Cardinality(Online(st)) = Cardinality(Online(c.state)) - 1
  BY <1>8, <1>9, FS_RemoveElement
<1> HIDE DEF st
<1>12. Cardinality(Online(st)) \in 0 .. CLUSTER_MAX_NODES
  BY OnlineBounded
<1>13. (c.count + UINT32 - 1) % UINT32 = c.count - 1
  <2>1. UINT32 \in Nat /\ c.count \in 1 .. UINT32 - 1
    BY <1>1, <1>5, <1>11, <1>12, ClusterConstants
  <2> QED
    BY <2>1, Tick!CountDown
<1>14. cluster_elect_leader(Online(st), c.leader) \in Online(st)
  BY <1>8, <1>10, Elected
<1>15. /\ d.state = st /\ d.count = (c.count + UINT32 - 1) % UINT32
       /\ d.leader = cluster_elect_leader(Online(st), c.leader)
       /\ d = [state |-> st, count |-> d.count, leader |-> d.leader,
               quorum |-> d.quorum, is_leader |-> d.is_leader]
       /\ d.quorum \in BOOLEAN
       /\ d.is_leader = (d.leader = LocalId)
  BY <1>10 DEF FailNode, st
<1>16. d.count = Cardinality(Online(st))
  BY <1>1, <1>11, <1>13, <1>15
<1>17. d.leader \in Online(st) /\ d.leader \in NodeId
  BY <1>8, <1>14, <1>15
<1>18. d.is_leader \in BOOLEAN
  BY <1>15
<1> HIDE DEF d, n
<1>19. d \in TickState
  BY <1>6, <1>12, <1>15, <1>16, <1>17, <1>18 DEF TickState
<1>20. d.state[d.leader] = "ONLINE"
  BY <1>15, <1>17 DEF Online
<1> QED
  BY <1>7, <1>15, <1>16, <1>19, <1>20 DEF Passed, d, n

\* A tick fails the silent nodes, one after the other.
LEMMA ClusterTick ==
  ASSUME ClusterInv, NEW silent \in SUBSET NodeId, cluster_tick(silent)
  PROVE  ClusterInv'
<1> USE DEF ClusterInv
<1> DEFINE e == [list |-> nodes, silent |-> silent]
           start == [state |-> node_state, count |-> online_count, leader |-> leader_id,
                     quorum |-> has_quorum, is_leader |-> is_leader]
           end == Tick!Fold(e, start, 1 .. Len(nodes))
           I == [k \in 0 .. Len(nodes) |-> Passed(k, silent)]
<1>1. silent \subseteq Online(node_state) \ {LocalId}
  BY DEF cluster_tick
<1>2. start \in I[0]
  <2>1. start \in TickState
    BY DEF TickState, ClusterTypeOK
  <2>2. Visited(0) = {}
    BY DEF Visited
  <2>3. start \in Passed(0, silent)
    BY <2>1, <2>2 DEF Passed, CountExact, LeaderAlive
  <2>4. 0 \in 0 .. Len(nodes)
    BY DEF ClusterTypeOK
  <2> QED
    BY <2>3, <2>4
<1>3. ASSUME NEW k \in 0 .. Len(nodes) - 1, NEW c \in I[k]
      PROVE  TickStep(e, k + 1, c) \in I[k + 1]
  <2>1. c \in Passed(k, silent) /\ k + 1 \in 0 .. Len(nodes) /\ k \in Nat
    BY <1>3 DEF ClusterTypeOK
  <2>2. I[k + 1] = Passed(k + 1, silent)
    BY <2>1
  <2>3. CASE nodes[k + 1] \in silent
    BY <1>1, <2>1, <2>2, <2>3, ClusterFail DEF TickStep
  <2>4. CASE nodes[k + 1] \notin silent
    <3>1. Visited(k + 1) = Visited(k) \cup {nodes[k + 1]}
      BY <2>1 DEF Visited
    <3>2. c \in Passed(k + 1, silent)
      BY <2>1, <2>4, <3>1 DEF Passed
    <3> QED
      BY <2>2, <2>4, <3>2 DEF TickStep
  <2> QED
    BY <2>3, <2>4
<1>4. Len(nodes) \in Nat /\ DOMAIN nodes = 1 .. Len(nodes)
  BY DEF ClusterTypeOK
<1>5. Tick!PicksLast(Len(nodes))
  BY <1>4, Tick!GreatestMember DEF Tick!PicksLast, Max
<1>6. end \in Passed(Len(nodes), silent)
  <2> HIDE DEF e, start, I
  <2>1. end \in I[Len(nodes)]
    BY <1>2, <1>3, <1>4, <1>5, Tick!FoldSeqInduction
  <2> QED
    BY <1>4, <2>1 DEF I
<1>7. /\ node_state' = end.state /\ online_count' = end.count /\ leader_id' = end.leader
      /\ has_quorum' = end.quorum /\ is_leader' = end.is_leader
      /\ UNCHANGED <<nodes, quorum_size>>
  BY <1>4, TickIsFold DEF cluster_tick
<1> HIDE DEF end
<1>8. /\ end \in TickState
      /\ end.count = Cardinality(Online(end.state))
      /\ end.leader \in Members => end.state[end.leader] = "ONLINE"
      /\ \A m \in NodeId : m \notin silent => end.state[m] = node_state[m]
  BY <1>6 DEF Passed
<1>9. ClusterTypeOK' /\ NoDuplicates' /\ Len(nodes') <= CLUSTER_MAX_NODES
  BY <1>7, <1>8 DEF ClusterTypeOK, NoDuplicates, TickState
<1>10. Members' = Members /\ Online(node_state)' = Online(end.state)
  BY <1>7 DEF Members, Online
<1>11. LocalStays'
  BY <1>1, <1>7, <1>8, <1>10, ClusterConstants DEF LocalStays
<1>12. CountExact' /\ LeaderAlive'
  BY <1>7, <1>8, <1>10 DEF CountExact, LeaderAlive
<1> QED
  BY <1>9, <1>11, <1>12

\* The invariant holds in every state, whatever the nodes and the table size.
THEOREM ClusterInvariant == ClusterSpec => []ClusterInv
<1>1. ClusterInit => ClusterInv
  BY ClusterStart
<1>2. ASSUME ClusterInv, [ClusterNext]_cluster_vars PROVE ClusterInv'
  <2>1. ASSUME NEW n \in NodeId, cluster_add_node(n) PROVE ClusterInv'
    BY <1>2, <2>1, ClusterAdd
  <2>2. ASSUME NEW n \in NodeId, cluster_remove_node(n) PROVE ClusterInv'
    BY <1>2, <2>2, ClusterRemove
  <2>3. ASSUME NEW silent \in SUBSET NodeId, cluster_tick(silent) PROVE ClusterInv'
    BY <1>2, <2>3, ClusterTick
  <2>4. ASSUME check_quorum PROVE ClusterInv'
    BY <1>2, <2>4, ClusterCheck
  <2>5. ASSUME elect PROVE ClusterInv'
    BY <1>2, <2>5, ClusterElect
  <2>6. ASSUME UNCHANGED cluster_vars PROVE ClusterInv'
    BY <1>2, <2>6 DEF cluster_vars, ClusterInv, ClusterTypeOK, NoDuplicates, LocalStays, CountExact,
       LeaderAlive, Members, Online
  <2> QED
    BY <1>2, <2>1, <2>2, <2>3, <2>4, <2>5, <2>6 DEF ClusterNext
<1> QED
  BY <1>1, <1>2, PTL DEF ClusterSpec

\* online_count is the number of online members after any order of joins,
\* departures and ticks: the decrements of cluster_tick never wrap around, and
\* what cluster_add_node and cluster_remove_node recompute agrees with them.
THEOREM CountIsExact == ClusterSpec => []OnlineCountExact
<1>1. ClusterInv => OnlineCountExact
  BY DEF ClusterInv, OnlineCountExact
<1> QED
  BY <1>1, ClusterInvariant, PTL

\* No failed member leads: cluster_tick elects again after every failure, and
\* the local node is always there to be elected.
THEOREM LeaderIsAlive == ClusterSpec => []LeaderAlive
<1>1. ClusterInv => LeaderAlive
  BY DEF ClusterInv
<1> QED
  BY <1>1, ClusterInvariant, PTL
-----------------------------------------------------------------------------
(* Api: what a request does and what its response tells. *)

\* The parsed request depends on nothing but its method and path.
LEMMA Parsed ==
  ASSUME NEW m, NEW p
  PROVE  LET q == parse_path(NewRequest(m, p)) IN
         /\ q.method = m /\ q.path = p /\ q.resource = p[1]
         /\ q.id = IF Len(p) > 1 THEN p[2] ELSE Empty
         /\ q.action = IF Len(p) > 2 THEN p[3] ELSE Nil
  BY DEF parse_path, NewRequest, NoRequest

\* A path has at most three segments.
LEMMA PathLength ==
  ASSUME NEW p \in Paths
  PROVE  Len(p) \in 1 .. 3
  BY DEF Paths

\* A request that is turned down changes nothing, and says so.
Refused == UNCHANGED vars /\ resp'.status \notin {"ACCEPTED", "OK"}

LEMMA RefusedAnswer ==
  ASSUME Refused, before' = vm_state
  PROVE  AnsweredAsAsked'
  BY DEF Refused, AnsweredAsAsked, vars

\* An action that is accepted leads its VM, and no other, to the goal of the action.
LEMMA ActionDone ==
  ASSUME SchedulerInv, NEW v \in Known, NEW a, Allowed(v, a), virt_vm_action(v, a)
  PROVE  /\ SchedulerInv'
         /\ vm_state'[v] = Goal[a]
         /\ \A w \in VM \ {v} : vm_state'[w] = vm_state[w]
<1>1. v \in VM /\ vm_state \in [VM -> VmState \cup {Nil}]
  BY KnownVm DEF SchedulerInv, ListOK
<1>2. a \in {"start", "stop", "pause", "resume"}
  BY DEF Allowed
<1>3. CASE a = "start"
  <2>1. virt_vm_start(v)
    BY <1>3 DEF virt_vm_action
  <2> QED
    BY <1>1, <1>3, <2>1, StartKeeps DEF virt_vm_start, Goal
<1>4. CASE a = "stop"
  <2>1. virt_vm_stop(v)
    BY <1>4 DEF virt_vm_action
  <2> QED
    BY <1>1, <1>4, <2>1, StopKeeps DEF virt_vm_stop, Goal
<1>5. CASE a = "pause"
  <2>1. virt_vm_pause(v)
    BY <1>5 DEF virt_vm_action
  <2> QED
    BY <1>1, <1>5, <2>1, PauseKeeps DEF virt_vm_pause, Goal
<1>6. CASE a = "resume"
  <2>1. virt_vm_resume(v)
    BY <1>6 DEF virt_vm_action
  <2> QED
    BY <1>1, <1>6, <2>1, PauseKeeps DEF virt_vm_resume, Goal
<1> QED
  BY <1>2, <1>3, <1>4, <1>5, <1>6

\* A list of the VMs shows them from the head of the manager's list, as many as fit.
LEMMA ListIsPrefix ==
  ASSUME SchedulerInv, UNCHANGED vars, before' = vm_state,
         NEW shown \in Listed(Len(vms)),
         resp' = Answer("OK", [i \in 1 .. shown |-> json_vm_info(vms[i])])
  PROVE  AnsweredAsAsked'
<1>1. vms \in Seq(VM) /\ Len(vms) \in Nat /\ ListRoom \in Nat
  BY ApiConstants DEF SchedulerInv, TypeOK, ListOK
<1>2. vms' = vms /\ vm_state' = vm_state /\ host' = host
  BY DEF vars
<1>3. /\ shown \in Nat /\ shown <= Len(vms)
      /\ shown < Len(vms) => shown >= ListRoom
  BY <1>1 DEF Listed
<1> DEFINE body == [i \in 1 .. shown |-> json_vm_info(vms[i])]
<1>4. resp'.status = "OK" /\ resp'.body = body
  BY DEF Answer
<1>5. Len(body) = shown /\ DOMAIN body = 1 .. shown
  <2>1. body \in Seq({json_vm_info(vms[i]) : i \in 1 .. shown})
    BY <1>3
  <2> QED
    BY <1>3, <2>1
<1>6. \A i \in DOMAIN body : body[i].vm = vms[i] /\ body[i].state = vm_state[vms[i]]
  BY <1>2, <1>5 DEF json_vm_info
<1> HIDE DEF body
<1> QED
  BY <1>2, <1>3, <1>4, <1>5, <1>6 DEF AnsweredAsAsked

\* A request keeps the manager sound and is answered as it was asked.
LEMMA RequestStep ==
  ASSUME SchedulerInv, NEW m \in Methods, NEW p \in Paths, api_handle_request(m, p)
  PROVE  SchedulerInv' /\ AnsweredAsAsked'
<1> DEFINE q == parse_path(NewRequest(m, p))
<1>1. /\ q.method = m /\ q.path = p /\ q.resource = p[1]
      /\ q.id = IF Len(p) > 1 THEN p[2] ELSE Empty
      /\ q.action = IF Len(p) > 2 THEN p[3] ELSE Nil
  BY Parsed
<1>2. req' = q /\ before' = vm_state
  BY DEF api_handle_request
<1>3. Len(p) \in 1 .. 3
  BY PathLength
<1>4. UNCHANGED vars => SchedulerInv'
  BY SchedulerNext
<1>5. Refused => SchedulerInv' /\ AnsweredAsAsked'
  BY <1>2, <1>4, RefusedAnswer DEF Refused
<1> HIDE DEF q
<1>6. CASE q.resource = "vms"
  <2>1. handle_vms(q)
    BY <1>2, <1>6 DEF api_handle_request, q
  <2>2. CASE UNCHANGED vars /\ \E shown \in Listed(Len(vms)) :
                resp' = Answer("OK", [i \in 1 .. shown |-> json_vm_info(vms[i])])
    BY <1>2, <1>4, <2>2, ListIsPrefix
  <2>3. CASE \E v \in VmOf(q.id) :
             /\ m = "POST" /\ q.action # Nil
             /\ Allowed(v, q.action) /\ virt_vm_action(v, q.action)
             /\ resp' = Answer("ACCEPTED", <<json_vm_info(v)>>)
    <3> PICK v \in VmOf(q.id) :
             /\ m = "POST" /\ q.action # Nil
             /\ Allowed(v, q.action) /\ virt_vm_action(v, q.action)
             /\ resp' = Answer("ACCEPTED", <<json_vm_info(v)>>)
      BY <2>3
    <3>1. Len(p) = 3 /\ q.id = p[2] /\ q.action = p[3]
      BY <1>1, <1>3
    <3>2. v \in Known
      BY DEF VmOf
    <3>3. /\ SchedulerInv' /\ vm_state'[v] = Goal[p[3]]
          /\ \A w \in VM \ {v} : vm_state'[w] = vm_state[w]
      BY <3>1, <3>2, ActionDone
    <3>4. /\ resp'.status = "ACCEPTED"
          /\ resp'.body = <<[vm |-> v, state |-> vm_state'[v], host |-> host'[v]]>>
      BY DEF Answer, json_vm_info
    <3>5. req'.path = p /\ req'.method = "POST"
      BY <1>1, <1>2
    <3>6. vms' = vms
      <4>1. q.action \in {"start", "stop", "pause", "resume"}
        BY DEF Allowed
      <4>2. virt_vm_start(v) \/ virt_vm_stop(v) \/ virt_vm_pause(v) \/ virt_vm_resume(v)
        BY <4>1 DEF virt_vm_action
      <4> QED
        BY <4>2 DEF virt_vm_start, virt_vm_stop, virt_vm_pause, virt_vm_resume
    <3>7. VmOf(p[2])' = VmOf(p[2])
      <4>1. Known' = Known
        BY <3>6 DEF Known
      <4> QED
        BY <4>1 DEF VmOf
    <3>8. v \in VmOf(p[2])'
      BY <3>1, <3>7
    <3>9. \A w \in VM \ {v} : vm_state'[w] = before'[w]
      BY <1>2, <3>3
    <3>10. (VmOf(req.path[2]))' = VmOf(p[2])'
      BY <3>5 DEF VmOf
    <3> QED
      BY <3>1, <3>3, <3>4, <3>5, <3>8, <3>9, <3>10 DEF AnsweredAsAsked
  <2>4. CASE UNCHANGED vars /\ \E ns \in {"ERROR", "NOT_FOUND", "CONFLICT", "BAD_REQUEST"} :
                                  resp' = api_response_error(ns)
    BY <1>5, <2>4 DEF Refused, api_response_error
  <2> QED
    BY <1>1, <2>1, <2>2, <2>3, <2>4 DEF handle_vms
<1>7. CASE q.resource # "vms"
  <2>1. UNCHANGED vars
    BY <1>2, <1>7 DEF api_handle_request
  <2>2. resp'.status \in {"OK", "BAD_REQUEST", "NOT_FOUND"}
    BY <1>2, <1>7 DEF api_handle_request, handle_cluster, handle_nodes, handle_pools,
                      api_response_error, Answer
  <2>3. req'.path # <<"vms">>
    BY <1>1, <1>2, <1>7
  <2> QED
    BY <1>2, <1>4, <2>1, <2>2, <2>3 DEF AnsweredAsAsked, vars
<1> QED
  BY <1>6, <1>7

\* The manager's other callers leave no response behind.
LEMMA ElsewhereStep ==
  ASSUME SchedulerInv, Elsewhere
  PROVE  SchedulerInv' /\ AnsweredAsAsked'
<1>1. [Next]_vars
  BY DEF Elsewhere, Next, Start, Stop, Move
<1>2. resp'.status = "NONE" /\ before' = vm_state'
  BY DEF Elsewhere, NoResponse
<1> QED
  BY <1>1, <1>2, SchedulerNext DEF AnsweredAsAsked

\* Every response of the API tells what its request did, for every set of VMs and
\* nodes and whatever came before: an accepted action led the VM with the number read
\* from the path, and no other, to its goal, any other answer means that nothing
\* changed, and a list shows the manager's list from its head, all of it or as much
\* as the body has room for (parse_path, handle_vms).
THEOREM RequestsAreAnswered == ApiSpec => []AnsweredAsAsked
<1>1. ApiInit => SchedulerInv /\ AnsweredAsAsked
  BY SchedulerInit DEF ApiInit, AnsweredAsAsked, NoResponse
<1>2. SchedulerInv /\ AnsweredAsAsked /\ [ApiNext]_all_vars => (SchedulerInv /\ AnsweredAsAsked)'
  <2> SUFFICES ASSUME SchedulerInv, AnsweredAsAsked, [ApiNext]_all_vars
               PROVE  SchedulerInv' /\ AnsweredAsAsked'
    OBVIOUS
  <2>1. CASE ApiNext
    BY <2>1, RequestStep, ElsewhereStep DEF ApiNext
  <2>2. CASE UNCHANGED all_vars
    <3>1. UNCHANGED vars /\ UNCHANGED <<req, resp, before>>
      BY <2>2 DEF all_vars
    <3> QED
      BY <3>1, SchedulerNext DEF AnsweredAsAsked, vars, VmOf, Known
  <2> QED
    BY <2>1, <2>2
<1> QED
  BY <1>1, <1>2, PTL DEF ApiSpec

-----------------------------------------------------------------------------
(* Page tables: addresses. *)

LEMMA SizeIs ==
  /\ Size(1) = 1 /\ Size(2) = ENTRIES /\ Size(3) = ENTRIES * ENTRIES
  /\ Size(4) = ENTRIES * Size(3)
  /\ \A k \in 1 .. 4 : Size(k) \in Nat \ {0}
<1>1. ENTRIES \in Nat \ {0}
  BY PageTableConstants
<1>2. /\ Size(1) = 1 /\ Size(2) = ENTRIES /\ Size(3) = ENTRIES * ENTRIES
      /\ Size(4) = ENTRIES * ENTRIES * ENTRIES
  BY DEF Size
<1>3. ENTRIES * ENTRIES \in Nat \ {0}
  BY <1>1
<1>4. ENTRIES * ENTRIES * ENTRIES \in Nat \ {0} /\ ENTRIES * ENTRIES * ENTRIES = ENTRIES * (ENTRIES * ENTRIES)
  BY <1>1, <1>3
<1>5. \A k \in 1 .. 4 : k = 1 \/ k = 2 \/ k = 3 \/ k = 4
  OBVIOUS
<1> QED
  BY <1>1, <1>2, <1>3, <1>4, <1>5

\* Division by d, and by d and e after one another.
LEMMA DivMod ==
  ASSUME NEW x \in Nat, NEW d \in Nat \ {0}
  PROVE  /\ x \div d \in Nat /\ x % d \in 0 .. d - 1
         /\ x = d * (x \div d) + (x % d)
  OBVIOUS
LEMMA DivisionIs ==
  ASSUME NEW x \in Nat, NEW d \in Nat \ {0}, NEW q \in Nat, NEW r \in 0 .. d - 1, x = d * q + r
  PROVE  x \div d = q /\ x % d = r
<1>1. /\ x \div d \in Nat /\ x % d \in 0 .. d - 1
      /\ x = d * (x \div d) + (x % d)
  BY DivMod
<1> DEFINE p == x \div d
           m == x % d
<1>2. p \in Nat /\ m \in 0 .. d - 1 /\ d * p + m = d * q + r
  BY <1>1
<1> HIDE DEF p, m
<1>3. ~(p < q)
  <2> SUFFICES ASSUME p < q PROVE FALSE
    OBVIOUS
  <2>1. d * q >= d * (p + 1)
    BY <1>2
  <2>2. d * (p + 1) = d * p + d
    BY <1>2
  <2> QED
    BY <1>2, <2>1, <2>2
<1>4. ~(q < p)
  <2> SUFFICES ASSUME q < p PROVE FALSE
    OBVIOUS
  <2>1. d * p >= d * (q + 1)
    BY <1>2
  <2>2. d * (q + 1) = d * q + d
    BY <1>2
  <2> QED
    BY <1>2, <2>1, <2>2
<1>5. p = q
  BY <1>2, <1>3, <1>4
<1>6. m = r
  BY <1>2, <1>5
<1> QED
  BY <1>5, <1>6 DEF p, m
LEMMA DivDiv ==
  ASSUME NEW x \in Nat, NEW d \in Nat \ {0}, NEW e \in Nat \ {0}
  PROVE  x \div (e * d) = (x \div d) \div e
<1> DEFINE q == x \div d
           r == x % d
           p == q \div e
           m == q % e
<1>1. q \in Nat /\ r \in 0 .. d - 1 /\ x = d * q + r
  BY DivMod
<1> HIDE DEF q, r
<1>2. p \in Nat /\ m \in 0 .. e - 1 /\ q = e * p + m
  BY <1>1, DivMod
<1> HIDE DEF p, m
<1>3. d * q = (e * d) * p + d * m
  <2>1. d * q = d * (e * p + m)
    BY <1>2
  <2>2. d * (e * p + m) = d * (e * p) + d * m
    BY <1>2
  <2>3. d * (e * p) = (e * d) * p
    BY <1>2
  <2> QED
    BY <2>1, <2>2, <2>3
<1>4. d * m + r \in 0 .. e * d - 1
  <2>1. d * m <= d * (e - 1)
    BY <1>2
  <2>2. d * (e - 1) = e * d - d
    OBVIOUS
  <2>3. d * m \in Nat /\ e * d \in Nat
    BY <1>2
  <2> QED
    BY <1>1, <2>1, <2>2, <2>3
<1>5. x = (e * d) * p + (d * m + r)
  BY <1>1, <1>2, <1>3
<1>6. e * d \in Nat \ {0}
  OBVIOUS
<1>7. x \div (e * d) = p
  BY <1>2, <1>4, <1>5, <1>6, DivisionIs
<1> QED
  BY <1>7 DEF p, q

Addresses == 0 .. ENTRIES * Size(4) - 1
SameBlock(a, g, k) == a \div Size(k) = g \div Size(k)

LEMMA IndexIn ==
  ASSUME NEW a \in Nat, NEW k \in 1 .. 4
  PROVE  IndexOf(a, k) \in TabIndex /\ a \div Size(k) \in Nat
<1>1. Size(k) \in Nat \ {0} /\ ENTRIES \in Nat \ {0}
  BY SizeIs, PageTableConstants
<1>2. a \div Size(k) \in Nat
  BY <1>1, DivMod
<1>3. (a \div Size(k)) % ENTRIES \in 0 .. ENTRIES - 1
  BY <1>1, <1>2, DivMod
<1> QED
  BY <1>2, <1>3 DEF IndexOf, TabIndex

LEMMA AddressIn ==
  ASSUME NEW a \in Addresses
  PROVE  a \in Nat
<1>1. Size(4) \in Nat \ {0} /\ ENTRIES \in Nat \ {0}
  BY SizeIs, PageTableConstants
<1> QED
  BY <1>1 DEF Addresses

\* The pages of a block are those with the same quotient.
LEMMA AlignedIs ==
  ASSUME NEW g \in Nat, NEW k \in 1 .. 4
  PROVE  /\ Aligned(g, k) = Size(k) * (g \div Size(k)) /\ Aligned(g, k) \in Nat
         /\ Aligned(g, k) <= g /\ Aligned(g, k) \div Size(k) = g \div Size(k)
         /\ Aligned(g, k) % Size(k) = 0
<1> DEFINE d == Size(k)
           q == g \div d
           r == g % d
<1>1. d \in Nat \ {0}
  BY SizeIs
<1>2. q \in Nat /\ r \in 0 .. d - 1 /\ g = d * q + r
  BY <1>1, DivMod
<1>3. Aligned(g, k) = g - r
  BY DEF Aligned
<1> HIDE DEF q, r, d
<1>4. d * q \in Nat
  BY <1>1, <1>2
<1>5. Aligned(g, k) = d * q + 0 /\ Aligned(g, k) \in Nat /\ 0 \in 0 .. d - 1 /\ Aligned(g, k) <= g
  BY <1>1, <1>2, <1>3, <1>4
<1>6. Aligned(g, k) \div d = q /\ Aligned(g, k) % d = 0
  BY <1>1, <1>2, <1>5, DivisionIs
<1> QED
  BY <1>4, <1>5, <1>6 DEF d, q
LEMMA BlockIs ==
  ASSUME NEW a \in Nat, NEW g \in Nat, NEW k \in 1 .. 4
  PROVE  /\ a \in Block(g, k) <=> SameBlock(a, g, k)
         /\ SameBlock(a, g, k) => a - Aligned(g, k) = a % Size(k)
<1> DEFINE d == Size(k)
           q == g \div d
           p == a \div d
           r == a % d
<1>1. d \in Nat \ {0}
  BY SizeIs
<1>2. q \in Nat /\ p \in Nat /\ r \in 0 .. d - 1 /\ a = d * p + r
  BY <1>1, DivMod
<1>3. Aligned(g, k) = d * q /\ Aligned(g, k) \in Nat
  BY AlignedIs
<1> HIDE DEF q, p, r, d
<1>4. ASSUME p = q PROVE a \in d * q .. d * q + d - 1 /\ a - d * q = r
  BY <1>1, <1>2, <1>3, <1>4
<1>5. ASSUME a \in d * q .. d * q + d - 1 PROVE p = q
  <2>1. a - d * q \in 0 .. d - 1 /\ a = d * q + (a - d * q)
    BY <1>1, <1>2, <1>3, <1>5
  <2>2. a \div d = q
    BY <1>1, <1>2, <2>1, DivisionIs
  <2> QED
    BY <2>2 DEF p
<1>6. Block(g, k) = d * q .. d * q + d - 1
  BY <1>3 DEF Block, d
<1>7. SameBlock(a, g, k) <=> p = q
  BY DEF SameBlock, p, q, d
<1> QED
  BY <1>3, <1>4, <1>5, <1>6, <1>7 DEF r, d

\* Blocks are told apart by the indexes of their level and those above.
LEMMA TopDigit ==
  ASSUME NEW a \in Addresses
  PROVE  a \div Size(4) = IndexOf(a, 4)
<1> DEFINE d == Size(4)
           p == a \div d
           r == a % d
<1>1. d \in Nat \ {0} /\ ENTRIES \in Nat \ {0}
  BY SizeIs, PageTableConstants
<1>2. a \in Nat /\ a < ENTRIES * d
  BY <1>1 DEF Addresses
<1>3. p \in Nat /\ r \in 0 .. d - 1 /\ a = d * p + r
  BY <1>1, <1>2, DivMod
<1> HIDE DEF p, r, d
<1>4. p < ENTRIES
  <2> SUFFICES ASSUME p >= ENTRIES PROVE FALSE
    BY <1>1, <1>3
  <2>1. d * p >= d * ENTRIES /\ d * ENTRIES = ENTRIES * d
    BY <1>1, <1>3
  <2> QED
    BY <1>1, <1>2, <1>3, <2>1
<1>5. p = ENTRIES * 0 + p /\ p \in 0 .. ENTRIES - 1
  BY <1>1, <1>3, <1>4
<1>6. p % ENTRIES = p
  BY <1>1, <1>3, <1>5, DivisionIs
<1> QED
  BY <1>6 DEF p, d, IndexOf
LEMMA NextDigit ==
  ASSUME NEW a \in Nat, NEW g \in Nat, NEW k \in 1 .. 3
  PROVE  SameBlock(a, g, k) <=> (IndexOf(a, k) = IndexOf(g, k) /\ SameBlock(a, g, k + 1))
<1> DEFINE d == Size(k)
           p == a \div d
           q == g \div d
<1>1. d \in Nat \ {0} /\ ENTRIES \in Nat \ {0} /\ Size(k + 1) = ENTRIES * d
  <2>1. k = 1 \/ k = 2 \/ k = 3
    OBVIOUS
  <2> QED
    BY <2>1, SizeIs, PageTableConstants
<1>2. p \in Nat /\ q \in Nat
  BY <1>1, DivMod
<1>3. a \div Size(k + 1) = p \div ENTRIES /\ g \div Size(k + 1) = q \div ENTRIES
  BY <1>1, DivDiv
<1>4. IndexOf(a, k) = p % ENTRIES /\ IndexOf(g, k) = q % ENTRIES
  BY DEF IndexOf
<1>5. SameBlock(a, g, k) <=> p = q
  BY DEF SameBlock
<1> HIDE DEF p, q, d
<1>6. p = ENTRIES * (p \div ENTRIES) + (p % ENTRIES) /\ q = ENTRIES * (q \div ENTRIES) + (q % ENTRIES)
  BY <1>1, <1>2, DivMod
<1> QED
  BY <1>3, <1>4, <1>5, <1>6 DEF SameBlock

-----------------------------------------------------------------------------
(* Page tables: the tree.  A table has a level, and the tables that its     *)
(* entries point to are one level below; lvl is 0 for pages in no tree.     *)

TabEntries == [to : Nat, perm : SUBSET {"R", "W", "X"}, large : BOOLEAN]
TabMem == [tab : [TablePages -> [TabIndex -> TabEntries]], free : SUBSET TablePages]
IsTable(e) == Present(e) /\ ~e.large

Graded(mem, root, lvl) ==
    /\ lvl \in [TablePages -> 0 .. 4]
    /\ root \in TablePages /\ lvl[root] = 4
    /\ \A p \in mem.free : lvl[p] = 0
    /\ \A p \in TablePages, i \in TabIndex :
         lvl[p] >= 2 /\ IsTable(mem.tab[p][i]) =>
           mem.tab[p][i].to \in TablePages /\ lvl[mem.tab[p][i].to] = lvl[p] - 1
    /\ \A p, q \in TablePages, i, j \in TabIndex :
         /\ lvl[p] >= 2 /\ IsTable(mem.tab[p][i])
         /\ lvl[q] >= 2 /\ IsTable(mem.tab[q][j])
         /\ mem.tab[p][i].to = mem.tab[q][j].to
         => p = q /\ i = j
    /\ \A p \in TablePages, i \in TabIndex : lvl[p] = 4 => ~mem.tab[p][i].large

\* The tables on the way to an address, by level, and whether it gets there.
TableAt(mem, root, a, k) ==
    LET t3 == mem.tab[root][IndexOf(a, 4)].to
        t2 == mem.tab[t3][IndexOf(a, 3)].to
        t1 == mem.tab[t2][IndexOf(a, 2)].to
    IN  <<t1, t2, t3, root>>[k]
EntryAt(mem, root, a, k) == mem.tab[TableAt(mem, root, a, k)][IndexOf(a, k)]
Reaches(mem, root, a, k) == \A m \in 2 .. 4 : m > k => IsTable(EntryAt(mem, root, a, m))

LEMMA PathTop ==
  ASSUME NEW mem, NEW root, NEW a
  PROVE  TableAt(mem, root, a, 4) = root /\ Reaches(mem, root, a, 4)
  BY DEF TableAt, Reaches
LEMMA PathStep ==
  ASSUME NEW mem, NEW root, NEW a, NEW k \in 2 .. 4
  PROVE  /\ TableAt(mem, root, a, k - 1) = EntryAt(mem, root, a, k).to
         /\ Reaches(mem, root, a, k - 1) <=> (Reaches(mem, root, a, k) /\ IsTable(EntryAt(mem, root, a, k)))
<1>1. k = 2 \/ k = 3 \/ k = 4
  OBVIOUS
<1>2. TableAt(mem, root, a, k - 1) = EntryAt(mem, root, a, k).to
  <2>1. CASE k = 4
    BY <2>1 DEF TableAt, EntryAt
  <2>2. CASE k = 3
    BY <2>2 DEF TableAt, EntryAt
  <2>3. CASE k = 2
    BY <2>3 DEF TableAt, EntryAt
  <2> QED
    BY <1>1, <2>1, <2>2, <2>3
<1>3. Reaches(mem, root, a, k - 1) <=> (Reaches(mem, root, a, k) /\ IsTable(EntryAt(mem, root, a, k)))
  BY DEF Reaches
<1> QED
  BY <1>2, <1>3

\* To prove something of all levels from the top down.
LEMMA LevelsDown ==
  ASSUME NEW S, 4 \in S, \A k \in 2 .. 4 : k \in S => k - 1 \in S
  PROVE  \A k \in 1 .. 4 : k \in S
<1>1. 3 \in S
  <2>1. 4 - 1 \in S
    OBVIOUS
  <2> QED
    BY <2>1
<1>2. 2 \in S
  <2>1. 3 - 1 \in S
    BY <1>1
  <2> QED
    BY <2>1
<1>3. 1 \in S
  <2>1. 2 - 1 \in S
    BY <1>2
  <2> QED
    BY <2>1
<1> QED
  BY <1>1, <1>2, <1>3

LEMMA PathIn ==
  ASSUME NEW mem, NEW root, NEW lvl, Graded(mem, root, lvl), NEW a \in Nat
  PROVE  \A k \in 1 .. 4 : Reaches(mem, root, a, k) =>
           /\ TableAt(mem, root, a, k) \in TablePages /\ lvl[TableAt(mem, root, a, k)] = k
<1> DEFINE S == {k \in 1 .. 4 : Reaches(mem, root, a, k) =>
                   /\ TableAt(mem, root, a, k) \in TablePages /\ lvl[TableAt(mem, root, a, k)] = k}
<1>1. 4 \in S
  BY PathTop DEF Graded
<1>2. ASSUME NEW k \in 2 .. 4, k \in S PROVE k - 1 \in S
  <2> SUFFICES ASSUME Reaches(mem, root, a, k - 1)
               PROVE  TableAt(mem, root, a, k - 1) \in TablePages /\ lvl[TableAt(mem, root, a, k - 1)] = k - 1
    OBVIOUS
  <2> DEFINE t == TableAt(mem, root, a, k)
  <2>1. /\ TableAt(mem, root, a, k - 1) = EntryAt(mem, root, a, k).to
        /\ Reaches(mem, root, a, k) /\ IsTable(EntryAt(mem, root, a, k))
    BY PathStep
  <2>2. t \in TablePages /\ lvl[t] = k /\ IndexOf(a, k) \in TabIndex
    BY <1>2, <2>1, IndexIn
  <2>3. EntryAt(mem, root, a, k) = mem.tab[t][IndexOf(a, k)]
    BY DEF EntryAt
  <2> HIDE DEF t
  <2> QED
    BY <2>1, <2>2, <2>3 DEF Graded
<1> HIDE DEF S
<1>3. \A k \in 1 .. 4 : k \in S
  BY <1>1, <1>2, LevelsDown
<1> QED
  BY <1>3 DEF S

\* The index of two addresses agrees at every level above m.
SameAbove(a, g, m) == \A k \in 2 .. 4 : k > m => IndexOf(a, k) = IndexOf(g, k)

\* Two ways that are at the same table have taken the same entries.
LEMMA PathUnique ==
  ASSUME NEW mem, NEW root, NEW lvl, Graded(mem, root, lvl), NEW a \in Nat, NEW g \in Nat
  PROVE  \A k \in 1 .. 4 : Reaches(mem, root, a, k) /\ Reaches(mem, root, g, k)
           /\ TableAt(mem, root, a, k) = TableAt(mem, root, g, k) => SameAbove(a, g, k)
<1> DEFINE S == {k \in 1 .. 4 : Reaches(mem, root, a, k) /\ Reaches(mem, root, g, k)
                   /\ TableAt(mem, root, a, k) = TableAt(mem, root, g, k) => SameAbove(a, g, k)}
<1>1. 4 \in S
  BY DEF SameAbove
<1>2. ASSUME NEW k \in 2 .. 4, k \in S PROVE k - 1 \in S
  <2> SUFFICES ASSUME Reaches(mem, root, a, k - 1), Reaches(mem, root, g, k - 1),
                      TableAt(mem, root, a, k - 1) = TableAt(mem, root, g, k - 1)
               PROVE  SameAbove(a, g, k - 1)
    OBVIOUS
  <2> DEFINE t == TableAt(mem, root, a, k)
             u == TableAt(mem, root, g, k)
             i == IndexOf(a, k)
             j == IndexOf(g, k)
  <2>1. /\ TableAt(mem, root, a, k - 1) = mem.tab[t][i].to
        /\ Reaches(mem, root, a, k) /\ IsTable(mem.tab[t][i])
    BY PathStep DEF EntryAt
  <2>2. /\ TableAt(mem, root, g, k - 1) = mem.tab[u][j].to
        /\ Reaches(mem, root, g, k) /\ IsTable(mem.tab[u][j])
    BY PathStep DEF EntryAt
  <2>3. t \in TablePages /\ lvl[t] = k /\ u \in TablePages /\ lvl[u] = k
    BY <2>1, <2>2, PathIn
  <2>4. i \in TabIndex /\ j \in TabIndex
    BY IndexIn
  <2>5. t = u /\ i = j
    <3> HIDE DEF t, u, i, j
    <3> QED
      BY <2>1, <2>2, <2>3, <2>4 DEF Graded
  <2>6. SameAbove(a, g, k)
    BY <1>2, <2>1, <2>2, <2>5
  <2> QED
    BY <2>5, <2>6 DEF SameAbove
<1> HIDE DEF S
<1>3. \A k \in 1 .. 4 : k \in S
  BY <1>1, <1>2, LevelsDown
<1> QED
  BY <1>3 DEF S

\* Addresses that agree above m take the same way down to m.
LEMMA PathShared ==
  ASSUME NEW mem, NEW root, NEW a, NEW g, NEW m \in 1 .. 4, SameAbove(a, g, m)
  PROVE  \A k \in 1 .. 4 : k >= m =>
           /\ TableAt(mem, root, a, k) = TableAt(mem, root, g, k)
           /\ Reaches(mem, root, a, k) <=> Reaches(mem, root, g, k)
<1> DEFINE S == {k \in 1 .. 4 : k >= m =>
                   /\ TableAt(mem, root, a, k) = TableAt(mem, root, g, k)
                   /\ Reaches(mem, root, a, k) <=> Reaches(mem, root, g, k)}
<1>1. 4 \in S
  BY PathTop
<1>2. ASSUME NEW k \in 2 .. 4, k \in S PROVE k - 1 \in S
  <2> SUFFICES ASSUME k - 1 >= m
               PROVE  /\ TableAt(mem, root, a, k - 1) = TableAt(mem, root, g, k - 1)
                      /\ Reaches(mem, root, a, k - 1) <=> Reaches(mem, root, g, k - 1)
    OBVIOUS
  <2>1. IndexOf(a, k) = IndexOf(g, k)
    BY DEF SameAbove
  <2>2. EntryAt(mem, root, a, k) = EntryAt(mem, root, g, k)
    BY <1>2, <2>1 DEF EntryAt
  <2> QED
    BY <1>2, <2>2, PathStep
<1> HIDE DEF S
<1>3. \A k \in 1 .. 4 : k \in S
  BY <1>1, <1>2, LevelsDown
<1> QED
  BY <1>3 DEF S

\* The addresses of a block are those that share its indexes.
LEMMA BlockDigits ==
  ASSUME NEW a \in Addresses, NEW g \in Addresses
  PROVE  \A k \in 1 .. 4 : SameBlock(a, g, k) <=> (SameAbove(a, g, k) /\ IndexOf(a, k) = IndexOf(g, k))
<1> DEFINE S == {k \in 1 .. 4 : SameBlock(a, g, k) <=> (SameAbove(a, g, k) /\ IndexOf(a, k) = IndexOf(g, k))}
<1>0. a \in Nat /\ g \in Nat
  BY AddressIn
<1>1. 4 \in S
  BY TopDigit DEF SameBlock, SameAbove
<1>2. ASSUME NEW k \in 2 .. 4, k \in S PROVE k - 1 \in S
  <2>1. k - 1 \in 1 .. 3 /\ k - 1 + 1 = k
    OBVIOUS
  <2>2. SameBlock(a, g, k - 1) <=> (IndexOf(a, k - 1) = IndexOf(g, k - 1) /\ SameBlock(a, g, k))
    BY <1>0, <2>1, NextDigit
  <2>3. SameAbove(a, g, k - 1) <=> (SameAbove(a, g, k) /\ IndexOf(a, k) = IndexOf(g, k))
    BY DEF SameAbove
  <2> QED
    BY <1>2, <2>2, <2>3
<1> HIDE DEF S
<1>3. \A k \in 1 .. 4 : k \in S
  BY <1>1, <1>2, LevelsDown
<1> QED
  BY <1>3 DEF S

-----------------------------------------------------------------------------
(* Page tables: what changes when one entry does. *)

\* An address is mapped by the entry of level k.
PageAt(mem, root, a, k) ==
    /\ Reaches(mem, root, a, k)
    /\ IF k = 1 THEN EntryAt(mem, root, a, k) # Absent ELSE EntryAt(mem, root, a, k).large

\* The same way with the same entries, as far as it goes.
SameWay(mem, q, root, a, k) ==
    /\ Reaches(q, root, a, k) <=> Reaches(mem, root, a, k)
    /\ Reaches(mem, root, a, k) => TableAt(q, root, a, k) = TableAt(mem, root, a, k)
SameEntry(mem, q, root, a, k) ==
    /\ SameWay(mem, q, root, a, k)
    /\ Reaches(mem, root, a, k) => EntryAt(q, root, a, k) = EntryAt(mem, root, a, k)
SamePages(mem, q, root) ==
    \A a \in Addresses, k \in 1 .. 3 :
        /\ PageAt(q, root, a, k) <=> PageAt(mem, root, a, k)
        /\ PageAt(mem, root, a, k) => EntryAt(q, root, a, k) = EntryAt(mem, root, a, k)

\* No entry of a table in the tree has changed, except the one at i of t.
OnlySlot(mem, q, lvl, t, i) ==
    \A p \in TablePages, j \in TabIndex :
        lvl[p] > 0 /\ (p # t \/ j # i) => q.tab[p][j] = mem.tab[p][j]
Hits(mem, root, a, k, t, i) ==
    Reaches(mem, root, a, k) /\ TableAt(mem, root, a, k) = t /\ IndexOf(a, k) = i

LEMMA SlotAbove ==
  ASSUME NEW mem, NEW q, NEW root, NEW lvl, Graded(mem, root, lvl), NEW t \in TablePages, NEW i,
         OnlySlot(mem, q, lvl, t, i), NEW a \in Nat
  PROVE  \A k \in 1 .. 4 : k >= lvl[t] => SameWay(mem, q, root, a, k)
<1> DEFINE S == {k \in 1 .. 4 : k >= lvl[t] => SameWay(mem, q, root, a, k)}
<1>0. lvl[t] \in Nat
  BY DEF Graded
<1>1. 4 \in S
  BY PathTop DEF SameWay
<1>2. ASSUME NEW k \in 2 .. 4, k \in S PROVE k - 1 \in S
  <2> SUFFICES ASSUME k - 1 >= lvl[t] PROVE SameWay(mem, q, root, a, k - 1)
    BY <1>2
  <2>1. SameWay(mem, q, root, a, k)
    BY <1>0, <1>2
  <2>2. Reaches(mem, root, a, k) => EntryAt(q, root, a, k) = EntryAt(mem, root, a, k)
    <3> SUFFICES ASSUME Reaches(mem, root, a, k) PROVE EntryAt(q, root, a, k) = EntryAt(mem, root, a, k)
      OBVIOUS
    <3> DEFINE u == TableAt(mem, root, a, k)
    <3>1. u \in TablePages /\ lvl[u] = k
      BY PathIn
    <3>2. TableAt(q, root, a, k) = u /\ IndexOf(a, k) \in TabIndex
      BY <2>1, IndexIn DEF SameWay
    <3> HIDE DEF u
    <3>3. u # t
      BY <1>0, <3>1
    <3>4. q.tab[u][IndexOf(a, k)] = mem.tab[u][IndexOf(a, k)]
      BY <3>1, <3>2, <3>3 DEF OnlySlot
    <3> QED
      BY <3>2, <3>4 DEF EntryAt, u
  <2> QED
    BY <2>1, <2>2, PathStep DEF SameWay
<1> HIDE DEF S
<1>3. \A k \in 1 .. 4 : k \in S
  BY <1>1, <1>2, LevelsDown
<1> QED
  BY <1>3 DEF S

LEMMA SlotElsewhere ==
  ASSUME NEW mem, NEW q, NEW root, NEW lvl, Graded(mem, root, lvl), NEW t \in TablePages, NEW i,
         OnlySlot(mem, q, lvl, t, i), NEW a \in Nat, ~Hits(mem, root, a, lvl[t], t, i)
  PROVE  \A k \in 1 .. 4 : SameEntry(mem, q, root, a, k)
<1>0. ASSUME NEW k \in 1 .. 4, SameWay(mem, q, root, a, k) PROVE SameEntry(mem, q, root, a, k)
  <2> SUFFICES ASSUME Reaches(mem, root, a, k) PROVE EntryAt(q, root, a, k) = EntryAt(mem, root, a, k)
    BY <1>0 DEF SameEntry
  <2> DEFINE u == TableAt(mem, root, a, k)
  <2>1. u \in TablePages /\ lvl[u] = k
    BY PathIn
  <2>2. TableAt(q, root, a, k) = u /\ IndexOf(a, k) \in TabIndex
    BY <1>0, IndexIn DEF SameWay
  <2>3. u # t \/ IndexOf(a, k) # i
    BY <2>1 DEF Hits
  <2> HIDE DEF u
  <2>4. q.tab[u][IndexOf(a, k)] = mem.tab[u][IndexOf(a, k)]
    BY <2>1, <2>2, <2>3 DEF OnlySlot
  <2> QED
    BY <2>2, <2>4 DEF EntryAt, u
<1> DEFINE S == {k \in 1 .. 4 : SameWay(mem, q, root, a, k)}
<1>1. 4 \in S
  BY PathTop DEF SameWay
<1>2. ASSUME NEW k \in 2 .. 4, k \in S PROVE k - 1 \in S
  <2>1. SameEntry(mem, q, root, a, k)
    BY <1>0, <1>2
  <2>2. SameWay(mem, q, root, a, k - 1)
    BY <2>1, PathStep DEF SameEntry, SameWay
  <2> QED
    BY <2>2
<1> HIDE DEF S
<1>3. \A k \in 1 .. 4 : k \in S
  BY <1>1, <1>2, LevelsDown
<1> QED
  BY <1>0, <1>3 DEF S

\* An address has one page at most.
LEMMA TablesAbove ==
  ASSUME NEW mem, NEW root, NEW a, NEW k \in 1 .. 4, NEW m \in 1 .. 3, m < k, Reaches(mem, root, a, m)
  PROVE  Reaches(mem, root, a, k) /\ IsTable(EntryAt(mem, root, a, k))
  BY DEF Reaches

\* A new table with nothing in it maps nothing.
LEMMA LinkPages ==
  ASSUME NEW mem, NEW q, NEW root, NEW lvl, Graded(mem, root, lvl), NEW t \in TablePages, NEW i \in TabIndex,
         lvl[t] >= 2, ~Present(mem.tab[t][i]), ~mem.tab[t][i].large,
         NEW p, q.tab[p] = BlankTable, q.tab[t][i] = TableEntry(p),
         OnlySlot(mem, q, lvl, t, i)
  PROVE  SamePages(mem, q, root)
<1> SUFFICES ASSUME NEW a \in Addresses, NEW m \in 1 .. 3
             PROVE  /\ PageAt(q, root, a, m) <=> PageAt(mem, root, a, m)
                    /\ PageAt(mem, root, a, m) => EntryAt(q, root, a, m) = EntryAt(mem, root, a, m)
  BY DEF SamePages
<1> DEFINE k == lvl[t]
<1>0. a \in Nat /\ k \in 2 .. 4
  BY AddressIn DEF Graded
<1>1. CASE ~Hits(mem, root, a, k, t, i)
  <2>1. SameEntry(mem, q, root, a, m)
    BY <1>0, <1>1, SlotElsewhere
  <2> QED
    BY <2>1 DEF SameEntry, SameWay, PageAt
<1>2. CASE Hits(mem, root, a, k, t, i)
  <2> HIDE DEF k
  <2>1. SameWay(mem, q, root, a, k)
    BY <1>0, SlotAbove DEF k
  <2>2. /\ EntryAt(mem, root, a, k) = mem.tab[t][i]
        /\ EntryAt(q, root, a, k) = TableEntry(p)
        /\ Reaches(mem, root, a, k) /\ Reaches(q, root, a, k)
    BY <1>2, <2>1 DEF Hits, EntryAt, SameWay
  <2>3. ~IsTable(EntryAt(mem, root, a, k)) /\ ~EntryAt(mem, root, a, k).large
    BY <2>2 DEF IsTable
  <2>4. /\ IsTable(EntryAt(q, root, a, k)) /\ ~EntryAt(q, root, a, k).large
        /\ EntryAt(q, root, a, k).to = p
    BY <2>2 DEF IsTable, TableEntry, Present
  <2>5. TableAt(q, root, a, k - 1) = p
    BY <1>0, <2>4, PathStep
  <2>6. EntryAt(q, root, a, k - 1) = Absent
    <3>1. IndexOf(a, k - 1) \in TabIndex
      BY <1>0, IndexIn
    <3> QED
      BY <2>5, <3>1 DEF EntryAt, BlankTable
  <2>7. ~PageAt(mem, root, a, m)
    <3>1. CASE m > k
      BY <1>0, <2>2, <3>1, TablesAbove DEF PageAt, IsTable
    <3>2. CASE m = k
      BY <1>0, <2>3, <3>2 DEF PageAt
    <3>3. CASE m < k
      BY <1>0, <2>3, <3>3, TablesAbove DEF PageAt
    <3> QED
      BY <1>0, <3>1, <3>2, <3>3
  <2>8. ~PageAt(q, root, a, m)
    <3>1. CASE m > k
      BY <1>0, <2>2, <3>1, TablesAbove DEF PageAt, IsTable
    <3>2. CASE m = k
      BY <1>0, <2>4, <3>2 DEF PageAt
    <3>3. CASE m = k - 1
      BY <1>0, <2>6, <3>3 DEF PageAt, Absent
    <3>4. CASE m < k - 1
      <4>1. ~IsTable(EntryAt(q, root, a, k - 1))
        BY <2>6 DEF IsTable, Present, Absent
      <4>2. k - 1 \in 1 .. 4
        BY <1>0
      <4> QED
        BY <1>0, <3>4, <4>1, <4>2, TablesAbove DEF PageAt
    <3> QED
      BY <1>0, <3>1, <3>2, <3>3, <3>4
  <2> QED
    BY <2>7, <2>8
<1> QED
  BY <1>1, <1>2

\* Linking a page that is free keeps the tree; the page is a level below.
LinkedTo(mem, t, i, p) == [WithTable(mem, p) EXCEPT !.tab[t][i] = TableEntry(p)]

LEMMA LinkTables ==
  ASSUME NEW mem \in TabMem, NEW t \in TablePages, NEW i \in TabIndex, NEW p \in mem.free, t # p
  PROVE  LET q == LinkedTo(mem, t, i, p) IN
         /\ q \in TabMem /\ q.free = mem.free \ {p}
         /\ q.tab[t][i] = TableEntry(p) /\ q.tab[p] = BlankTable
         /\ \A u \in TablePages, j \in TabIndex :
              u # p /\ (u # t \/ j # i) => q.tab[u][j] = mem.tab[u][j]
<1> DEFINE r == WithTable(mem, p)
           q == LinkedTo(mem, t, i, p)
<1>1. p \in TablePages /\ p \in Nat
  BY PageTableConstants DEF TabMem
<1>2. BlankTable \in [TabIndex -> TabEntries] /\ TableEntry(p) \in TabEntries
  BY <1>1 DEF BlankTable, Absent, TableEntry, TabEntries
<1>3. r \in TabMem /\ r.tab = [mem.tab EXCEPT ![p] = BlankTable] /\ r.free = mem.free \ {p}
  BY <1>1, <1>2 DEF WithTable, TabMem
<1>4. q = [r EXCEPT !.tab[t][i] = TableEntry(p)]
  BY DEF LinkedTo
<1> HIDE DEF r, q
<1>5. q \in TabMem /\ q.free = r.free /\ q.tab = [r.tab EXCEPT ![t][i] = TableEntry(p)]
  BY <1>2, <1>3, <1>4 DEF TabMem
<1>6. mem.tab \in [TablePages -> [TabIndex -> TabEntries]] /\ r.tab \in [TablePages -> [TabIndex -> TabEntries]]
  BY <1>3 DEF TabMem
<1>7. q.tab[t][i] = TableEntry(p) /\ q.tab[p] = BlankTable
  BY <1>1, <1>3, <1>5, <1>6
<1>8. \A u \in TablePages, j \in TabIndex : u # p /\ (u # t \/ j # i) => q.tab[u][j] = mem.tab[u][j]
  BY <1>3, <1>5, <1>6
<1> QED
  BY <1>3, <1>5, <1>7, <1>8 DEF q

LEMMA LinkTree ==
  ASSUME NEW mem \in TabMem, NEW root, NEW lvl, Graded(mem, root, lvl), NEW t \in TablePages, NEW i \in TabIndex,
         lvl[t] >= 2, ~Present(mem.tab[t][i]), NEW p \in mem.free
  PROVE  LET q == LinkedTo(mem, t, i, p) IN
         /\ Graded(q, root, [lvl EXCEPT ![p] = lvl[t] - 1])
         /\ OnlySlot(mem, q, lvl, t, i)
<1> DEFINE q == LinkedTo(mem, t, i, p)
           lv == [lvl EXCEPT ![p] = lvl[t] - 1]
<1>1. lvl[p] = 0 /\ p \in TablePages /\ t # p /\ lvl \in [TablePages -> 0 .. 4]
  BY DEF Graded, TabMem
<1>2. /\ q \in TabMem /\ q.free = mem.free \ {p}
      /\ q.tab[t][i] = TableEntry(p) /\ q.tab[p] = BlankTable
      /\ \A u \in TablePages, j \in TabIndex :
           u # p /\ (u # t \/ j # i) => q.tab[u][j] = mem.tab[u][j]
  BY <1>1, LinkTables
<1> HIDE DEF q
<1>3. OnlySlot(mem, q, lvl, t, i)
  BY <1>1, <1>2 DEF OnlySlot
<1>4. lv \in [TablePages -> 0 .. 4] /\ lv[p] = lvl[t] - 1 /\ \A u \in TablePages : u # p => lv[u] = lvl[u]
  BY <1>1
<1> HIDE DEF lv
<1>5. \A j \in TabIndex : ~IsTable(q.tab[p][j]) /\ ~q.tab[p][j].large
  BY <1>2 DEF BlankTable, Absent, IsTable, Present
<1>6. root \in TablePages /\ lv[root] = 4
  BY <1>1, <1>4 DEF Graded
<1>7. \A u \in q.free : lv[u] = 0
  BY <1>2, <1>4 DEF Graded, TabMem
<1>8. TableEntry(p).to = p /\ ~TableEntry(p).large
  BY DEF TableEntry
<1>9. ASSUME NEW u \in TablePages, NEW j \in TabIndex, lv[u] >= 2, IsTable(q.tab[u][j])
      PROVE  /\ q.tab[u][j].to \in TablePages /\ lv[q.tab[u][j].to] = lv[u] - 1
             /\ u # p /\ lv[u] = lvl[u]
             /\ \/ u = t /\ j = i /\ q.tab[u][j].to = p
                \/ /\ u # t \/ j # i
                   /\ q.tab[u][j] = mem.tab[u][j] /\ q.tab[u][j].to # p
  <2>1. u # p /\ lv[u] = lvl[u]
    BY <1>4, <1>5, <1>9
  <2>2. CASE u = t /\ j = i
    BY <1>1, <1>2, <1>4, <1>8, <2>1, <2>2
  <2>3. CASE u # t \/ j # i
    <3>1. q.tab[u][j] = mem.tab[u][j]
      BY <1>2, <2>1, <2>3
    <3>2. mem.tab[u][j].to \in TablePages /\ lvl[mem.tab[u][j].to] = lvl[u] - 1
      BY <1>9, <2>1, <3>1 DEF Graded
    <3>3. mem.tab[u][j].to # p
      BY <1>1, <1>9, <2>1, <3>2
    <3> QED
      BY <1>4, <2>1, <2>3, <3>1, <3>2, <3>3
  <2> QED
    BY <2>2, <2>3
<1>10. ASSUME NEW u \in TablePages, NEW v \in TablePages, NEW j \in TabIndex, NEW x \in TabIndex,
              lv[u] >= 2, IsTable(q.tab[u][j]), lv[v] >= 2, IsTable(q.tab[v][x]),
              q.tab[u][j].to = q.tab[v][x].to
       PROVE  u = v /\ j = x
  <2>1. /\ lv[u] = lvl[u]
        /\ \/ u = t /\ j = i /\ q.tab[u][j].to = p
           \/ q.tab[u][j] = mem.tab[u][j] /\ q.tab[u][j].to # p
    BY <1>9, <1>10
  <2>2. /\ lv[v] = lvl[v]
        /\ \/ v = t /\ x = i /\ q.tab[v][x].to = p
           \/ q.tab[v][x] = mem.tab[v][x] /\ q.tab[v][x].to # p
    BY <1>9, <1>10
  <2>3. CASE q.tab[u][j].to = p
    BY <1>10, <2>1, <2>2, <2>3
  <2>4. CASE q.tab[u][j].to # p
    <3>1. q.tab[u][j] = mem.tab[u][j] /\ q.tab[v][x] = mem.tab[v][x]
      BY <1>10, <2>1, <2>2, <2>4
    <3>2. /\ lvl[u] >= 2 /\ IsTable(mem.tab[u][j])
          /\ lvl[v] >= 2 /\ IsTable(mem.tab[v][x])
          /\ mem.tab[u][j].to = mem.tab[v][x].to
      BY <1>10, <2>1, <2>2, <3>1
    <3> QED
      BY <3>2 DEF Graded
  <2> QED
    BY <2>3, <2>4
<1>11. ASSUME NEW u \in TablePages, NEW j \in TabIndex, lv[u] = 4
       PROVE  ~q.tab[u][j].large
  <2>1. CASE u = p
    BY <1>5, <2>1
  <2>2. CASE u = t /\ j = i
    BY <1>2, <1>8, <2>2
  <2>3. CASE u # p /\ (u # t \/ j # i)
    BY <1>2, <1>4, <1>11, <2>3 DEF Graded
  <2> QED
    BY <2>1, <2>2, <2>3
<1>12. Graded(q, root, lv)
  BY <1>4, <1>6, <1>7, <1>9, <1>10, <1>11 DEF Graded
<1> QED
  BY <1>3, <1>12 DEF q, lv

\* Storing an entry that points to no table.
StoredIn(mem, t, i, e) == [mem EXCEPT !.tab[t][i] = e]

LEMMA StoreTree ==
  ASSUME NEW mem \in TabMem, NEW root, NEW lvl, Graded(mem, root, lvl), NEW t \in TablePages, NEW i \in TabIndex,
         NEW e \in TabEntries, lvl[t] \in 1 .. 3, lvl[t] >= 2 => ~IsTable(e)
  PROVE  LET q == StoredIn(mem, t, i, e) IN
         /\ q \in TabMem /\ Graded(q, root, lvl) /\ OnlySlot(mem, q, lvl, t, i) /\ q.tab[t][i] = e
<1> DEFINE q == StoredIn(mem, t, i, e)
<1>1. mem.tab \in [TablePages -> [TabIndex -> TabEntries]]
  BY DEF TabMem
<1>2. q \in TabMem /\ q.free = mem.free /\ q.tab = [mem.tab EXCEPT ![t][i] = e]
  BY DEF StoredIn, TabMem
<1> HIDE DEF q
<1>3. q.tab[t][i] = e /\ \A u \in TablePages, j \in TabIndex : u # t \/ j # i => q.tab[u][j] = mem.tab[u][j]
  BY <1>1, <1>2
<1>4. OnlySlot(mem, q, lvl, t, i)
  BY <1>3 DEF OnlySlot
<1>5. ASSUME NEW u \in TablePages, NEW j \in TabIndex, lvl[u] >= 2, IsTable(q.tab[u][j])
      PROVE  q.tab[u][j] = mem.tab[u][j]
  BY <1>3, <1>5
<1>6. ASSUME NEW u \in TablePages, NEW j \in TabIndex, lvl[u] >= 2, IsTable(q.tab[u][j])
      PROVE  q.tab[u][j].to \in TablePages /\ lvl[q.tab[u][j].to] = lvl[u] - 1
  BY <1>5, <1>6 DEF Graded
<1>7. ASSUME NEW u \in TablePages, NEW v \in TablePages, NEW j \in TabIndex, NEW x \in TabIndex,
             lvl[u] >= 2, IsTable(q.tab[u][j]), lvl[v] >= 2, IsTable(q.tab[v][x]),
             q.tab[u][j].to = q.tab[v][x].to
      PROVE  u = v /\ j = x
  <2>1. q.tab[u][j] = mem.tab[u][j] /\ q.tab[v][x] = mem.tab[v][x]
    BY <1>5, <1>7
  <2>2. /\ IsTable(mem.tab[u][j]) /\ IsTable(mem.tab[v][x])
        /\ mem.tab[u][j].to = mem.tab[v][x].to
    BY <1>7, <2>1
  <2> QED
    BY <1>7, <2>2 DEF Graded
<1>8. ASSUME NEW u \in TablePages, NEW j \in TabIndex, lvl[u] = 4
      PROVE  ~q.tab[u][j].large
  <2>1. u # t
    BY <1>8
  <2> QED
    BY <1>3, <1>8, <2>1 DEF Graded
<1>9. lvl \in [TablePages -> 0 .. 4] /\ root \in TablePages /\ lvl[root] = 4 /\ \A u \in q.free : lvl[u] = 0
  BY <1>2 DEF Graded
<1>10. Graded(q, root, lvl)
  BY <1>6, <1>7, <1>8, <1>9 DEF Graded
<1> QED
  BY <1>2, <1>3, <1>4, <1>10 DEF q

\* The ways that lead through an entry are those of its block.
LEMMA HitsBlock ==
  ASSUME NEW mem, NEW root, NEW lvl, Graded(mem, root, lvl), NEW a \in Addresses, NEW g \in Addresses,
         NEW k \in 1 .. 4, Reaches(mem, root, g, k)
  PROVE  Hits(mem, root, a, k, TableAt(mem, root, g, k), IndexOf(g, k)) <=> SameBlock(a, g, k)
<1>0. a \in Nat /\ g \in Nat
  BY AddressIn
<1>1. ASSUME Hits(mem, root, a, k, TableAt(mem, root, g, k), IndexOf(g, k)) PROVE SameBlock(a, g, k)
  <2>1. SameAbove(a, g, k) /\ IndexOf(a, k) = IndexOf(g, k)
    BY <1>0, <1>1, PathUnique DEF Hits
  <2> QED
    BY <2>1, BlockDigits
<1>2. ASSUME SameBlock(a, g, k) PROVE Hits(mem, root, a, k, TableAt(mem, root, g, k), IndexOf(g, k))
  <2>1. SameAbove(a, g, k) /\ IndexOf(a, k) = IndexOf(g, k)
    BY <1>2, BlockDigits
  <2>2. TableAt(mem, root, a, k) = TableAt(mem, root, g, k) /\ (Reaches(mem, root, a, k) <=> Reaches(mem, root, g, k))
    BY <2>1, PathShared
  <2> QED
    BY <2>1, <2>2 DEF Hits
<1> QED
  BY <1>1, <1>2

\* An entry of level k that maps a page.
IsPage(e, k) == IF k = 1 THEN e # Absent ELSE e.large

LEMMA StorePages ==
  ASSUME NEW mem \in TabMem, NEW root, NEW lvl, Graded(mem, root, lvl), NEW g \in Addresses, NEW k \in 1 .. 3,
         Reaches(mem, root, g, k), NEW e \in TabEntries, k >= 2 => ~IsTable(e),
         NEW a \in Addresses, NEW m \in 1 .. 3
  PROVE  LET q == StoredIn(mem, TableAt(mem, root, g, k), IndexOf(g, k), e) IN
         /\ SameBlock(a, g, k) => /\ PageAt(q, root, a, m) <=> (m = k /\ IsPage(e, k))
                                  /\ EntryAt(q, root, a, k) = e
         /\ ~SameBlock(a, g, k) => /\ PageAt(q, root, a, m) <=> PageAt(mem, root, a, m)
                                   /\ PageAt(mem, root, a, m) => EntryAt(q, root, a, m) = EntryAt(mem, root, a, m)
<1> DEFINE t == TableAt(mem, root, g, k)
           i == IndexOf(g, k)
           q == StoredIn(mem, t, i, e)
<1>0. a \in Nat /\ g \in Nat
  BY AddressIn
<1>1. t \in TablePages /\ lvl[t] = k /\ i \in TabIndex
  BY <1>0, PathIn, IndexIn
<1>2. Hits(mem, root, a, k, t, i) <=> SameBlock(a, g, k)
  BY HitsBlock
<1> HIDE DEF t, i
<1>3. OnlySlot(mem, q, lvl, t, i) /\ q.tab[t][i] = e
  BY <1>1, StoreTree
<1> HIDE DEF q
<1>4. ASSUME ~SameBlock(a, g, k)
      PROVE  /\ PageAt(q, root, a, m) <=> PageAt(mem, root, a, m)
             /\ PageAt(mem, root, a, m) => EntryAt(q, root, a, m) = EntryAt(mem, root, a, m)
  <2>1. ~Hits(mem, root, a, lvl[t], t, i)
    BY <1>1, <1>2, <1>4
  <2>2. SameEntry(mem, q, root, a, m)
    BY <1>0, <1>1, <1>3, <2>1, SlotElsewhere
  <2> QED
    BY <2>2 DEF SameEntry, SameWay, PageAt
<1>5. ASSUME SameBlock(a, g, k)
      PROVE  /\ PageAt(q, root, a, m) <=> (m = k /\ IsPage(e, k))
             /\ EntryAt(q, root, a, k) = e
  <2>1. SameWay(mem, q, root, a, k)
    <3>1. k \in 1 .. 4 /\ k >= lvl[t]
      BY <1>1
    <3> QED
      BY <1>0, <1>1, <1>3, <3>1, SlotAbove
  <2>2. EntryAt(q, root, a, k) = e /\ Reaches(q, root, a, k)
    BY <1>2, <1>3, <1>5, <2>1 DEF Hits, EntryAt, SameWay
  <2>3. CASE m > k
    <3>1. IsTable(EntryAt(q, root, a, m))
      BY <2>2, <2>3, TablesAbove
    <3> QED
      BY <2>2, <2>3, <3>1 DEF PageAt, IsTable
  <2>4. CASE m = k
    BY <2>2, <2>4 DEF PageAt, IsPage
  <2>5. CASE m < k
    <3>1. ~IsTable(EntryAt(q, root, a, k))
      BY <2>2, <2>5
    <3>2. ~Reaches(q, root, a, m)
      BY <2>5, <3>1, TablesAbove
    <3> QED
      BY <2>2, <2>5, <3>2 DEF PageAt
  <2> QED
    BY <2>2, <2>3, <2>4, <2>5
<1> QED
  BY <1>4, <1>5 DEF q, t, i

-----------------------------------------------------------------------------
(* Page tables: walks. *)

TreeIn(mem, root) == mem \in TabMem /\ \E lvl : Graded(mem, root, lvl)
Walks == [s : TabMem, table : TablePages, index : TabIndex, level : 1 .. 4, end : BOOLEAN, ok : BOOLEAN]

\* A walk from mem is on the way to g, and has changed no page.
Walking(w, mem, root, g) ==
    /\ w \in Walks
    /\ TreeIn(w.s, root)
    /\ Reaches(w.s, root, g, w.level)
    /\ w.table = TableAt(w.s, root, g, w.level)
    /\ w.index = IndexOf(g, w.level)
    /\ SamePages(mem, w.s, root)

\* Why a walk has ended.
Ended(w) ==
    /\ ~w.end => w.ok
    /\ w.end /\ w.ok => w.level \in 2 .. 3 /\ Entry(w).large
    /\ w.end /\ ~w.ok => w.level >= 2 /\ ~Present(Entry(w)) /\ ~Entry(w).large

LEMMA SameTrans ==
  ASSUME NEW mem, NEW q, NEW r, NEW root, SamePages(mem, q, root), SamePages(q, r, root)
  PROVE  SamePages(mem, r, root)
<1> SUFFICES ASSUME NEW a \in Addresses, NEW k \in 1 .. 3
             PROVE  /\ PageAt(r, root, a, k) <=> PageAt(mem, root, a, k)
                    /\ PageAt(mem, root, a, k) => EntryAt(r, root, a, k) = EntryAt(mem, root, a, k)
  BY DEF SamePages
<1>1. /\ PageAt(q, root, a, k) <=> PageAt(mem, root, a, k)
      /\ PageAt(mem, root, a, k) => EntryAt(q, root, a, k) = EntryAt(mem, root, a, k)
  BY DEF SamePages
<1>2. /\ PageAt(r, root, a, k) <=> PageAt(q, root, a, k)
      /\ PageAt(q, root, a, k) => EntryAt(r, root, a, k) = EntryAt(q, root, a, k)
  BY DEF SamePages
<1> QED
  BY <1>1, <1>2
LEMMA SameSelf ==
  ASSUME NEW mem, NEW root
  PROVE  SamePages(mem, mem, root)
  BY DEF SamePages

LEMMA EntryIs ==
  ASSUME NEW w, NEW mem, NEW root, NEW g, Walking(w, mem, root, g)
  PROVE  Entry(w) = EntryAt(w.s, root, g, w.level) /\ Entry(w) = w.s.tab[w.table][w.index]
         /\ Entry(w) \in TabEntries
<1>1. Entry(w) = w.s.tab[w.table][w.index]
  BY DEF Entry
<1>2. w.s.tab \in [TablePages -> [TabIndex -> TabEntries]] /\ w.table \in TablePages /\ w.index \in TabIndex
  BY DEF Walking, Walks, TabMem
<1>3. Entry(w) \in TabEntries
  BY <1>1, <1>2
<1>4. EntryAt(w.s, root, g, w.level) = w.s.tab[w.table][w.index]
  BY DEF EntryAt, Walking
<1> QED
  BY <1>1, <1>3, <1>4

LEMMA RootWalks ==
  ASSUME NEW mem, NEW root, TreeIn(mem, root), NEW g \in Addresses
  PROVE  LET w == AtRoot(mem, root, g) IN
         /\ Walking(w, mem, root, g) /\ ~w.end /\ w.ok /\ w.level = 4 /\ ~Entry(w).large /\ w.s = mem
<1> DEFINE w == AtRoot(mem, root, g)
<1>0. g \in Nat
  BY AddressIn
<1>1. PICK lvl : Graded(mem, root, lvl)
  BY DEF TreeIn
<1>2. /\ w.s = mem /\ w.table = root /\ w.index = IndexOf(g, 4) /\ w.level = 4 /\ w.end = FALSE /\ w.ok = TRUE
      /\ w = [s |-> mem, table |-> root, index |-> IndexOf(g, 4), level |-> 4, end |-> FALSE, ok |-> TRUE]
  BY DEF AtRoot
<1> HIDE DEF w
<1>3. root \in TablePages /\ lvl[root] = 4 /\ IndexOf(g, 4) \in TabIndex
  BY <1>0, <1>1, IndexIn DEF Graded
<1>4. w \in Walks
  BY <1>2, <1>3 DEF Walks, TreeIn
<1>5. Walking(w, mem, root, g)
  BY <1>2, <1>4, PathTop, SameSelf DEF Walking
<1>6. ~Entry(w).large
  BY <1>1, <1>2, <1>3 DEF Graded, Entry
<1> QED
  BY <1>2, <1>5, <1>6 DEF w

\* To the table p that the entry now names.
LEMMA EnterWalks ==
  ASSUME NEW w, NEW mem, NEW root, NEW g \in Addresses, Walking(w, mem, root, g), ~w.end, w.ok,
         w.level \in 2 .. 4, IsTable(Entry(w)), NEW p, p = Entry(w).to
  PROVE  LET v == Enter(w, p, g) IN
         /\ Walking(v, mem, root, g) /\ ~v.end /\ v.ok /\ v.level = w.level - 1 /\ v.s = w.s
<1> DEFINE v == Enter(w, p, g)
<1>0. g \in Nat
  BY AddressIn
<1>1. w \in Walks /\ w.end = FALSE /\ w.ok = TRUE
  BY DEF Walking, Walks
<1>2. /\ v.s = w.s /\ v.table = p /\ v.index = IndexOf(g, w.level - 1) /\ v.level = w.level - 1
      /\ v.end = FALSE /\ v.ok = TRUE
  BY <1>1 DEF Enter, Walks
<1>3. PICK lvl : Graded(w.s, root, lvl)
  BY DEF Walking, TreeIn
<1>4. Entry(w) = EntryAt(w.s, root, g, w.level)
  BY EntryIs
<1>5. Reaches(w.s, root, g, w.level)
  BY DEF Walking
<1>6. Reaches(w.s, root, g, w.level - 1) /\ TableAt(w.s, root, g, w.level - 1) = p
  BY <1>4, <1>5, PathStep
<1>7. p \in TablePages /\ w.level - 1 \in 1 .. 4 /\ IndexOf(g, w.level - 1) \in TabIndex
  <2>1. w.level - 1 \in 1 .. 4
    OBVIOUS
  <2> QED
    BY <1>0, <1>3, <1>6, <2>1, PathIn, IndexIn
<1>8. v \in Walks
  BY <1>1, <1>7 DEF Walks, Enter
<1> HIDE DEF v
<1>9. Walking(v, mem, root, g)
  BY <1>2, <1>6, <1>8 DEF Walking
<1> QED
  BY <1>2, <1>9 DEF v

LEMMA LinkWalks ==
  ASSUME NEW w, NEW mem, NEW root, NEW g \in Addresses, Walking(w, mem, root, g), ~w.end, w.ok,
         w.level \in 2 .. 4, ~Present(Entry(w)), ~Entry(w).large, NEW p \in w.s.free
  PROVE  LET v == [w EXCEPT !.s = LinkedTo(w.s, w.table, w.index, p)] IN
         /\ Walking(v, mem, root, g) /\ ~v.end /\ v.ok /\ v.level = w.level
         /\ IsTable(Entry(v)) /\ Entry(v).to = p
<1> DEFINE q == LinkedTo(w.s, w.table, w.index, p)
           v == [w EXCEPT !.s = q]
<1>0. g \in Nat
  BY AddressIn
<1>1. w \in Walks /\ w.s \in TabMem /\ w.table \in TablePages /\ w.index \in TabIndex
  BY DEF Walking, Walks
<1>2. PICK lvl : Graded(w.s, root, lvl)
  BY DEF Walking, TreeIn
<1>3. Reaches(w.s, root, g, w.level) /\ w.table = TableAt(w.s, root, g, w.level) /\ w.index = IndexOf(g, w.level)
  BY DEF Walking
<1>4. lvl[w.table] = w.level
  BY <1>0, <1>2, <1>3, PathIn
<1>5. Entry(w) = w.s.tab[w.table][w.index]
  BY DEF Entry
<1>6. lvl[p] = 0 /\ w.table # p
  BY <1>2, <1>4 DEF Graded
<1>7. Graded(q, root, [lvl EXCEPT ![p] = lvl[w.table] - 1]) /\ OnlySlot(w.s, q, lvl, w.table, w.index)
  BY <1>1, <1>2, <1>4, <1>5, LinkTree
<1>8. q \in TabMem /\ q.tab[w.table][w.index] = TableEntry(p) /\ q.tab[p] = BlankTable
  BY <1>1, <1>6, LinkTables
<1> HIDE DEF q
<1>9. /\ v \in Walks /\ v.s = q /\ v.table = w.table /\ v.index = w.index /\ v.level = w.level
      /\ v.end = w.end /\ v.ok = w.ok
  BY <1>1, <1>8 DEF Walks
<1> HIDE DEF v
<1>10. SamePages(w.s, q, root)
  BY <1>1, <1>2, <1>4, <1>5, <1>7, <1>8, LinkPages
<1>11. SamePages(mem, q, root)
  <2>1. SamePages(mem, w.s, root)
    BY DEF Walking
  <2> QED
    BY <1>10, <2>1, SameTrans
<1>12. SameWay(w.s, q, root, g, w.level)
  <2>1. w.level \in 1 .. 4 /\ w.level >= lvl[w.table]
    BY <1>4
  <2> QED
    BY <1>0, <1>1, <1>2, <1>7, <2>1, SlotAbove
<1>13. Reaches(q, root, g, w.level) /\ TableAt(q, root, g, w.level) = w.table
  BY <1>3, <1>12 DEF SameWay
<1>14. TreeIn(q, root)
  BY <1>7, <1>8 DEF TreeIn
<1>15. Walking(v, mem, root, g)
  BY <1>3, <1>9, <1>11, <1>13, <1>14 DEF Walking
<1>16. IsTable(Entry(v)) /\ Entry(v).to = p
  BY <1>8, <1>9 DEF Entry, IsTable, TableEntry, Present
<1> QED
  BY <1>9, <1>15, <1>16 DEF v, q

LEMMA DownWalks ==
  ASSUME NEW w, NEW mem, NEW root, NEW g \in Addresses, Walking(w, mem, root, g), ~w.end, w.ok,
         w.level \in 2 .. 4, ~Entry(w).large, NEW create \in BOOLEAN
  PROVE  LET v == Down(w, g, create) IN
         /\ Walking(v, mem, root, g) /\ Ended(v)
         /\ v.end => ~v.ok
         /\ ~v.end => v.level = w.level - 1
         /\ ~create => v.s = w.s
<1> DEFINE v == Down(w, g, create)
           e == Entry(w)
<1>0. w \in Walks
  BY DEF Walking
<1>1. CASE Present(e)
  <2>1. v = Enter(w, e.to, g)
    BY <1>1 DEF Down
  <2>2. IsTable(e)
    BY <1>1 DEF IsTable
  <2>3. /\ Walking(v, mem, root, g) /\ ~v.end /\ v.ok /\ v.level = w.level - 1 /\ v.s = w.s
    BY <2>1, <2>2, EnterWalks
  <2> QED
    BY <2>3 DEF Ended
<1>2. CASE ~Present(e) /\ (~create \/ w.s.free = {})
  <2>1. v = [w EXCEPT !.end = TRUE, !.ok = FALSE]
    BY <1>2 DEF Down
  <2>2. /\ v \in Walks /\ v.s = w.s /\ v.table = w.table /\ v.index = w.index /\ v.level = w.level
        /\ v.end = TRUE /\ v.ok = FALSE
    BY <1>0, <2>1 DEF Walks
  <2>3. Walking(v, mem, root, g)
    BY <2>2 DEF Walking
  <2>4. Entry(v) = e
    BY <2>2 DEF Entry
  <2> QED
    BY <1>2, <2>2, <2>3, <2>4 DEF Ended
<1>3. CASE ~Present(e) /\ create /\ w.s.free # {}
  <2> DEFINE p == alloc_table(w.s)
             x == [w EXCEPT !.s = LinkedTo(w.s, w.table, w.index, p)]
  <2>1. v = Enter(x, p, g)
    BY <1>3 DEF Down, LinkedTo
  <2>2. p \in w.s.free
    BY <1>3 DEF alloc_table
  <2> HIDE DEF p
  <2>3. /\ Walking(x, mem, root, g) /\ ~x.end /\ x.ok /\ x.level = w.level
        /\ IsTable(Entry(x)) /\ Entry(x).to = p
    BY <1>3, <2>2, LinkWalks
  <2> HIDE DEF x
  <2>4. /\ Walking(v, mem, root, g) /\ ~v.end /\ v.ok /\ v.level = x.level - 1
    BY <2>1, <2>3, EnterWalks
  <2> QED
    BY <1>3, <2>3, <2>4 DEF Ended
<1> QED
  BY <1>1, <1>2, <1>3

LEMMA PageWalks ==
  ASSUME NEW w, NEW mem, NEW root, NEW g \in Addresses, Walking(w, mem, root, g), Ended(w),
         ~w.end => w.level \in 2 .. 3, NEW create \in BOOLEAN
  PROVE  LET v == DownToPage(w, g, create) IN
         /\ Walking(v, mem, root, g) /\ Ended(v)
         /\ ~v.end => ~w.end /\ v.level = w.level - 1
         /\ ~create => v.s = w.s
<1> DEFINE v == DownToPage(w, g, create)
<1>0. w \in Walks
  BY DEF Walking
<1>1. CASE w.end
  <2>1. v = w
    BY <1>1 DEF DownToPage
  <2> QED
    BY <1>1, <2>1
<1>2. CASE ~w.end /\ Entry(w).large
  <2>1. v = [w EXCEPT !.end = TRUE]
    BY <1>2 DEF DownToPage
  <2>2. /\ v \in Walks /\ v.s = w.s /\ v.table = w.table /\ v.index = w.index /\ v.level = w.level
        /\ v.end = TRUE /\ v.ok = w.ok
    BY <1>0, <2>1 DEF Walks
  <2>3. Walking(v, mem, root, g)
    BY <2>2 DEF Walking
  <2>4. Entry(v) = Entry(w)
    BY <2>2 DEF Entry
  <2> QED
    BY <1>2, <2>2, <2>3, <2>4 DEF Ended
<1>3. CASE ~w.end /\ ~Entry(w).large
  <2>1. v = Down(w, g, create)
    BY <1>3 DEF DownToPage
  <2>2. w.ok /\ w.level \in 2 .. 4
    BY <1>3 DEF Ended
  <2> QED
    BY <1>3, <2>1, <2>2, DownWalks
<1> QED
  BY <1>1, <1>2, <1>3

\* Where a walk ends: at a page, in a table of level 1, or where a table lacks.
LEMMA WalkIs ==
  ASSUME NEW mem, NEW root, TreeIn(mem, root), NEW g \in Addresses, NEW create \in BOOLEAN
  PROVE  LET w == walk(mem, root, g, create) IN
         /\ Walking(w, mem, root, g) /\ Ended(w)
         /\ ~w.end => w.level = 1
         /\ ~create => w.s = mem
<1> DEFINE w4 == AtRoot(mem, root, g)
           w3 == Down(w4, g, create)
           w2 == DownToPage(w3, g, create)
           w1 == DownToPage(w2, g, create)
<1>0. walk(mem, root, g, create) = w1
  BY DEF walk
<1>1. /\ Walking(w4, mem, root, g) /\ ~w4.end /\ w4.ok /\ w4.level = 4 /\ ~Entry(w4).large /\ w4.s = mem
  BY RootWalks
<1> HIDE DEF w4
<1>2. /\ Walking(w3, mem, root, g) /\ Ended(w3)
      /\ ~w3.end => w3.level = 3
      /\ ~create => w3.s = mem
  <2>1. w4.level \in 2 .. 4
    BY <1>1
  <2>2. /\ Walking(w3, mem, root, g) /\ Ended(w3)
        /\ ~w3.end => w3.level = w4.level - 1
        /\ ~create => w3.s = w4.s
    BY <1>1, <2>1, DownWalks
  <2> QED
    BY <1>1, <2>2
<1> HIDE DEF w3
<1>3. /\ Walking(w2, mem, root, g) /\ Ended(w2)
      /\ ~w2.end => w2.level = 2
      /\ ~create => w2.s = mem
  <2>1. ~w3.end => w3.level \in 2 .. 3
    BY <1>2
  <2>2. /\ Walking(w2, mem, root, g) /\ Ended(w2)
        /\ ~w2.end => ~w3.end /\ w2.level = w3.level - 1
        /\ ~create => w2.s = w3.s
    BY <1>2, <2>1, PageWalks
  <2> QED
    BY <1>2, <2>2
<1> HIDE DEF w2
<1>4. /\ Walking(w1, mem, root, g) /\ Ended(w1)
      /\ ~w1.end => w1.level = 1
      /\ ~create => w1.s = mem
  <2>1. ~w2.end => w2.level \in 2 .. 3
    BY <1>3
  <2>2. /\ Walking(w1, mem, root, g) /\ Ended(w1)
        /\ ~w1.end => ~w2.end /\ w1.level = w2.level - 1
        /\ ~create => w1.s = w2.s
    BY <1>3, <2>1, PageWalks
  <2> QED
    BY <1>3, <2>2
<1> QED
  BY <1>0, <1>4

\* No larger page is in the way.
NoLarger(mem, root, g, k) == \A m \in 2 .. 3 : m > k => ~PageAt(mem, root, g, m)

\* A walk to a level gets there, unless it finds no memory.
LEMMA WalkToIs ==
  ASSUME NEW mem, NEW root, TreeIn(mem, root), NEW g \in Addresses, NEW k \in 2 .. 3, NoLarger(mem, root, g, k)
  PROVE  LET w == WalkTo(mem, root, g, k) IN
         /\ Walking(w, mem, root, g)
         /\ w.ok => w.level = k
<1> DEFINE w4 == AtRoot(mem, root, g)
           w3 == Down(w4, g, TRUE)
           w2 == DownIfOk(w3, g)
<1>1. /\ Walking(w4, mem, root, g) /\ ~w4.end /\ w4.ok /\ w4.level = 4 /\ ~Entry(w4).large /\ w4.s = mem
  BY RootWalks
<1>2. WalkTo(mem, root, g, k) = IF k = 3 THEN w3 ELSE w2
  BY DEF WalkTo
<1> HIDE DEF w4
<1>3. /\ Walking(w3, mem, root, g) /\ Ended(w3)
      /\ w3.end => ~w3.ok
      /\ ~w3.end => w3.level = 3
  <2>1. w4.level \in 2 .. 4
    BY <1>1
  <2>2. /\ Walking(w3, mem, root, g) /\ Ended(w3)
        /\ w3.end => ~w3.ok
        /\ ~w3.end => w3.level = w4.level - 1
    BY <1>1, <2>1, DownWalks
  <2>3. w4.level - 1 = 3
    BY <1>1
  <2> QED
    BY <2>2, <2>3
<1> HIDE DEF w3
<1>4. CASE k = 3
  <2>1. w3.ok => w3.level = 3
    BY <1>3
  <2> QED
    BY <1>2, <1>3, <1>4, <2>1
<1>5. CASE k = 2 /\ ~w3.ok
  <2>1. w2 = w3
    BY <1>5 DEF DownIfOk
  <2> QED
    BY <1>2, <1>3, <1>5, <2>1
<1>6. CASE k = 2 /\ w3.ok
  <2>1. w2 = Down(w3, g, TRUE)
    BY <1>6 DEF DownIfOk
  <2>2. w3.level = 3 /\ ~w3.end
    BY <1>3, <1>6
  <2>3. ~Entry(w3).large
    <3>1. ~PageAt(mem, root, g, 3)
      BY <1>6 DEF NoLarger
    <3>2. ~PageAt(w3.s, root, g, 3) /\ Reaches(w3.s, root, g, 3)
      BY <1>3, <2>2, <3>1 DEF Walking, SamePages
    <3>3. Entry(w3) = EntryAt(w3.s, root, g, 3)
      BY <1>3, <2>2, EntryIs
    <3> QED
      BY <3>2, <3>3 DEF PageAt
  <2>4. w3.level \in 2 .. 4 /\ TRUE \in BOOLEAN
    BY <2>2
  <2>5. /\ Walking(w2, mem, root, g) /\ Ended(w2)
        /\ w2.end => ~w2.ok
        /\ ~w2.end => w2.level = w3.level - 1
    BY <1>3, <1>6, <2>1, <2>2, <2>3, <2>4, DownWalks
  <2> QED
    BY <1>2, <1>6, <2>2, <2>5
<1> QED
  BY <1>4, <1>5, <1>6

\* A walk that may create finds level 1 if no larger page is in the way.
LEMMA WalkSmall ==
  ASSUME NEW mem, NEW root, TreeIn(mem, root), NEW g \in Addresses, NoLarger(mem, root, g, 1)
  PROVE  LET w == walk(mem, root, g, TRUE) IN
         /\ Walking(w, mem, root, g)
         /\ w.ok => w.level = 1
<1> DEFINE w == walk(mem, root, g, TRUE)
<1>1. /\ Walking(w, mem, root, g) /\ Ended(w)
      /\ ~w.end => w.level = 1
  BY WalkIs
<1> HIDE DEF w
<1>2. ASSUME w.ok, w.end PROVE FALSE
  <2>1. w.level \in 2 .. 3 /\ Entry(w).large
    BY <1>1, <1>2 DEF Ended
  <2>2. Entry(w) = EntryAt(w.s, root, g, w.level) /\ Reaches(w.s, root, g, w.level)
    BY <1>1, EntryIs DEF Walking
  <2>3. PageAt(w.s, root, g, w.level)
    BY <2>1, <2>2 DEF PageAt
  <2>4. PageAt(mem, root, g, w.level)
    BY <1>1, <2>1, <2>3 DEF Walking, SamePages
  <2> QED
    BY <2>1, <2>4 DEF NoLarger
<1> QED
  BY <1>1, <1>2 DEF w

\* What the hardware finds, and what a walk that creates nothing finds.
LEMMA WalkFinds ==
  ASSUME NEW mem, NEW root, TreeIn(mem, root), NEW g \in Addresses
  PROVE  LET w == walk(mem, root, g, FALSE) IN
         /\ \A k \in 1 .. 3 : PageAt(mem, root, g, k) <=> (w.ok /\ w.level = k /\ Entry(w) # Absent)
         /\ w.ok => w.level \in 1 .. 3
         /\ w.ok /\ w.level > 1 => Entry(w).large
         /\ Walking(w, mem, root, g) /\ w.s = mem
         /\ Entry(w) = EntryAt(mem, root, g, w.level)
<1> DEFINE w == walk(mem, root, g, FALSE)
<1>1. /\ Walking(w, mem, root, g) /\ Ended(w)
      /\ ~w.end => w.level = 1
      /\ w.s = mem
  BY WalkIs
<1> HIDE DEF w
<1>2. w.level \in 1 .. 4 /\ w.end \in BOOLEAN /\ w.ok \in BOOLEAN /\ Reaches(mem, root, g, w.level)
  BY <1>1 DEF Walking, Walks
<1>3. Entry(w) = EntryAt(mem, root, g, w.level)
  BY <1>1, EntryIs
<1>4. w.ok => w.level \in 1 .. 3
  BY <1>1, <1>2 DEF Ended
<1>5. w.ok /\ w.level > 1 => Entry(w).large
  BY <1>1, <1>2 DEF Ended
<1>6. ASSUME NEW k \in 1 .. 3, w.ok, w.level = k, Entry(w) # Absent PROVE PageAt(mem, root, g, k)
  <2>1. CASE k = 1
    BY <1>2, <1>3, <1>6, <2>1 DEF PageAt
  <2>2. CASE k > 1
    BY <1>2, <1>3, <1>5, <1>6, <2>2 DEF PageAt
  <2> QED
    BY <2>1, <2>2
<1>7. ASSUME NEW k \in 1 .. 3, PageAt(mem, root, g, k) PROVE w.ok /\ w.level = k /\ Entry(w) # Absent
  <2>1. Reaches(mem, root, g, k)
    BY <1>7 DEF PageAt
  <2>2. ~(k < w.level)
    <3> SUFFICES ASSUME k < w.level PROVE FALSE
      OBVIOUS
    <3>1. IsTable(Entry(w))
      BY <1>2, <1>3, <2>1, TablesAbove
    <3>2. w.end
      BY <1>1, <1>2
    <3> QED
      BY <1>1, <3>1, <3>2 DEF Ended, IsTable
  <2>3. ~(w.level < k)
    <3> SUFFICES ASSUME w.level < k PROVE FALSE
      OBVIOUS
    <3>1. IsTable(EntryAt(mem, root, g, k))
      BY <1>2, TablesAbove
    <3> QED
      BY <1>2, <1>7, <3>1 DEF PageAt, IsTable
  <2>4. w.level = k
    BY <1>2, <2>2, <2>3
  <2>5. IF k = 1 THEN Entry(w) # Absent ELSE Entry(w).large
    BY <1>3, <1>7, <2>4 DEF PageAt
  <2>6. w.ok
    BY <1>1, <1>2, <2>4, <2>5 DEF Ended
  <2> QED
    BY <2>4, <2>5, <2>6 DEF Absent
<1> QED
  BY <1>1, <1>3, <1>4, <1>5, <1>6, <1>7 DEF w

LEMMA TranslationIs ==
  ASSUME NEW mem, NEW root, TreeIn(mem, root), NEW g \in Addresses
  PROVE  /\ \A k \in 1 .. 3 : PageAt(mem, root, g, k) =>
              Translation(mem, root, g) = [frame |-> EntryAt(mem, root, g, k).to + (g % Size(k)),
                                         perm |-> EntryAt(mem, root, g, k).perm]
         /\ (\A k \in 1 .. 3 : ~PageAt(mem, root, g, k)) => Translation(mem, root, g) = Unmapped
<1> DEFINE w == walk(mem, root, g, FALSE)
<1>1. /\ \A k \in 1 .. 3 : PageAt(mem, root, g, k) <=> (w.ok /\ w.level = k /\ Entry(w) # Absent)
      /\ w.ok => w.level \in 1 .. 3
      /\ Entry(w) = EntryAt(mem, root, g, w.level)
  BY WalkFinds
<1>2. Translation(mem, root, g) =
        IF ~w.ok \/ Entry(w) = Absent THEN Unmapped
        ELSE [frame |-> Entry(w).to + (g % Size(w.level)), perm |-> Entry(w).perm]
  BY DEF Translation
<1> HIDE DEF w
<1>3. ASSUME NEW k \in 1 .. 3, PageAt(mem, root, g, k)
      PROVE  Translation(mem, root, g) = [frame |-> EntryAt(mem, root, g, k).to + (g % Size(k)),
                                        perm |-> EntryAt(mem, root, g, k).perm]
  <2>1. w.ok /\ w.level = k /\ Entry(w) # Absent
    BY <1>1, <1>3
  <2> QED
    BY <1>1, <1>2, <2>1
<1>4. ASSUME \A k \in 1 .. 3 : ~PageAt(mem, root, g, k)
      PROVE  Translation(mem, root, g) = Unmapped
  <2>1. ~w.ok \/ Entry(w) = Absent
    BY <1>1, <1>4
  <2> QED
    BY <1>2, <2>1
<1> QED
  BY <1>3, <1>4

-----------------------------------------------------------------------------
(* Page tables: what an operation makes of the translations. *)

PageOf(e, k, a) == [frame |-> e.to + (a % Size(k)), perm |-> e.perm]

LEMMA SameView ==
  ASSUME NEW mem, NEW q, NEW root, TreeIn(mem, root), TreeIn(q, root), NEW a \in Addresses,
         \A m \in 1 .. 3 : /\ PageAt(q, root, a, m) <=> PageAt(mem, root, a, m)
                           /\ PageAt(mem, root, a, m) => EntryAt(q, root, a, m) = EntryAt(mem, root, a, m)
  PROVE  Translation(q, root, a) = Translation(mem, root, a)
<1>1. CASE \E m \in 1 .. 3 : PageAt(mem, root, a, m)
  <2>1. PICK m \in 1 .. 3 : PageAt(mem, root, a, m)
    BY <1>1
  <2>2. PageAt(q, root, a, m) /\ EntryAt(q, root, a, m) = EntryAt(mem, root, a, m)
    BY <2>1
  <2>3. Translation(mem, root, a) = PageOf(EntryAt(mem, root, a, m), m, a)
    BY <2>1, TranslationIs DEF PageOf
  <2>4. Translation(q, root, a) = PageOf(EntryAt(q, root, a, m), m, a)
    BY <2>2, TranslationIs DEF PageOf
  <2> QED
    BY <2>2, <2>3, <2>4
<1>2. CASE \A m \in 1 .. 3 : ~PageAt(mem, root, a, m)
  <2>1. \A m \in 1 .. 3 : ~PageAt(q, root, a, m)
    BY <1>2
  <2>2. Translation(mem, root, a) = Unmapped
    BY <1>2, TranslationIs
  <2>3. Translation(q, root, a) = Unmapped
    BY <2>1, TranslationIs
  <2> QED
    BY <2>2, <2>3
<1> QED
  BY <1>1, <1>2

\* A run of n pages is mapped; elsewhere nothing has changed.
RunDone(mem, q, root, g, h, n, perm) ==
    /\ TreeIn(q, root)
    /\ \A a \in Addresses :
         /\ a \in g .. g + n - 1 => Translation(q, root, a) = [frame |-> h + (a - g), perm |-> perm]
         /\ a \notin g .. g + n - 1 =>
              /\ Translation(q, root, a) = Translation(mem, root, a)
              /\ \A m \in 1 .. 3 : PageAt(q, root, a, m) <=> PageAt(mem, root, a, m)

LEMMA RunNone ==
  ASSUME NEW mem, NEW q, NEW root, TreeIn(mem, root), TreeIn(q, root), SamePages(mem, q, root),
         NEW g \in Nat, NEW h, NEW perm
  PROVE  RunDone(mem, q, root, g, h, 0, perm)
<1>1. ASSUME NEW a \in Addresses
      PROVE  /\ Translation(q, root, a) = Translation(mem, root, a)
             /\ \A m \in 1 .. 3 : PageAt(q, root, a, m) <=> PageAt(mem, root, a, m)
  <2>1. \A m \in 1 .. 3 : /\ PageAt(q, root, a, m) <=> PageAt(mem, root, a, m)
                          /\ PageAt(mem, root, a, m) => EntryAt(q, root, a, m) = EntryAt(mem, root, a, m)
    BY DEF SamePages
  <2> QED
    BY <2>1, SameView
<1>2. g .. g + 0 - 1 = {}
  OBVIOUS
<1> QED
  BY <1>1, <1>2 DEF RunDone

LEMMA RunMore ==
  ASSUME NEW mem, NEW q, NEW r, NEW root, NEW g \in Nat, NEW h \in Nat, NEW n \in Nat, NEW m \in Nat, NEW perm,
         RunDone(mem, q, root, g, h, n, perm), RunDone(q, r, root, g + n, h + n, m, perm)
  PROVE  RunDone(mem, r, root, g, h, n + m, perm)
<1>1. TreeIn(r, root)
  BY DEF RunDone
<1>2. ASSUME NEW a \in Addresses, a \in g .. g + (n + m) - 1
      PROVE  Translation(r, root, a) = [frame |-> h + (a - g), perm |-> perm]
  <2>0. a \in Nat
    BY AddressIn
  <2>1. CASE a \in g .. g + n - 1
    <3>1. a \notin g + n .. (g + n) + m - 1
      BY <2>0, <2>1
    <3> QED
      BY <2>1, <3>1 DEF RunDone
  <2>2. CASE a \notin g .. g + n - 1
    <3>1. a \in g + n .. (g + n) + m - 1
      BY <1>2, <2>0, <2>2
    <3>2. (h + n) + (a - (g + n)) = h + (a - g)
      BY <2>0
    <3>3. Translation(r, root, a) = [frame |-> (h + n) + (a - (g + n)), perm |-> perm]
      BY <3>1 DEF RunDone
    <3> QED
      BY <3>2, <3>3
  <2> QED
    BY <2>1, <2>2
<1>3. ASSUME NEW a \in Addresses, a \notin g .. g + (n + m) - 1
      PROVE  /\ Translation(r, root, a) = Translation(mem, root, a)
             /\ \A k \in 1 .. 3 : PageAt(r, root, a, k) <=> PageAt(mem, root, a, k)
  <2>0. a \in Nat
    BY AddressIn
  <2>1. a \notin g .. g + n - 1 /\ a \notin g + n .. (g + n) + m - 1
    BY <1>3, <2>0
  <2>2. /\ Translation(q, root, a) = Translation(mem, root, a)
        /\ \A k \in 1 .. 3 : PageAt(q, root, a, k) <=> PageAt(mem, root, a, k)
    BY <2>1 DEF RunDone
  <2>3. /\ Translation(r, root, a) = Translation(q, root, a)
        /\ \A k \in 1 .. 3 : PageAt(r, root, a, k) <=> PageAt(q, root, a, k)
    BY <2>1 DEF RunDone
  <2> QED
    BY <2>2, <2>3
<1> QED
  BY <1>1, <1>2, <1>3 DEF RunDone

\* After a walk, an entry that points to no table is stored.
LEMMA StoreView ==
  ASSUME NEW mem, NEW root, TreeIn(mem, root), NEW g \in Addresses, NEW w, Walking(w, mem, root, g),
         w.level \in 1 .. 3, NEW e \in TabEntries, w.level >= 2 => ~IsTable(e)
  PROVE  /\ TreeIn(Store(w, e), root)
         /\ \A a \in Addresses :
              /\ SameBlock(a, g, w.level) =>
                   Translation(Store(w, e), root, a)
                     = IF IsPage(e, w.level) THEN PageOf(e, w.level, a) ELSE Unmapped
              /\ ~SameBlock(a, g, w.level) =>
                   /\ Translation(Store(w, e), root, a) = Translation(mem, root, a)
                   /\ \A m \in 1 .. 3 : PageAt(Store(w, e), root, a, m) <=> PageAt(mem, root, a, m)
<1> DEFINE k == w.level
           q == Store(w, e)
<1>0. g \in Nat
  BY AddressIn
<1>1. /\ w \in Walks /\ Reaches(w.s, root, g, k) /\ w.table = TableAt(w.s, root, g, k)
      /\ w.index = IndexOf(g, k) /\ SamePages(mem, w.s, root)
  BY DEF Walking
<1>2. PICK lvl : Graded(w.s, root, lvl)
  BY DEF Walking, TreeIn
<1>3. w.s \in TabMem /\ w.table \in TablePages /\ w.index \in TabIndex /\ k \in 1 .. 3
  BY <1>1 DEF Walks
<1>4. q = StoredIn(w.s, TableAt(w.s, root, g, k), IndexOf(g, k), e)
  BY <1>1 DEF Store, StoredIn
<1>5. lvl[w.table] = k
  BY <1>0, <1>1, <1>2, <1>3, PathIn
<1>6. TreeIn(q, root)
  <2>1. LET p == StoredIn(w.s, w.table, w.index, e) IN p \in TabMem /\ Graded(p, root, lvl)
    BY <1>2, <1>3, <1>5, StoreTree
  <2> QED
    BY <1>1, <1>4, <2>1 DEF TreeIn
<1>7. ASSUME NEW a \in Addresses, NEW m \in 1 .. 3
      PROVE  /\ SameBlock(a, g, k) => /\ PageAt(q, root, a, m) <=> (m = k /\ IsPage(e, k))
                                      /\ EntryAt(q, root, a, k) = e
             /\ ~SameBlock(a, g, k) => /\ PageAt(q, root, a, m) <=> PageAt(w.s, root, a, m)
                                       /\ PageAt(w.s, root, a, m) => EntryAt(q, root, a, m) = EntryAt(w.s, root, a, m)
  BY <1>1, <1>2, <1>3, <1>4, StorePages
<1> HIDE DEF k, q
<1>8. ASSUME NEW a \in Addresses, SameBlock(a, g, k)
      PROVE  Translation(q, root, a) = IF IsPage(e, k) THEN PageOf(e, k, a) ELSE Unmapped
  <2>1. CASE IsPage(e, k)
    <3>1. PageAt(q, root, a, k) /\ EntryAt(q, root, a, k) = e
      BY <1>3, <1>7, <1>8, <2>1
    <3> QED
      BY <1>3, <1>6, <2>1, <3>1, TranslationIs DEF PageOf
  <2>2. CASE ~IsPage(e, k)
    <3>1. \A m \in 1 .. 3 : ~PageAt(q, root, a, m)
      BY <1>7, <1>8, <2>2
    <3> QED
      BY <1>6, <2>2, <3>1, TranslationIs
  <2> QED
    BY <2>1, <2>2
<1>9. ASSUME NEW a \in Addresses, ~SameBlock(a, g, k)
      PROVE  /\ Translation(q, root, a) = Translation(mem, root, a)
             /\ \A m \in 1 .. 3 : PageAt(q, root, a, m) <=> PageAt(mem, root, a, m)
  <2>1. \A m \in 1 .. 3 :
          /\ PageAt(w.s, root, a, m) <=> PageAt(mem, root, a, m)
          /\ PageAt(mem, root, a, m) => EntryAt(w.s, root, a, m) = EntryAt(mem, root, a, m)
    BY <1>1 DEF SamePages
  <2>2. \A m \in 1 .. 3 :
          /\ PageAt(q, root, a, m) <=> PageAt(w.s, root, a, m)
          /\ PageAt(w.s, root, a, m) => EntryAt(q, root, a, m) = EntryAt(w.s, root, a, m)
    BY <1>7, <1>9
  <2>3. \A m \in 1 .. 3 :
          /\ PageAt(q, root, a, m) <=> PageAt(mem, root, a, m)
          /\ PageAt(mem, root, a, m) => EntryAt(q, root, a, m) = EntryAt(mem, root, a, m)
    BY <2>1, <2>2
  <2> QED
    BY <1>6, <2>3, SameView
<1> QED
  BY <1>6, <1>8, <1>9 DEF k, q

\* A page of level k has been stored at an address that is a multiple of its size.
LEMMA StoreRun ==
  ASSUME NEW mem, NEW root, TreeIn(mem, root), NEW g \in Addresses, NEW w, Walking(w, mem, root, g),
         NEW k \in 1 .. 3, w.level = k, g % Size(k) = 0,
         NEW h \in Nat, NEW perm \in SUBSET {"R", "W", "X"}
  PROVE  RunDone(mem, Store(w, PageEntry(h, perm, k > 1)), root, g, h, Size(k), perm)
<1> DEFINE e == PageEntry(h, perm, k > 1)
           q == Store(w, e)
<1>0. g \in Nat
  BY AddressIn
<1>0a. (k > 1) \in BOOLEAN
  OBVIOUS
<1>1. e \in TabEntries /\ e.to = h /\ e.perm = perm /\ e.large = (k > 1)
  BY <1>0a, Zenon DEF PageEntry, TabEntries
<1> HIDE DEF e
<1>2. w.level >= 2 => ~IsTable(e)
  <2> SUFFICES ASSUME w.level >= 2 PROVE ~IsTable(e)
    OBVIOUS
  <2>1. k > 1
    OBVIOUS
  <2> QED
    BY <1>1, <2>1 DEF IsTable
<1>3. /\ TreeIn(q, root)
      /\ \A a \in Addresses :
           /\ SameBlock(a, g, k) =>
                Translation(q, root, a) = IF IsPage(e, k) THEN PageOf(e, k, a) ELSE Unmapped
           /\ ~SameBlock(a, g, k) =>
                /\ Translation(q, root, a) = Translation(mem, root, a)
                /\ \A m \in 1 .. 3 : PageAt(q, root, a, m) <=> PageAt(mem, root, a, m)
  BY <1>1, <1>2, StoreView
<1> HIDE DEF q
<1>4. Aligned(g, k) = g /\ Size(k) \in Nat \ {0}
  BY <1>0, SizeIs DEF Aligned
<1>5. ASSUME NEW a \in Addresses
      PROVE  /\ a \in g .. g + Size(k) - 1 <=> SameBlock(a, g, k)
             /\ SameBlock(a, g, k) => a - g = a % Size(k)
  <2>1. a \in Nat /\ k \in 1 .. 4
    BY AddressIn
  <2>2. Block(g, k) = g .. g + Size(k) - 1
    BY <1>4 DEF Block
  <2> QED
    BY <1>0, <1>4, <2>1, <2>2, BlockIs
<1>6. ASSUME NEW a \in Addresses, SameBlock(a, g, k)
      PROVE  Translation(q, root, a) = [frame |-> h + (a - g), perm |-> perm]
  <2>1. a - g = a % Size(k)
    BY <1>5, <1>6
  <2>2. CASE IsPage(e, k)
    BY <1>1, <1>3, <1>6, <2>1, <2>2 DEF PageOf
  <2>3. CASE ~IsPage(e, k)
    <3>1. k = 1 /\ e = Absent
      <4>1. CASE k = 1
        BY <2>3, <4>1 DEF IsPage
      <4>2. CASE k # 1
        <5>1. k > 1
          BY <4>2
        <5> QED
          BY <1>1, <2>3, <4>2, <5>1 DEF IsPage
      <4> QED
        BY <4>1, <4>2
    <3>2. h = 0 /\ perm = {}
      BY <1>1, <3>1 DEF Absent
    <3>3. a - g = 0
      <4>1. a \in Nat
        BY AddressIn
      <4> QED
        BY <2>1, <3>1, <4>1, SizeIs
    <3> QED
      BY <1>3, <1>6, <2>3, <3>2, <3>3 DEF Unmapped
  <2> QED
    BY <2>2, <2>3
<1>7. RunDone(mem, q, root, g, h, Size(k), perm)
  BY <1>3, <1>5, <1>6 DEF RunDone
<1> QED
  BY <1>7 DEF q, e

-----------------------------------------------------------------------------
(* Ept: mapping pages and ranges. *)

LEMMA MapPage ==
  ASSUME NEW mem, TreeIn(mem, pml4), NEW g \in Addresses, NoLarger(mem, pml4, g, 1),
         NEW h \in Nat, NEW perm \in SUBSET {"R", "W", "X"}
  PROVE  LET r == map_page(mem, g, h, perm) IN
         /\ r.ok \in BOOLEAN
         /\ r.ok => RunDone(mem, r.s, pml4, g, h, 1, perm)
         /\ ~r.ok => RunDone(mem, r.s, pml4, g, h, 0, perm)
<1> DEFINE w == walk(mem, pml4, g, TRUE)
           r == map_page(mem, g, h, perm)
<1>0. g \in Nat
  BY AddressIn
<1>1. Walking(w, mem, pml4, g) /\ (w.ok => w.level = 1)
  BY WalkSmall
<1>2. r.ok = w.ok /\ r.s = IF w.ok THEN Store(w, PageEntry(h, perm, FALSE)) ELSE w.s
  BY DEF map_page, Outcome, ept_walk
<1> HIDE DEF w, r
<1>3. w.ok \in BOOLEAN /\ TreeIn(w.s, pml4) /\ SamePages(mem, w.s, pml4)
  BY <1>1 DEF Walking, Walks
<1>4. ASSUME w.ok PROVE RunDone(mem, r.s, pml4, g, h, 1, perm)
  <2>1. g % Size(1) = 0 /\ Size(1) = 1
    BY <1>0, SizeIs
  <2>2. (1 > 1) = FALSE
    OBVIOUS
  <2>3. w.level = 1 /\ 1 \in 1 .. 3
    BY <1>1, <1>4
  <2>4. RunDone(mem, Store(w, PageEntry(h, perm, 1 > 1)), pml4, g, h, Size(1), perm)
    BY <1>1, <2>1, <2>3, StoreRun
  <2> QED
    BY <1>2, <1>4, <2>1, <2>2, <2>4
<1>5. ASSUME ~w.ok PROVE RunDone(mem, r.s, pml4, g, h, 0, perm)
  BY <1>0, <1>2, <1>3, <1>5, RunNone
<1> QED
  BY <1>2, <1>3, <1>4, <1>5 DEF r

LEMMA MapLarge ==
  ASSUME NEW mem, TreeIn(mem, pml4), NEW g \in Addresses, NEW k \in 2 .. 3, NoLarger(mem, pml4, g, k),
         g % Size(k) = 0, NEW h \in Nat, NEW perm \in SUBSET {"R", "W", "X"}
  PROVE  LET r == map_large(mem, k, g, h, perm) IN
         /\ r.ok \in BOOLEAN
         /\ r.ok => RunDone(mem, r.s, pml4, g, Aligned(h, k), Size(k), perm)
         /\ ~r.ok => RunDone(mem, r.s, pml4, g, Aligned(h, k), 0, perm)
<1> DEFINE w == WalkTo(mem, pml4, g, k)
           r == map_large(mem, k, g, h, perm)
<1>0. g \in Nat /\ Aligned(h, k) \in Nat
  BY AddressIn, AlignedIs
<1>1. Walking(w, mem, pml4, g) /\ (w.ok => w.level = k)
  BY WalkToIs
<1>2. r.ok = w.ok /\ r.s = IF w.ok THEN Store(w, PageEntry(Aligned(h, k), perm, TRUE)) ELSE w.s
  BY DEF map_large, Outcome
<1> HIDE DEF w, r
<1>3. w.ok \in BOOLEAN /\ TreeIn(w.s, pml4) /\ SamePages(mem, w.s, pml4)
  BY <1>1 DEF Walking, Walks
<1>4. ASSUME w.ok PROVE RunDone(mem, r.s, pml4, g, Aligned(h, k), Size(k), perm)
  <2>1. (k > 1) = TRUE
    OBVIOUS
  <2>2. w.level = k /\ k \in 1 .. 3
    BY <1>1, <1>4
  <2>3. RunDone(mem, Store(w, PageEntry(Aligned(h, k), perm, k > 1)), pml4, g, Aligned(h, k), Size(k), perm)
    BY <1>0, <1>1, <2>2, StoreRun
  <2> QED
    BY <1>2, <1>4, <2>1, <2>3
<1>5. ASSUME ~w.ok PROVE RunDone(mem, r.s, pml4, g, Aligned(h, k), 0, perm)
  BY <1>0, <1>2, <1>3, <1>5, RunNone
<1> QED
  BY <1>2, <1>3, <1>4, <1>5 DEF r

\* A beginning of a range is mapped, all of it if nothing has failed.
RunSoFar(mem, r, g, h, n, perm) ==
    /\ r.ok \in BOOLEAN
    /\ \E k \in 0 .. n : (r.ok => k = n) /\ RunDone(mem, r.s, pml4, g, h, k, perm)

\* No page of a range is covered by a larger one.
RunFree(mem, g, n) ==
    /\ g .. g + n - 1 \subseteq Addresses
    /\ \A a \in g .. g + n - 1 : NoLarger(mem, pml4, a, 1)

LEMMA RunFreeKept ==
  ASSUME NEW mem, NEW q, NEW g \in Nat, NEW h, NEW n \in Nat, NEW perm, NEW k \in 0 .. n,
         RunFree(mem, g, n), RunDone(mem, q, pml4, g, h, k, perm), NEW a \in g + k .. g + n - 1
  PROVE  a \in Addresses /\ NoLarger(q, pml4, a, 1)
<1>1. a \in g .. g + n - 1 /\ a \notin g .. g + k - 1
  OBVIOUS
<1>2. a \in Addresses /\ NoLarger(mem, pml4, a, 1)
  BY <1>1 DEF RunFree
<1>3. \A m \in 1 .. 3 : PageAt(q, pml4, a, m) <=> PageAt(mem, pml4, a, m)
  BY <1>1, <1>2 DEF RunDone
<1> QED
  BY <1>2, <1>3 DEF NoLarger

LEMMA RunStep ==
  ASSUME NEW mem, NEW r, NEW x, NEW g \in Nat, NEW h \in Nat, NEW n \in Nat, NEW d \in Nat, NEW perm,
         RunSoFar(mem, r, g, h, n, perm),
         ~r.ok => x = r,
         r.ok => /\ x.ok \in BOOLEAN
                 /\ x.ok => RunDone(r.s, x.s, pml4, g + n, h + n, d, perm)
                 /\ ~x.ok => RunDone(r.s, x.s, pml4, g + n, h + n, 0, perm)
  PROVE  RunSoFar(mem, x, g, h, n + d, perm)
<1>1. PICK k \in 0 .. n : (r.ok => k = n) /\ RunDone(mem, r.s, pml4, g, h, k, perm)
  BY DEF RunSoFar
<1>2. CASE ~r.ok
  <2>1. x = r /\ k \in 0 .. n + d /\ x.ok \in BOOLEAN
    BY <1>2 DEF RunSoFar
  <2> QED
    BY <1>1, <1>2, <2>1 DEF RunSoFar
<1>3. CASE r.ok /\ x.ok
  <2>1. RunDone(mem, r.s, pml4, g, h, n, perm)
    BY <1>1, <1>3
  <2>2. RunDone(mem, x.s, pml4, g, h, n + d, perm)
    BY <1>3, <2>1, RunMore
  <2>3. n + d \in 0 .. n + d
    OBVIOUS
  <2> QED
    BY <1>3, <2>2, <2>3 DEF RunSoFar
<1>4. CASE r.ok /\ ~x.ok
  <2>1. RunDone(mem, r.s, pml4, g, h, n, perm)
    BY <1>1, <1>4
  <2>2. RunDone(mem, x.s, pml4, g, h, n + 0, perm)
    BY <1>4, <2>1, RunMore
  <2>3. n + 0 \in 0 .. n + d
    OBVIOUS
  <2> QED
    BY <1>4, <2>2, <2>3 DEF RunSoFar
<1> QED
  BY <1>2, <1>3, <1>4

\* The two loops of ept_map_range; e has the parameters and the numbers of the turns.
LargeStep(e, i, r) == range_2m(r, e.g, e.h, e.list[i], e.perm)
LargeLoop == INSTANCE ListLemmas WITH step <- LargeStep, pick <- Max
SmallStep(e, i, r) == range_4k(r, e.g, e.h, e.list[i], e.perm)
SmallLoop == INSTANCE ListLemmas WITH step <- SmallStep, pick <- Max

LEMMA RangeIsFold ==
  ASSUME NEW mem, NEW g, NEW h, NEW n, NEW perm
  PROVE  LET large == LargePages(g, h, n)
             done == large * Size(2)
             first == [i \in 1 .. large |-> i]
             rest == [i \in 1 .. (n - done) |-> i]
             half == LargeLoop!Fold([g |-> g, h |-> h, perm |-> perm, list |-> first],
                                    Outcome(mem, TRUE), DOMAIN first)
         IN  map_range(mem, g, h, n, perm)
               = SmallLoop!Fold([g |-> g + done, h |-> h + done, perm |-> perm, list |-> rest],
                                half, DOMAIN rest)
  BY DEF map_range, FoldLeft, MapThenFoldSet, LargeLoop!Fold, LargeStep, SmallLoop!Fold, SmallStep

LEMMA TimesLess ==
  ASSUME NEW x \in Nat, NEW y \in Nat, NEW d \in Nat, x <= y
  PROVE  x * d <= y * d
<1>1. PICK z \in Nat : y = x + z
  <2>1. y = x + (y - x) /\ y - x \in Nat
    OBVIOUS
  <2> QED
    BY <2>1
<1>2. y * d = x * d + z * d /\ z * d \in Nat
  BY <1>1
<1> QED
  BY <1>2
LEMMA Multiples ==
  ASSUME NEW x \in Nat, NEW d \in Nat \ {0}, x % d = 0, NEW j \in Nat
  PROVE  (x + j * d) % d = 0
<1> DEFINE q == x \div d
           y == j * d
<1>1. q \in Nat /\ x = d * q
  BY DivMod
<1> HIDE DEF q
<1>2. d * (q + j) = d * q + d * j /\ d * j = y /\ y \in Nat
  BY <1>1
<1>3. 0 \in 0 .. d - 1 /\ q + j \in Nat /\ d * q \in Nat
  BY <1>1
<1> HIDE DEF y
<1>4. x + y = d * (q + j) + 0 /\ x + y \in Nat
  BY <1>1, <1>2, <1>3
<1>5. (x + y) % d = 0
  BY <1>3, <1>4, DivisionIs
<1> QED
  BY <1>5 DEF y

\* The first loop: pages of level 2, as long as the addresses are aligned.
LEMMA LargeTurn ==
  ASSUME NEW mem, NEW g \in Nat, NEW h \in Nat, NEW n \in Nat, NEW perm \in SUBSET {"R", "W", "X"},
         TreeIn(mem, pml4), RunFree(mem, g, n), g % Size(2) = 0, h % Size(2) = 0,
         NEW j \in Nat, (j + 1) * Size(2) <= n,
         NEW r, RunSoFar(mem, r, g, h, j * Size(2), perm)
  PROVE  RunSoFar(mem, range_2m(r, g, h, j + 1, perm), g, h, (j + 1) * Size(2), perm)
<1> DEFINE z == Size(2)
           b == j * z
           x == range_2m(r, g, h, j + 1, perm)
<1>1. z \in Nat \ {0}
  BY SizeIs
<1>2. b \in Nat /\ (j + 1) * z = b + z /\ b + z <= n /\ (j + 1) - 1 = j
  BY <1>1
<1>3. x = IF r.ok THEN map_large(r.s, 2, g + b, h + b, perm) ELSE r
  BY <1>2 DEF range_2m
<1>4. (g + b) % z = 0 /\ (h + b) % z = 0
  BY <1>1, Multiples
<1>5. Aligned(h + b, 2) = h + b
  BY <1>2, <1>4 DEF Aligned
<1> HIDE DEF z, b, x
<1>6. ASSUME r.ok
      PROVE  /\ x.ok \in BOOLEAN
             /\ x.ok => RunDone(r.s, x.s, pml4, g + b, h + b, z, perm)
             /\ ~x.ok => RunDone(r.s, x.s, pml4, g + b, h + b, 0, perm)
  <2>1. PICK k \in 0 .. b : (r.ok => k = b) /\ RunDone(mem, r.s, pml4, g, h, k, perm)
    BY DEF RunSoFar, b, z
  <2>2. RunDone(mem, r.s, pml4, g, h, b, perm)
    BY <1>6, <2>1
  <2>3. b \in 0 .. n /\ g + b \in g + b .. g + n - 1
    BY <1>1, <1>2
  <2>4. g + b \in Addresses /\ NoLarger(r.s, pml4, g + b, 1)
    BY <2>2, <2>3, RunFreeKept
  <2>5. TreeIn(r.s, pml4) /\ NoLarger(r.s, pml4, g + b, 2)
    BY <2>2, <2>4 DEF RunDone, NoLarger
  <2>6. h + b \in Nat /\ 2 \in 2 .. 3 /\ (g + b) % Size(2) = 0
    BY <1>2, <1>4 DEF z
  <2> DEFINE y == map_large(r.s, 2, g + b, h + b, perm)
  <2>7. /\ y.ok \in BOOLEAN
        /\ y.ok => RunDone(r.s, y.s, pml4, g + b, Aligned(h + b, 2), Size(2), perm)
        /\ ~y.ok => RunDone(r.s, y.s, pml4, g + b, Aligned(h + b, 2), 0, perm)
    BY <2>4, <2>5, <2>6, MapLarge
  <2>8. x = y
    BY <1>3, <1>6
  <2> HIDE DEF y
  <2> QED
    BY <1>5, <2>7, <2>8 DEF z
<1>7. ~r.ok => x = r
  BY <1>3
<1>8. RunSoFar(mem, r, g, h, b, perm)
  BY DEF b, z
<1>9. RunSoFar(mem, x, g, h, b + z, perm)
  BY <1>1, <1>2, <1>6, <1>7, <1>8, RunStep
<1> QED
  BY <1>2, <1>9 DEF x, z

\* The second loop: single pages.
LEMMA SmallTurn ==
  ASSUME NEW mem, NEW g \in Nat, NEW h \in Nat, NEW n \in Nat, NEW perm \in SUBSET {"R", "W", "X"},
         TreeIn(mem, pml4), RunFree(mem, g, n), NEW d \in Nat,
         NEW j \in Nat, d + j + 1 <= n,
         NEW r, RunSoFar(mem, r, g, h, d + j, perm)
  PROVE  RunSoFar(mem, range_4k(r, g + d, h + d, j + 1, perm), g, h, d + (j + 1), perm)
<1> DEFINE b == d + j
           x == range_4k(r, g + d, h + d, j + 1, perm)
<1>1. (g + d) + (j + 1) - 1 = g + b /\ (h + d) + (j + 1) - 1 = h + b /\ b \in Nat /\ d + (j + 1) = b + 1
  OBVIOUS
<1>2. x = IF r.ok THEN map_page(r.s, g + b, h + b, perm) ELSE r
  BY <1>1 DEF range_4k
<1>3. b \in 0 .. n /\ g + b \in g + b .. g + n - 1 /\ h + b \in Nat
  OBVIOUS
<1>4. RunSoFar(mem, r, g, h, b, perm)
  OBVIOUS
<1> HIDE DEF b, x
<1>5. ASSUME r.ok
      PROVE  /\ x.ok \in BOOLEAN
             /\ x.ok => RunDone(r.s, x.s, pml4, g + b, h + b, 1, perm)
             /\ ~x.ok => RunDone(r.s, x.s, pml4, g + b, h + b, 0, perm)
  <2>1. PICK k \in 0 .. b : (r.ok => k = b) /\ RunDone(mem, r.s, pml4, g, h, k, perm)
    BY <1>4 DEF RunSoFar
  <2>2. RunDone(mem, r.s, pml4, g, h, b, perm)
    BY <1>5, <2>1
  <2>3. g + b \in Addresses /\ NoLarger(r.s, pml4, g + b, 1)
    BY <1>3, <2>2, RunFreeKept
  <2>4. TreeIn(r.s, pml4)
    BY <2>2 DEF RunDone
  <2> DEFINE y == map_page(r.s, g + b, h + b, perm)
  <2>5. /\ y.ok \in BOOLEAN
        /\ y.ok => RunDone(r.s, y.s, pml4, g + b, h + b, 1, perm)
        /\ ~y.ok => RunDone(r.s, y.s, pml4, g + b, h + b, 0, perm)
    BY <1>3, <2>3, <2>4, MapPage
  <2>6. x = y
    BY <1>2, <1>5
  <2> QED
    BY <2>5, <2>6
<1>6. ~r.ok => x = r
  BY <1>2
<1>7. RunSoFar(mem, x, g, h, b + 1, perm)
  BY <1>1, <1>4, <1>5, <1>6, RunStep
<1> QED
  BY <1>1, <1>7 DEF x

Outcomes == [s : TabMem, ok : BOOLEAN]

LEMMA OutcomeIn ==
  ASSUME NEW mem, NEW x, NEW g, NEW h, NEW n, NEW perm, RunSoFar(mem, x, g, h, n, perm),
         x \in Outcomes \/ \E q, ok : x = Outcome(q, ok)
  PROVE  x \in Outcomes
<1>1. CASE x \in Outcomes
  BY <1>1
<1>2. CASE \E q, ok : x = Outcome(q, ok)
  <2>1. PICK q, ok : x = Outcome(q, ok)
    BY <1>2
  <2>2. x.s = q /\ x.ok = ok /\ x = [s |-> q, ok |-> ok]
    BY <2>1 DEF Outcome
  <2>3. x.ok \in BOOLEAN /\ x.s \in TabMem
    BY DEF RunSoFar, RunDone, TreeIn
  <2> QED
    BY <2>2, <2>3 DEF Outcomes
<1> QED
  BY <1>1, <1>2

LEMMA LargeRun ==
  ASSUME NEW mem, NEW g \in Nat, NEW h \in Nat, NEW n \in Nat, NEW perm \in SUBSET {"R", "W", "X"},
         TreeIn(mem, pml4), RunFree(mem, g, n), NEW m \in Nat, m * Size(2) <= n,
         m > 0 => g % Size(2) = 0 /\ h % Size(2) = 0
  PROVE  LET list == [i \in 1 .. m |-> i]
             r == LargeLoop!Fold([g |-> g, h |-> h, perm |-> perm, list |-> list],
                                 Outcome(mem, TRUE), DOMAIN list)
         IN  r \in Outcomes /\ RunSoFar(mem, r, g, h, m * Size(2), perm)
<1> DEFINE list == [i \in 1 .. m |-> i]
           e == [g |-> g, h |-> h, perm |-> perm, list |-> list]
           I == [k \in 0 .. m |-> {r \in Outcomes : RunSoFar(mem, r, g, h, k * Size(2), perm)}]
<1>0. Size(2) \in Nat \ {0}
  BY SizeIs
<1>1. LargeLoop!PicksLast(m)
  BY LargeLoop!GreatestMember DEF LargeLoop!PicksLast, Max
<1>2. Outcome(mem, TRUE) \in I[0]
  <2> DEFINE r == Outcome(mem, TRUE)
  <2>1. r.s = mem /\ r.ok = TRUE /\ r \in Outcomes
    BY DEF Outcome, Outcomes, TreeIn
  <2>2. RunDone(mem, mem, pml4, g, h, 0, perm)
    BY SameSelf, RunNone
  <2>3. 0 * Size(2) = 0 /\ 0 \in 0 .. 0
    BY <1>0
  <2> HIDE DEF r
  <2>4. RunSoFar(mem, r, g, h, 0 * Size(2), perm)
    BY <2>1, <2>2, <2>3 DEF RunSoFar
  <2>5. 0 \in 0 .. m
    OBVIOUS
  <2> QED
    BY <2>1, <2>4, <2>5 DEF r
<1>3. ASSUME NEW k \in 0 .. m - 1, NEW r \in I[k]
      PROVE  LargeStep(e, k + 1, r) \in I[k + 1]
  <2> DEFINE x == range_2m(r, g, h, k + 1, perm)
  <2>1. LargeStep(e, k + 1, r) = x
    BY DEF LargeStep
  <2>2. r \in Outcomes /\ RunSoFar(mem, r, g, h, k * Size(2), perm)
    OBVIOUS
  <2>3. (k + 1) * Size(2) <= n /\ k \in Nat /\ g % Size(2) = 0 /\ h % Size(2) = 0
    <3>1. (k + 1) * Size(2) <= m * Size(2)
      <4>1. k + 1 \in Nat /\ k + 1 <= m
        OBVIOUS
      <4> QED
        BY <1>0, <4>1, TimesLess
    <3>2. (k + 1) * Size(2) \in Nat /\ m * Size(2) \in Nat
      BY <1>0
    <3>3. m > 0 /\ k \in Nat
      OBVIOUS
    <3>4. g % Size(2) = 0 /\ h % Size(2) = 0
      BY <3>3
    <3> DEFINE y == (k + 1) * Size(2)
               z == m * Size(2)
    <3>5. y <= z /\ z <= n /\ y \in Nat /\ z \in Nat
      BY <3>1, <3>2
    <3> HIDE DEF y, z
    <3>6. y <= n
      BY <3>5
    <3> QED
      BY <3>3, <3>4, <3>6 DEF y
  <2>4. RunSoFar(mem, x, g, h, (k + 1) * Size(2), perm)
    BY <2>2, <2>3, LargeTurn
  <2>5. x \in Outcomes \/ \E q, ok : x = Outcome(q, ok)
    BY <2>2 DEF range_2m, map_large
  <2> HIDE DEF x
  <2>6. x \in Outcomes
    BY <2>4, <2>5, OutcomeIn
  <2>7. k + 1 \in 0 .. m
    OBVIOUS
  <2> QED
    BY <2>1, <2>4, <2>6, <2>7
<1>4. DOMAIN list = 1 .. m
  OBVIOUS
<1>5. I[m] = {r \in Outcomes : RunSoFar(mem, r, g, h, m * Size(2), perm)}
  OBVIOUS
<1> HIDE DEF I, e, list
<1>6. LargeLoop!Fold(e, Outcome(mem, TRUE), 1 .. m) \in I[m]
  BY <1>1, <1>2, <1>3, LargeLoop!FoldSeqInduction
<1> QED
  BY <1>4, <1>5, <1>6 DEF e, list

LEMMA SmallRun ==
  ASSUME NEW mem, NEW g \in Nat, NEW h \in Nat, NEW n \in Nat, NEW perm \in SUBSET {"R", "W", "X"},
         TreeIn(mem, pml4), RunFree(mem, g, n), NEW d \in 0 .. n,
         NEW half \in Outcomes, RunSoFar(mem, half, g, h, d, perm)
  PROVE  LET list == [i \in 1 .. (n - d) |-> i]
             r == SmallLoop!Fold([g |-> g + d, h |-> h + d, perm |-> perm, list |-> list],
                                 half, DOMAIN list)
         IN  r \in Outcomes /\ RunSoFar(mem, r, g, h, n, perm)
<1> DEFINE m == n - d
           list == [i \in 1 .. m |-> i]
           e == [g |-> g + d, h |-> h + d, perm |-> perm, list |-> list]
           I == [k \in 0 .. m |-> {r \in Outcomes : RunSoFar(mem, r, g, h, d + k, perm)}]
<1>0. m \in Nat /\ d + m = n /\ d \in Nat
  OBVIOUS
<1>1. SmallLoop!PicksLast(m)
  BY <1>0, SmallLoop!GreatestMember DEF SmallLoop!PicksLast, Max
<1>2. half \in I[0]
  <2>1. d + 0 = d /\ 0 \in 0 .. m
    BY <1>0
  <2> QED
    BY <2>1
<1> HIDE DEF m
<1>3. ASSUME NEW k \in 0 .. m - 1, NEW r \in I[k]
      PROVE  SmallStep(e, k + 1, r) \in I[k + 1]
  <2> DEFINE x == range_4k(r, g + d, h + d, k + 1, perm)
  <2>0. k + 1 \in 1 .. m /\ k + 1 \in 0 .. m /\ k \in 0 .. m
    BY <1>0
  <2>1. SmallStep(e, k + 1, r) = x
    BY <2>0 DEF SmallStep
  <2>2. r \in Outcomes /\ RunSoFar(mem, r, g, h, d + k, perm)
    BY <2>0
  <2>3. d + k + 1 <= n /\ k \in Nat
    BY <1>0
  <2>4. RunSoFar(mem, x, g, h, d + (k + 1), perm)
    BY <1>0, <2>2, <2>3, SmallTurn
  <2>5. x \in Outcomes \/ \E q, ok : x = Outcome(q, ok)
    BY <2>2 DEF range_4k, map_page
  <2> HIDE DEF x
  <2>6. x \in Outcomes
    BY <2>4, <2>5, OutcomeIn
  <2> QED
    BY <2>0, <2>1, <2>4, <2>6
<1>4. DOMAIN list = 1 .. m
  OBVIOUS
<1>5. I[m] = {r \in Outcomes : RunSoFar(mem, r, g, h, n, perm)}
  BY <1>0
<1> HIDE DEF I, e, list
<1>6. SmallLoop!Fold(e, half, 1 .. m) \in I[m]
  BY <1>0, <1>1, <1>2, <1>3, SmallLoop!FoldSeqInduction
<1> QED
  BY <1>4, <1>5, <1>6 DEF e, list, m

LEMMA MapRange ==
  ASSUME NEW mem, NEW g \in Nat, NEW h \in Nat, NEW n \in Nat, NEW perm \in SUBSET {"R", "W", "X"},
         TreeIn(mem, pml4), RunFree(mem, g, n)
  PROVE  LET r == map_range(mem, g, h, n, perm)
         IN  \E k \in 0 .. n : (r.ok => k = n) /\ RunDone(mem, r.s, pml4, g, h, k, perm)
<1> DEFINE m == LargePages(g, h, n)
           d == m * Size(2)
           first == [i \in 1 .. m |-> i]
           rest == [i \in 1 .. (n - d) |-> i]
           half == LargeLoop!Fold([g |-> g, h |-> h, perm |-> perm, list |-> first],
                                  Outcome(mem, TRUE), DOMAIN first)
           r == SmallLoop!Fold([g |-> g + d, h |-> h + d, perm |-> perm, list |-> rest],
                               half, DOMAIN rest)
<1>1. map_range(mem, g, h, n, perm) = r
  BY RangeIsFold
<1>2. m \in Nat /\ m * Size(2) <= n /\ (m > 0 => g % Size(2) = 0 /\ h % Size(2) = 0)
  <2> DEFINE z == Size(2)
             q == n \div z
  <2>1. z \in Nat \ {0}
    BY SizeIs
  <2>2. q \in Nat /\ n % z \in 0 .. z - 1 /\ n = z * q + (n % z)
    BY <2>1, DivMod
  <2>3. m = IF g % z = 0 /\ h % z = 0 THEN q ELSE 0
    BY DEF LargePages
  <2> HIDE DEF m, z, q
  <2>4. z * q = q * z /\ z * q \in Nat /\ 0 * z = 0
    BY <2>1, <2>2
  <2>5. m \in Nat /\ m * z <= n /\ (m > 0 => g % z = 0 /\ h % z = 0)
    BY <2>1, <2>2, <2>3, <2>4
  <2> QED
    BY <2>5 DEF z
<1> HIDE DEF m
<1>3. half \in Outcomes /\ RunSoFar(mem, half, g, h, m * Size(2), perm)
  BY <1>2, LargeRun
<1> HIDE DEF half
<1>4. d \in 0 .. n
  <2>1. Size(2) \in Nat
    BY SizeIs
  <2>2. m * Size(2) \in Nat
    BY <1>2, <2>1
  <2> QED
    BY <1>2, <2>2
<1> HIDE DEF d
<1>5. RunSoFar(mem, half, g, h, d, perm)
  BY <1>3 DEF d
<1>6. RunSoFar(mem, r, g, h, n, perm)
  BY <1>3, <1>4, <1>5, SmallRun
<1> HIDE DEF r
<1> QED
  BY <1>1, <1>6 DEF RunSoFar

-----------------------------------------------------------------------------
(* Ept: tables that no walk reaches. *)

LEMMA BelowIs ==
  ASSUME NEW mem, NEW root
  PROVE  LET l3 == Children(mem, root, 4)
             l2 == UNION {Children(mem, t, 3) : t \in l3}
             l1 == UNION {Children(mem, t, 2) : t \in l2}
         IN  TablesBelow(mem, root, TabIndex) = <<l3, l2, l1>> /\ Reachable(mem, root, TabIndex) = l3 \cup l2 \cup l1
<1> DEFINE l3 == Children(mem, root, 4)
           l2 == UNION {Children(mem, t, 3) : t \in l3}
           l1 == UNION {Children(mem, t, 2) : t \in l2}
<1>1. TableSlots(mem, root, 4) \cap TabIndex = TableSlots(mem, root, 4)
  BY DEF TableSlots
<1>2. TablesBelow(mem, root, TabIndex) = <<l3, l2, l1>>
  BY <1>1, Zenon DEF TablesBelow, Children
<1> HIDE DEF l3, l2, l1
<1>3. ToSet(<<l3, l2, l1>>) = {l3, l2, l1}
  BY DEF ToSet
<1>4. Reachable(mem, root, TabIndex) = UNION {l3, l2, l1}
  BY <1>2, <1>3 DEF Reachable
<1> QED
  BY <1>2, <1>4 DEF l3, l2, l1

LEMMA ChildIs ==
  ASSUME NEW mem, NEW t, NEW k \in 2 .. 4, NEW i \in TabIndex, IsTable(mem.tab[t][i])
  PROVE  mem.tab[t][i].to \in Children(mem, t, k)
<1>1. i \in TableSlots(mem, t, k)
  BY DEF TableSlots, IsTable
<1> QED
  BY <1>1 DEF Children

LEMMA InUse ==
  ASSUME NEW mem, NEW root, NEW a \in Nat, NEW k \in 1 .. 4, Reaches(mem, root, a, k)
  PROVE  TableAt(mem, root, a, k) \in {root} \cup Reachable(mem, root, TabIndex)
<1> DEFINE l3 == Children(mem, root, 4)
           l2 == UNION {Children(mem, t, 3) : t \in l3}
           l1 == UNION {Children(mem, t, 2) : t \in l2}
<1>0. Reachable(mem, root, TabIndex) = l3 \cup l2 \cup l1
  BY BelowIs
<1>1. ASSUME NEW m \in 2 .. 4, Reaches(mem, root, a, m - 1)
      PROVE  Reaches(mem, root, a, m) /\ TableAt(mem, root, a, m - 1) \in Children(mem, TableAt(mem, root, a, m), m)
  <2>1. /\ Reaches(mem, root, a, m) /\ IsTable(EntryAt(mem, root, a, m))
        /\ TableAt(mem, root, a, m - 1) = EntryAt(mem, root, a, m).to
    BY <1>1, PathStep
  <2>2. IndexOf(a, m) \in TabIndex
    BY IndexIn
  <2> QED
    BY <2>1, <2>2, ChildIs DEF EntryAt
<1>2. Reaches(mem, root, a, 3) => TableAt(mem, root, a, 3) \in l3
  <2>1. Reaches(mem, root, a, 4 - 1) => TableAt(mem, root, a, 4 - 1) \in Children(mem, TableAt(mem, root, a, 4), 4)
    BY <1>1
  <2> QED
    BY <2>1, PathTop
<1>3. Reaches(mem, root, a, 2) => Reaches(mem, root, a, 3) /\ TableAt(mem, root, a, 2) \in l2
  <2>1. Reaches(mem, root, a, 3 - 1) =>
          Reaches(mem, root, a, 3) /\ TableAt(mem, root, a, 3 - 1) \in Children(mem, TableAt(mem, root, a, 3), 3)
    BY <1>1
  <2> HIDE DEF l3
  <2> QED
    BY <1>2, <2>1
<1>4. Reaches(mem, root, a, 1) => TableAt(mem, root, a, 1) \in l1
  <2>1. Reaches(mem, root, a, 2 - 1) =>
          Reaches(mem, root, a, 2) /\ TableAt(mem, root, a, 2 - 1) \in Children(mem, TableAt(mem, root, a, 2), 2)
    BY <1>1
  <2> HIDE DEF l2
  <2> QED
    BY <1>3, <2>1
<1> HIDE DEF l3, l2, l1
<1>5. k = 1 \/ k = 2 \/ k = 3 \/ k = 4
  OBVIOUS
<1> QED
  BY <1>0, <1>2, <1>3, <1>4, <1>5, PathTop

\* Blanking them changes nothing.
LEMMA TidyKeeps ==
  ASSUME NEW mem, NEW root, TreeIn(mem, root)
  PROVE  TreeIn(Tidy(mem, root), root) /\ SamePages(mem, Tidy(mem, root), root)
<1> DEFINE used == {root} \cup Reachable(mem, root, TabIndex)
           q == Tidy(mem, root)
<1>1. PICK lvl : Graded(mem, root, lvl)
  BY DEF TreeIn
<1>2. mem \in TabMem /\ root \in TablePages /\ root # 0
  BY <1>1, PageTableConstants DEF TreeIn, Graded
<1>3. q = [mem EXCEPT !.tab = [p \in TablePages |-> IF p \in used THEN mem.tab[p] ELSE BlankTable]]
  BY <1>2 DEF Tidy
<1>4. BlankTable \in [TabIndex -> TabEntries] /\ \A i \in TabIndex : BlankTable[i] = Absent
  BY DEF BlankTable, Absent, TabEntries
<1> HIDE DEF used, q
<1>5. q \in TabMem /\ q.free = mem.free
  BY <1>2, <1>3, <1>4 DEF TabMem
<1>6. \A p \in TablePages : q.tab[p] = IF p \in used THEN mem.tab[p] ELSE BlankTable
  BY <1>2, <1>3 DEF TabMem
<1>7. \A p \in TablePages, i \in TabIndex : q.tab[p][i] = mem.tab[p][i] \/ q.tab[p][i] = Absent
  BY <1>4, <1>6
<1>8. ~IsTable(Absent) /\ ~Absent.large
  BY DEF IsTable, Absent, Present
<1>9. Graded(q, root, lvl)
  <2>1. ASSUME NEW u \in TablePages, NEW j \in TabIndex, IsTable(q.tab[u][j])
        PROVE  q.tab[u][j] = mem.tab[u][j]
    BY <1>7, <1>8, <2>1
  <2>2. ASSUME NEW u \in TablePages, NEW j \in TabIndex, lvl[u] >= 2, IsTable(q.tab[u][j])
        PROVE  q.tab[u][j].to \in TablePages /\ lvl[q.tab[u][j].to] = lvl[u] - 1
    BY <1>1, <2>1, <2>2 DEF Graded
  <2>3. ASSUME NEW u \in TablePages, NEW v \in TablePages, NEW j \in TabIndex, NEW x \in TabIndex,
               lvl[u] >= 2, IsTable(q.tab[u][j]), lvl[v] >= 2, IsTable(q.tab[v][x]),
               q.tab[u][j].to = q.tab[v][x].to
        PROVE  u = v /\ j = x
    <3>1. q.tab[u][j] = mem.tab[u][j] /\ q.tab[v][x] = mem.tab[v][x]
      BY <2>1, <2>3
    <3>2. /\ IsTable(mem.tab[u][j]) /\ IsTable(mem.tab[v][x])
          /\ mem.tab[u][j].to = mem.tab[v][x].to
      BY <2>3, <3>1
    <3> QED
      BY <1>1, <2>3, <3>2 DEF Graded
  <2>4. ASSUME NEW u \in TablePages, NEW j \in TabIndex, lvl[u] = 4
        PROVE  ~q.tab[u][j].large
    BY <1>1, <1>7, <1>8, <2>4 DEF Graded
  <2>5. lvl \in [TablePages -> 0 .. 4] /\ root \in TablePages /\ lvl[root] = 4 /\ \A u \in q.free : lvl[u] = 0
    BY <1>1, <1>5 DEF Graded
  <2> QED
    BY <2>2, <2>3, <2>4, <2>5 DEF Graded
<1>10. ASSUME NEW a \in Addresses PROVE \A k \in 1 .. 4 : SameEntry(mem, q, root, a, k)
  <2>0. a \in Nat
    BY AddressIn
  <2>1. ASSUME NEW k \in 1 .. 4, SameWay(mem, q, root, a, k) PROVE SameEntry(mem, q, root, a, k)
    <3> SUFFICES ASSUME Reaches(mem, root, a, k) PROVE EntryAt(q, root, a, k) = EntryAt(mem, root, a, k)
      BY <2>1 DEF SameEntry
    <3> DEFINE u == TableAt(mem, root, a, k)
    <3>1. u \in TablePages /\ u \in used
      BY <1>1, <2>0, PathIn, InUse DEF used
    <3>2. TableAt(q, root, a, k) = u
      BY <2>1 DEF SameWay
    <3>3. q.tab[u] = mem.tab[u]
      BY <1>6, <3>1
    <3> QED
      BY <3>2, <3>3 DEF EntryAt
  <2> DEFINE S == {k \in 1 .. 4 : SameWay(mem, q, root, a, k)}
  <2>2. 4 \in S
    BY PathTop DEF SameWay
  <2>3. ASSUME NEW k \in 2 .. 4, k \in S PROVE k - 1 \in S
    <3>1. SameEntry(mem, q, root, a, k)
      BY <2>1, <2>3
    <3>2. SameWay(mem, q, root, a, k - 1)
      BY <3>1, PathStep DEF SameEntry, SameWay
    <3> QED
      BY <3>2
  <2> HIDE DEF S
  <2>4. \A k \in 1 .. 4 : k \in S
    BY <2>2, <2>3, LevelsDown
  <2> QED
    BY <2>1, <2>4 DEF S
<1>11. SamePages(mem, q, root)
  BY <1>10 DEF SamePages, SameEntry, SameWay, PageAt
<1>12. TreeIn(q, root)
  BY <1>5, <1>9 DEF TreeIn
<1> QED
  BY <1>11, <1>12 DEF q

LEMMA RunTidy ==
  ASSUME NEW mem, NEW q, NEW root, NEW g \in Nat, NEW h \in Nat, NEW n \in Nat, NEW perm,
         RunDone(mem, q, root, g, h, n, perm)
  PROVE  RunDone(mem, Tidy(q, root), root, g, h, n, perm)
<1>1. TreeIn(q, root)
  BY DEF RunDone
<1>2. TreeIn(Tidy(q, root), root) /\ SamePages(q, Tidy(q, root), root)
  BY <1>1, TidyKeeps
<1>3. g + n \in Nat /\ n + 0 = n /\ 0 \in Nat
  OBVIOUS
<1>4. RunDone(q, Tidy(q, root), root, g + n, h + n, 0, perm)
  BY <1>1, <1>2, <1>3, RunNone
<1>5. RunDone(mem, Tidy(q, root), root, g, h, n + 0, perm)
  BY <1>3, <1>4, RunMore
<1> QED
  BY <1>3, <1>5

-----------------------------------------------------------------------------
(* Ept: the inductive invariant, and the steps of the map. *)

ViewOf(mem, root) == [g \in Guest |-> Finding(mem, root, g)]
EptIInv ==
    /\ ept_mem \in TabMem /\ pml4 \in TablePages \cup {0}
    /\ pml4 # 0 => TreeIn(ept_mem, pml4)
    /\ view = ViewOf(ept_mem, pml4)

LEMMA GuestIn ==
  /\ Guest \subseteq Addresses /\ IsFiniteSet(Guest)
  /\ \A g \in Guest : g \in Nat
<1>1. Guest \subseteq Addresses
  BY EptConstants DEF Addresses
<1>2. ENTRIES * Size(4) - 1 \in Int /\ 0 \in Int
  BY SizeIs, PageTableConstants
<1>3. IsFiniteSet(Addresses)
  BY <1>2, FS_Interval DEF Addresses
<1> QED
  BY <1>1, <1>3, FS_Subset, AddressIn

LEMMA FramesIn ==
  ASSUME NEW h \in HostBases, NEW k \in 1 .. 3
  PROVE  Aligned(h, k) \in Nat /\ h \in Nat
<1>1. h \in Nat
  BY EptConstants
<1> QED
  BY <1>1, AlignedIs

LEMMA CallIs ==
  ASSUME NEW op, NEW g, NEW h, NEW n, NEW perm, NEW ret
  PROVE  LET c == Call(op, g, h, n, perm, ret)
         IN  c.op = op /\ c.g = g /\ c.h = h /\ c.n = n /\ c.perm = perm /\ c.ret = ret
BY DEF Call

\* A run that has been mapped has been mapped in the map.
LEMMA RunMaps ==
  ASSUME EptIInv, pml4 # 0, pml4' = pml4, view' = ViewOf(ept_mem', pml4'),
         NEW g \in Nat, NEW h \in Nat, NEW n \in Nat, NEW perm,
         RunDone(ept_mem, ept_mem', pml4, g, h, n, perm)
  PROVE  EptIInv' /\ view' = Promise!Mapped(g, h, n, perm) /\ (n = 0 => view' = view)
<1>1. TreeIn(ept_mem', pml4') /\ ept_mem' \in TabMem
  BY DEF RunDone, TreeIn
<1>2. EptIInv'
  BY <1>1 DEF EptIInv
<1>3. \A a \in Guest : view[a] = Translation(ept_mem, pml4, a) /\ view'[a] = Translation(ept_mem', pml4, a)
  BY DEF EptIInv, ViewOf, Finding
<1>4. \A a \in Guest : a \in g .. g + n - 1 => view'[a] = [frame |-> h + (a - g), perm |-> perm]
  BY <1>3, GuestIn DEF RunDone
<1>5. \A a \in Guest : a \notin g .. g + n - 1 => view'[a] = view[a]
  BY <1>3, GuestIn DEF RunDone
<1>6. /\ view' = [a \in Guest |-> view'[a]]
      /\ view = [a \in Guest |-> view[a]]
  BY DEF EptIInv, ViewOf
<1>7. ASSUME n = 0 PROVE view' = view
  <2>1. \A a \in Guest : a \notin g .. g + n - 1
    BY <1>7
  <2> QED
    BY <1>5, <1>6, <2>1
<1>8. view' = Promise!Mapped(g, h, n, perm)
  <2> DEFINE new(x) == IF x \in g .. g + n - 1 THEN [frame |-> h + (x - g), perm |-> perm] ELSE view[x]
  <2>1. ASSUME NEW x \in Guest PROVE view'[x] = new(x)
    BY <1>4, <1>5
  <2> HIDE DEF new
  <2>2. view' = [x \in Guest |-> new(x)]
    BY <1>6, <2>1
  <2> QED
    BY <2>2 DEF new, Promise!Mapped, Promise!Run
<1> QED
  BY <1>2, <1>7, <1>8

\* What a walk finds is what the map says.
LEMMA ViewIs ==
  ASSUME EptIInv, pml4 # 0, NEW g \in Guest
  PROVE  LET w == walk(ept_mem, pml4, g, FALSE)
         IN  view[g] = IF ~w.ok \/ Entry(w) = Absent THEN Unmapped
                       ELSE [frame |-> Entry(w).to + (g % Size(w.level)), perm |-> Entry(w).perm]
BY DEF EptIInv, ViewOf, Finding, Translation

LEMMA ReadableSeen ==
  ASSUME EptIInv, pml4 # 0, NEW g \in Guest
  PROVE  LET w == walk(ept_mem, pml4, g, FALSE)
         IN  /\ (w.ok /\ Present(Entry(w))) <=> "R" \in view[g].perm
             /\ w.ok /\ Present(Entry(w)) => view[g].frame = Entry(w).to + (g % Size(w.level))
             /\ ~w.ok => view[g] = Unmapped
<1> DEFINE w == walk(ept_mem, pml4, g, FALSE)
<1>1. view[g] = IF ~w.ok \/ Entry(w) = Absent THEN Unmapped
                ELSE [frame |-> Entry(w).to + (g % Size(w.level)), perm |-> Entry(w).perm]
  BY ViewIs
<1> HIDE DEF w
<1>2. CASE ~w.ok \/ Entry(w) = Absent
  <2>1. view[g] = Unmapped /\ view[g].perm = {}
    BY <1>1, <1>2 DEF Unmapped
  <2>2. ~(w.ok /\ Present(Entry(w)))
    BY <1>2 DEF Present, Absent
  <2> QED
    BY <2>1, <2>2 DEF w
<1>3. CASE w.ok /\ Entry(w) # Absent
  <2>1. view[g].frame = Entry(w).to + (g % Size(w.level)) /\ view[g].perm = Entry(w).perm
    BY <1>1, <1>3
  <2> QED
    BY <1>3, <2>1 DEF Present, w
<1> QED
  BY <1>2, <1>3

LEMMA NotLarger ==
  ASSUME EptIInv, pml4 # 0, NEW g \in Addresses, NEW k \in 1 .. 3, ~LargerPage(g, k)
  PROVE  NoLarger(ept_mem, pml4, g, k)
<1> DEFINE w == walk(ept_mem, pml4, g, FALSE)
<1>1. TreeIn(ept_mem, pml4)
  BY DEF EptIInv
<1>2. /\ \A m \in 1 .. 3 : PageAt(ept_mem, pml4, g, m) <=> (w.ok /\ w.level = m /\ Entry(w) # Absent)
      /\ w.ok /\ w.level > 1 => Entry(w).large
  BY <1>1, WalkFinds
<1>3. ~(w.ok /\ w.level > k /\ Entry(w).large)
  BY DEF LargerPage, ept_walk
<1> HIDE DEF w
<1>4. ASSUME NEW m \in 2 .. 3, m > k, PageAt(ept_mem, pml4, g, m) PROVE FALSE
  <2>1. w.ok /\ w.level = m /\ m > 1
    BY <1>2, <1>4
  <2> QED
    BY <1>2, <1>3, <1>4, <2>1
<1> QED
  BY <1>4 DEF NoLarger

\* Addresses of a block share their entries from its level upwards.
LEMMA BlockEntries ==
  ASSUME NEW mem, NEW root, NEW a \in Addresses, NEW g \in Addresses, NEW k \in 1 .. 3, SameBlock(a, g, k),
         NEW m \in 1 .. 3, m >= k
  PROVE  /\ EntryAt(mem, root, a, m) = EntryAt(mem, root, g, m)
         /\ PageAt(mem, root, a, m) <=> PageAt(mem, root, g, m)
<1>1. SameAbove(a, g, k) /\ IndexOf(a, k) = IndexOf(g, k)
  BY BlockDigits
<1>2. IndexOf(a, m) = IndexOf(g, m)
  <2>1. CASE m = k
    BY <1>1, <2>1
  <2>2. CASE m > k
    BY <1>1, <2>2 DEF SameAbove
  <2> QED
    BY <2>1, <2>2
<1>3. k \in 1 .. 4 /\ m \in 1 .. 4
  OBVIOUS
<1>4. TableAt(mem, root, a, m) = TableAt(mem, root, g, m) /\ (Reaches(mem, root, a, m) <=> Reaches(mem, root, g, m))
  BY <1>1, <1>3, PathShared
<1> QED
  BY <1>2, <1>4 DEF EntryAt, PageAt

LEMMA BlockRange ==
  ASSUME NEW g \in Addresses, NEW k \in 1 .. 3
  PROVE  /\ Size(k) \in Promise!PageSizes
         /\ \A x \in Guest : x \in Promise!Run(Promise!First(g, Size(k)), Size(k)) <=> SameBlock(x, g, k)
<1>1. Size(k) \in Promise!PageSizes
  BY SizeIs DEF Promise!PageSizes
<1>2. Promise!Run(Promise!First(g, Size(k)), Size(k)) = Block(g, k)
  BY DEF Promise!Run, Promise!First, Block, Aligned
<1>3. ASSUME NEW x \in Guest PROVE x \in Block(g, k) <=> SameBlock(x, g, k)
  <2>1. x \in Nat /\ g \in Nat /\ k \in 1 .. 4
    BY GuestIn, AddressIn
  <2> QED
    BY <2>1, BlockIs
<1> QED
  BY <1>1, <1>2, <1>3

\* A page, or nothing of it, has been mapped.
LEMMA PageMaps ==
  ASSUME EptIInv, pml4 # 0, pml4' = pml4, view' = ViewOf(ept_mem', pml4'),
         NEW g, NEW h, NEW k \in 1 .. 3, NEW perm, NEW r,
         Aligned(g, k) \in Nat, Aligned(h, k) \in Nat, r.ok \in BOOLEAN,
         r.ok => RunDone(ept_mem, ept_mem', pml4, Aligned(g, k), Aligned(h, k), Size(k), perm),
         ~r.ok => RunDone(ept_mem, ept_mem', pml4, Aligned(g, k), Aligned(h, k), 0, perm),
         ept_call' = Call("map", g, h, Size(k), perm, Returned(r))
  PROVE  EptIInv' /\ Promise!Next
<1> DEFINE c == ept_call'
           f == Aligned(g, k)
           b == Aligned(h, k)
<1>1. /\ c.op = "map" /\ c.g = g /\ c.h = h /\ c.n = Size(k) /\ c.perm = perm
      /\ c.ret = Returned(r)
  BY CallIs
<1>2. Size(k) \in Nat /\ Size(k) \in Promise!PageSizes
  BY SizeIs DEF Promise!PageSizes
<1>3. Promise!First(g, Size(k)) = f /\ Promise!First(h, Size(k)) = b
  BY DEF Promise!First, Aligned
<1> HIDE DEF c, f, b
<1>4. f \in Nat /\ b \in Nat
  BY DEF f, b
<1>5. CASE r.ok
  <2>1. EptIInv' /\ view' = Promise!Mapped(f, b, Size(k), perm)
    BY <1>2, <1>4, <1>5, RunMaps DEF f, b
  <2>2. c.ret = 0
    BY <1>1, <1>5 DEF Returned
  <2>3. Promise!MapPage(c)
    BY <1>1, <1>2, <1>3, <2>1, <2>2 DEF Promise!MapPage
  <2> QED
    BY <2>1, <2>3 DEF Promise!Next, Promise!Does, c
<1>6. CASE ~r.ok
  <2>1. EptIInv' /\ view' = view
    <3>1. 0 \in Nat /\ RunDone(ept_mem, ept_mem', pml4, f, b, 0, perm)
      BY <1>6 DEF f, b
    <3> QED
      BY <1>4, <3>1, RunMaps
  <2>2. c.ret = -1
    BY <1>1, <1>6 DEF Returned
  <2>3. Promise!MapPage(c)
    BY <1>1, <1>2, <2>1, <2>2 DEF Promise!MapPage
  <2> QED
    BY <2>1, <2>3 DEF Promise!Next, Promise!Does, c
<1> QED
  BY <1>5, <1>6

LEMMA MapPageStep ==
  ASSUME EptIInv, NEW g \in Guest, NEW h \in HostBases, NEW perm \in Perms,
         ept_map_page(g, h, perm), view' = ViewOf(ept_mem', pml4')
  PROVE  EptIInv' /\ Promise!Next
<1> DEFINE r == map_page(ept_mem, g, h, perm)
<1>1. /\ pml4 # 0 /\ ~LargerPage(g, 1) /\ ept_mem' = r.s /\ pml4' = pml4
      /\ ept_call' = Call("map", g, h, 1, perm, Returned(r))
  BY DEF ept_map_page, NoContext
<1>2. g \in Addresses /\ g \in Nat /\ perm \in SUBSET {"R", "W", "X"} /\ TreeIn(ept_mem, pml4)
  BY <1>1, GuestIn, EptConstants DEF EptIInv
<1>3. h \in Nat /\ 1 \in 1 .. 3
  <2>1. 1 \in 1 .. 3
    OBVIOUS
  <2> QED
    BY <2>1, FramesIn
<1>4. NoLarger(ept_mem, pml4, g, 1)
  BY <1>1, <1>2, NotLarger
<1>5. /\ r.ok \in BOOLEAN
      /\ r.ok => RunDone(ept_mem, r.s, pml4, g, h, 1, perm)
      /\ ~r.ok => RunDone(ept_mem, r.s, pml4, g, h, 0, perm)
  BY <1>2, <1>3, <1>4, MapPage
<1> HIDE DEF r
<1>6. Size(1) = 1 /\ Aligned(g, 1) = g /\ Aligned(h, 1) = h
  <2>1. Size(1) = 1
    BY SizeIs
  <2>2. g % 1 = 0 /\ h % 1 = 0
    BY <1>2, <1>3
  <2> QED
    BY <1>2, <1>3, <2>1, <2>2 DEF Aligned
<1>7. /\ r.ok => RunDone(ept_mem, ept_mem', pml4, Aligned(g, 1), Aligned(h, 1), Size(1), perm)
      /\ ~r.ok => RunDone(ept_mem, ept_mem', pml4, Aligned(g, 1), Aligned(h, 1), 0, perm)
      /\ ept_call' = Call("map", g, h, Size(1), perm, Returned(r))
      /\ Aligned(g, 1) \in Nat /\ Aligned(h, 1) \in Nat
  BY <1>1, <1>2, <1>3, <1>5, <1>6
<1> QED
  BY <1>1, <1>3, <1>5, <1>7, PageMaps

LEMMA MapLargeStep ==
  ASSUME EptIInv, NEW g \in Guest, NEW h \in HostBases, NEW perm \in Perms, NEW k \in 2 .. 3,
         ept_map_page_large(k, g, h, perm), view' = ViewOf(ept_mem', pml4')
  PROVE  EptIInv' /\ Promise!Next
<1> DEFINE f == Aligned(g, k)
           r == map_large(ept_mem, k, f, h, perm)
<1>1. /\ pml4 # 0 /\ ~LargerPage(g, k) /\ ept_mem' = Tidy(r.s, pml4) /\ pml4' = pml4
      /\ Block(g, k) \subseteq Guest
      /\ ept_call' = Call("map", g, h, Size(k), perm, Returned(r))
  BY DEF ept_map_page_large, NoContext
<1>2. g \in Addresses /\ g \in Nat /\ perm \in SUBSET {"R", "W", "X"} /\ TreeIn(ept_mem, pml4)
  BY <1>1, GuestIn, EptConstants DEF EptIInv
<1>3. h \in Nat /\ Aligned(h, k) \in Nat
  <2>1. k \in 1 .. 3
    OBVIOUS
  <2> QED
    BY <2>1, FramesIn
<1>4. f \in Nat /\ f % Size(k) = 0 /\ SameBlock(f, g, k) /\ Size(k) \in Nat \ {0}
  <2>1. k \in 1 .. 4
    OBVIOUS
  <2>2. Size(k) \in Nat \ {0}
    BY <2>1, SizeIs
  <2> QED
    BY <1>2, <2>1, <2>2, AlignedIs DEF SameBlock
<1>5. Block(g, k) = f .. f + Size(k) - 1
  BY DEF Block
<1> HIDE DEF f
<1>6. f \in Addresses
  BY <1>1, <1>4, <1>5, GuestIn
<1>7. NoLarger(ept_mem, pml4, f, k)
  <2>1. NoLarger(ept_mem, pml4, g, k)
    BY <1>1, <1>2, NotLarger
  <2>2. \A m \in 1 .. 3 : m >= k => (PageAt(ept_mem, pml4, f, m) <=> PageAt(ept_mem, pml4, g, m))
    BY <1>2, <1>4, <1>6, BlockEntries
  <2> QED
    BY <2>1, <2>2 DEF NoLarger
<1>8. /\ r.ok \in BOOLEAN
      /\ r.ok => RunDone(ept_mem, r.s, pml4, f, Aligned(h, k), Size(k), perm)
      /\ ~r.ok => RunDone(ept_mem, r.s, pml4, f, Aligned(h, k), 0, perm)
  BY <1>2, <1>3, <1>4, <1>6, <1>7, MapLarge
<1> HIDE DEF r
<1>9. /\ r.ok => RunDone(ept_mem, ept_mem', pml4, f, Aligned(h, k), Size(k), perm)
      /\ ~r.ok => RunDone(ept_mem, ept_mem', pml4, f, Aligned(h, k), 0, perm)
  <2>1. Size(k) \in Nat /\ 0 \in Nat
    BY <1>4
  <2> QED
    BY <1>1, <1>3, <1>4, <1>8, <2>1, RunTidy
<1>10. k \in 1 .. 3
  OBVIOUS
<1> QED
  BY <1>1, <1>3, <1>4, <1>8, <1>9, <1>10, PageMaps DEF f

LEMMA MapRangeStep ==
  ASSUME EptIInv, NEW g \in Guest, NEW h \in HostBases, NEW perm \in Perms, NEW n \in RunLengths,
         ept_map_range(g, h, n, perm), view' = ViewOf(ept_mem', pml4')
  PROVE  EptIInv' /\ Promise!Next
<1> DEFINE r == map_range(ept_mem, g, h, n, perm)
           c == ept_call'
<1>1. /\ pml4 # 0 /\ ept_mem' = Tidy(r.s, pml4) /\ pml4' = pml4
      /\ g .. g + n - 1 \subseteq Guest
      /\ \A x \in g .. g + n - 1 : ~LargerPage(x, 1)
      /\ ept_call' = Call("range", g, h, n, perm, Returned(r))
  BY DEF ept_map_range, NoContext
<1>2. g \in Addresses /\ g \in Nat /\ n \in Nat /\ perm \in SUBSET {"R", "W", "X"} /\ TreeIn(ept_mem, pml4)
  BY <1>1, GuestIn, EptConstants DEF EptIInv
<1>3. h \in Nat
  <2>1. 1 \in 1 .. 3
    OBVIOUS
  <2> QED
    BY <2>1, FramesIn
<1>4. RunFree(ept_mem, g, n)
  <2>1. g .. g + n - 1 \subseteq Addresses
    BY <1>1, GuestIn
  <2>2. ASSUME NEW a \in g .. g + n - 1 PROVE NoLarger(ept_mem, pml4, a, 1)
    BY <1>1, <2>1, NotLarger
  <2> QED
    BY <2>1, <2>2 DEF RunFree
<1>5. PICK k \in 0 .. n : (r.ok => k = n) /\ RunDone(ept_mem, r.s, pml4, g, h, k, perm)
  BY <1>2, <1>3, <1>4, MapRange
<1>6. /\ c.op = "range" /\ c.g = g /\ c.h = h /\ c.n = n /\ c.perm = perm
      /\ c.ret = Returned(r)
  BY <1>1, CallIs
<1> HIDE DEF r, c
<1>7. k \in Nat
  BY <1>2
<1>8. RunDone(ept_mem, ept_mem', pml4, g, h, k, perm)
  BY <1>1, <1>2, <1>3, <1>5, <1>7, RunTidy
<1>9. EptIInv' /\ view' = Promise!Mapped(g, h, k, perm)
  BY <1>1, <1>2, <1>3, <1>7, <1>8, RunMaps
<1>10. c.ret = 0 => k = n
  BY <1>5, <1>6 DEF Returned
<1>11. Promise!MapRange(c)
  BY <1>5, <1>6, <1>9, <1>10 DEF Promise!MapRange
<1> QED
  BY <1>9, <1>11 DEF Promise!Next, Promise!Does, c

\* The page a walk found, seen in the map: its parts follow each other.
LEMMA PageSeen ==
  ASSUME EptIInv, pml4 # 0, NEW g \in Guest, NEW w, w = walk(ept_mem, pml4, g, FALSE),
         w.ok, Entry(w) # Absent
  PROVE  /\ w.level \in 1 .. 3
         /\ \A x \in Guest : SameBlock(x, g, w.level) =>
              view[x] = [frame |-> Entry(w).to + (x % Size(w.level)), perm |-> Entry(w).perm]
         /\ Promise!PageAround(g, Size(w.level))
<1> DEFINE k == w.level
           old == Entry(w)
<1>1. g \in Addresses /\ TreeIn(ept_mem, pml4)
  BY GuestIn DEF EptIInv
<1>2. /\ k \in 1 .. 3 /\ old = EntryAt(ept_mem, pml4, g, k)
      /\ PageAt(ept_mem, pml4, g, k) /\ Walking(w, ept_mem, pml4, g)
  BY <1>1, WalkFinds
<1>3. old \in TabEntries /\ old.to \in Nat
  <2>1. old \in TabEntries
    BY <1>2, EntryIs
  <2> QED
    BY <2>1 DEF TabEntries
<1> HIDE DEF k, old
<1>4. ASSUME NEW x \in Guest, SameBlock(x, g, k)
      PROVE  view[x] = [frame |-> old.to + (x % Size(k)), perm |-> old.perm]
  <2>1. x \in Addresses
    BY GuestIn
  <2>2. EntryAt(ept_mem, pml4, x, k) = old /\ PageAt(ept_mem, pml4, x, k)
    BY <1>1, <1>2, <1>4, <2>1, BlockEntries
  <2>3. view[x] = Translation(ept_mem, pml4, x)
    BY DEF EptIInv, ViewOf, Finding
  <2> QED
    BY <1>1, <1>2, <2>1, <2>2, <2>3, TranslationIs
<1>5. SameBlock(g, g, k)
  BY DEF SameBlock
<1>6. ASSUME NEW x \in Guest, SameBlock(x, g, k)
      PROVE  view[x].perm = view[g].perm /\ view[x].frame - x = view[g].frame - g
  <2>1. /\ view[x].perm = old.perm /\ view[x].frame = old.to + (x % Size(k))
        /\ view[g].perm = old.perm /\ view[g].frame = old.to + (g % Size(k))
    <3>1. /\ view[x] = [frame |-> old.to + (x % Size(k)), perm |-> old.perm]
          /\ view[g] = [frame |-> old.to + (g % Size(k)), perm |-> old.perm]
      BY <1>4, <1>5, <1>6
    <3> QED
      BY <3>1
  <2>2. Size(k) \in Nat \ {0} /\ x \in Nat /\ g \in Nat
    BY <1>2, SizeIs, GuestIn
  <2>3. x - (x % Size(k)) = g - (g % Size(k))
    <3>1. k \in 1 .. 4 /\ x \div Size(k) = g \div Size(k)
      BY <1>2, <1>6 DEF SameBlock
    <3>2. Aligned(x, k) = Aligned(g, k)
      BY <2>2, <3>1, AlignedIs
    <3> QED
      BY <3>2 DEF Aligned
  <2> DEFINE i == x % Size(k)
             j == g % Size(k)
  <2>4. i \in Nat /\ j \in Nat
    BY <2>2
  <2>5. x - i = g - j
    BY <2>3
  <2> HIDE DEF i, j
  <2>6. (old.to + i) - x = (old.to + j) - g
    BY <1>3, <2>2, <2>4, <2>5
  <2> QED
    BY <2>1, <2>6 DEF i, j
<1>7. \A x \in Guest : x \in Promise!Run(Promise!First(g, Size(k)), Size(k)) <=> SameBlock(x, g, k)
  BY <1>1, <1>2, BlockRange
<1>8. Promise!PageAround(g, Size(k))
  BY <1>6, <1>7 DEF Promise!PageAround
<1> QED
  BY <1>2, <1>4, <1>8 DEF k, old

LEMMA UnmapStep ==
  ASSUME EptIInv, NEW g \in Guest, ept_unmap_page(g), view' = ViewOf(ept_mem', pml4')
  PROVE  EptIInv' /\ Promise!Next
<1> DEFINE w == walk(ept_mem, pml4, g, FALSE)
           k == w.level
           c == ept_call'
           found == w.ok /\ Present(Entry(w))
<1>1. /\ pml4 # 0 /\ pml4' = pml4 /\ ept_mem' = IF found THEN Store(w, Absent) ELSE ept_mem
      /\ c = Call("unmap", g, 0, 0, {}, IF found THEN 0 ELSE -1)
  BY DEF ept_unmap_page, NoContext, ept_walk
<1>2. g \in Addresses /\ TreeIn(ept_mem, pml4)
  BY <1>1, GuestIn DEF EptIInv
<1>3. c.op = "unmap" /\ c.g = g /\ c.ret = IF found THEN 0 ELSE -1
  <2> HIDE DEF c, found
  <2> QED
    BY <1>1 DEF Call
<1>4. found <=> "R" \in view[g].perm
  BY <1>1, ReadableSeen
<1> HIDE DEF w, c
<1>5. CASE ~found
  <2>1. EptIInv' /\ view' = view
    BY <1>1, <1>5 DEF EptIInv
  <2>2. c.ret = -1 /\ "R" \notin view[g].perm
    BY <1>3, <1>4, <1>5
  <2>3. Promise!UnmapPage(c)
    BY <1>3, <2>1, <2>2 DEF Promise!UnmapPage
  <2> QED
    BY <2>1, <2>3 DEF Promise!Next, Promise!Does, c
<1>6. CASE found
  <2>1. w.ok /\ Entry(w) # Absent
    BY <1>6 DEF Present, Absent
  <2>2. k \in 1 .. 3 /\ Walking(w, ept_mem, pml4, g)
    BY <1>2, <2>1, WalkFinds DEF w
  <2>3. Absent \in TabEntries /\ ~IsTable(Absent) /\ ~IsPage(Absent, k)
    BY <2>2 DEF Absent, Present, TabEntries, IsTable, IsPage
  <2>4. /\ TreeIn(ept_mem', pml4)
        /\ \A a \in Addresses :
             /\ SameBlock(a, g, k) => Translation(ept_mem', pml4, a) = Unmapped
             /\ ~SameBlock(a, g, k) => Translation(ept_mem', pml4, a) = Translation(ept_mem, pml4, a)
    BY <1>1, <1>2, <1>6, <2>2, <2>3, StoreView
  <2>5. EptIInv'
    BY <1>1, <2>4 DEF EptIInv, TreeIn
  <2>6. /\ view' = [x \in Guest |-> Translation(ept_mem', pml4, x)]
        /\ \A x \in Guest : view[x] = Translation(ept_mem, pml4, x)
    BY <1>1 DEF EptIInv, ViewOf, Finding
  <2> DEFINE R == Promise!Run(Promise!First(g, Size(k)), Size(k))
  <2>7. Size(k) \in Promise!PageSizes /\ \A x \in Guest : x \in R <=> SameBlock(x, g, k)
    BY <1>2, <2>2, BlockRange
  <2>8. Promise!PageAround(g, Size(k))
    BY <1>1, <2>1, PageSeen DEF w
  <2> HIDE DEF k, R
  <2>9. view' = [x \in Guest |-> IF x \in R THEN Unmapped ELSE view[x]]
    <3>1. ASSUME NEW x \in Guest
          PROVE  Translation(ept_mem', pml4, x) = IF x \in R THEN Unmapped ELSE view[x]
      BY <2>4, <2>6, <2>7, GuestIn
    <3> QED
      BY <2>6, <3>1
  <2>10. c.ret = 0 /\ "R" \in view[g].perm
    BY <1>3, <1>4, <1>6
  <2>11. Promise!UnmapPage(c)
    BY <1>3, <2>7, <2>8, <2>9, <2>10 DEF Promise!UnmapPage, R
  <2> QED
    BY <2>5, <2>11 DEF Promise!Next, Promise!Does, c
<1> QED
  BY <1>5, <1>6

LEMMA ProtectStep ==
  ASSUME EptIInv, NEW g \in Guest, NEW perm \in Perms, ept_set_permissions(g, perm),
         view' = ViewOf(ept_mem', pml4')
  PROVE  EptIInv' /\ Promise!Next
<1> DEFINE w == walk(ept_mem, pml4, g, FALSE)
           k == w.level
           old == Entry(w)
           e == [old EXCEPT !.perm = perm]
           c == ept_call'
<1>1. /\ pml4 # 0 /\ pml4' = pml4 /\ ept_mem' = (IF w.ok THEN Store(w, e) ELSE ept_mem)
      /\ w.ok => old # Absent
      /\ c = Call("protect", g, 0, 0, perm, Returned(w))
  BY DEF ept_set_permissions, NoContext, ept_walk
<1>2. g \in Addresses /\ TreeIn(ept_mem, pml4) /\ perm \in SUBSET {"R", "W", "X"}
  BY <1>1, GuestIn, EptConstants DEF EptIInv
<1>3. c.op = "protect" /\ c.g = g /\ c.perm = perm /\ c.ret = Returned(w)
  <2> HIDE DEF c, w
  <2> QED
    BY <1>1 DEF Call
<1> HIDE DEF c
<1>4. CASE ~w.ok
  <2>1. EptIInv' /\ view' = view
    BY <1>1, <1>4 DEF EptIInv
  <2>2. c.ret = -1
    BY <1>3, <1>4 DEF Returned
  <2>3. view[g] = Unmapped
    BY <1>1, <1>4, ReadableSeen
  <2>4. Promise!Protect(c)
    BY <1>3, <2>1, <2>2, <2>3 DEF Promise!Protect
  <2> QED
    BY <2>1, <2>4 DEF Promise!Next, Promise!Does, c
<1>5. CASE w.ok
  <2>1. /\ k \in 1 .. 3 /\ Walking(w, ept_mem, pml4, g) /\ old = EntryAt(ept_mem, pml4, g, k)
        /\ PageAt(ept_mem, pml4, g, k) /\ (k > 1 => old.large)
    BY <1>1, <1>2, <1>5, WalkFinds
  <2>2. old \in TabEntries
    BY <1>2, <2>1, EntryIs
  <2>3. /\ Promise!PageAround(g, Size(k))
        /\ \A x \in Guest : SameBlock(x, g, k) =>
             view[x] = [frame |-> old.to + (x % Size(k)), perm |-> old.perm]
    BY <1>1, <1>5, PageSeen
  <2> HIDE DEF w
  <2>4. e \in TabEntries /\ e.to = old.to /\ e.large = old.large /\ e.perm = perm /\ e.to \in Nat
    BY <1>2, <2>2 DEF TabEntries
  <2>5. k >= 2 => e.large /\ ~IsTable(e) /\ IsPage(e, k)
    BY <2>1, <2>4 DEF IsTable, IsPage
  <2>6. /\ TreeIn(ept_mem', pml4)
        /\ \A a \in Addresses :
             /\ SameBlock(a, g, k) =>
                  Translation(ept_mem', pml4, a) = IF IsPage(e, k) THEN PageOf(e, k, a) ELSE Unmapped
             /\ ~SameBlock(a, g, k) => Translation(ept_mem', pml4, a) = Translation(ept_mem, pml4, a)
    <3> HIDE DEF e
    <3>1. ept_mem' = Store(w, e)
      BY <1>1, <1>5
    <3> QED
      BY <1>2, <1>5, <2>1, <2>4, <2>5, <3>1, StoreView
  <2>7. EptIInv'
    BY <1>1, <2>6 DEF EptIInv, TreeIn
  <2>8. /\ view' = [x \in Guest |-> Translation(ept_mem', pml4, x)]
        /\ \A x \in Guest : view[x] = Translation(ept_mem, pml4, x)
    BY <1>1 DEF EptIInv, ViewOf, Finding
  <2> DEFINE R == Promise!Run(Promise!First(g, Size(k)), Size(k))
  <2>9. Size(k) \in Promise!PageSizes /\ \A x \in Guest : x \in R <=> SameBlock(x, g, k)
    BY <1>2, <2>1, BlockRange
  <2> HIDE DEF R, k, e
  <2>10. ASSUME NEW x \in Guest, SameBlock(x, g, k)
         PROVE  Translation(ept_mem', pml4, x) = [view[x] EXCEPT !.perm = perm]
    <3>1. x \in Addresses
      BY GuestIn
    <3>2. view[x] = [frame |-> old.to + (x % Size(k)), perm |-> old.perm]
      BY <2>3, <2>10
    <3>3. [view[x] EXCEPT !.perm = perm] = [frame |-> old.to + (x % Size(k)), perm |-> perm]
      BY <3>2
    <3>4. CASE IsPage(e, k)
      <4>1. Translation(ept_mem', pml4, x) = [frame |-> e.to + (x % Size(k)), perm |-> e.perm]
        BY <2>6, <2>10, <3>1, <3>4 DEF PageOf
      <4> QED
        BY <2>4, <3>3, <4>1
    <3>5. CASE ~IsPage(e, k)
      <4>1. k = 1 /\ e = Absent
        BY <2>1, <2>5, <3>5 DEF IsPage
      <4>2. Translation(ept_mem', pml4, x) = Unmapped
        BY <2>6, <2>10, <3>1, <3>5
      <4>3. old.to = 0 /\ perm = {}
        BY <2>4, <4>1 DEF Absent
      <4>4. old.to + (x % Size(k)) = 0
        <5>1. x \in Nat /\ Size(k) = 1
          BY <3>1, <4>1, AddressIn, SizeIs
        <5> QED
          BY <4>3, <5>1
      <4> QED
        BY <3>3, <4>2, <4>3, <4>4 DEF Unmapped
    <3> QED
      BY <3>4, <3>5
  <2>11. view' = [x \in Guest |-> IF x \in R THEN [view[x] EXCEPT !.perm = perm] ELSE view[x]]
    <3>1. ASSUME NEW x \in Guest
          PROVE  Translation(ept_mem', pml4, x) = IF x \in R THEN [view[x] EXCEPT !.perm = perm] ELSE view[x]
      BY <2>6, <2>8, <2>9, <2>10, GuestIn
    <3> QED
      BY <2>8, <3>1
  <2>12. c.ret = 0
    BY <1>3, <1>5 DEF Returned
  <2>13. Promise!Protect(c)
    BY <1>3, <2>3, <2>9, <2>11, <2>12 DEF Promise!Protect, R
  <2> QED
    BY <2>7, <2>13 DEF Promise!Next, Promise!Does, c
<1> QED
  BY <1>4, <1>5

\* A question is answered from the map.
LEMMA GetStep ==
  ASSUME EptIInv, NEW g \in Guest, ept_get_host_phys(g), view' = ViewOf(ept_mem', pml4')
  PROVE  EptIInv' /\ Promise!Next
<1> DEFINE w == walk(ept_mem, pml4, g, FALSE)
           c == ept_call'
           found == w.ok /\ Present(Entry(w))
<1>1. /\ pml4 # 0 /\ pml4' = pml4 /\ ept_mem' = ept_mem
      /\ c = Call("get", g, 0, 0, {}, IF found THEN Entry(w).to + (g % Size(w.level)) ELSE 0)
  BY DEF ept_get_host_phys, NoContext, ept_walk
<1>2. c.op = "get" /\ c.g = g /\ c.ret = IF found THEN Entry(w).to + (g % Size(w.level)) ELSE 0
  <2> HIDE DEF c, w, found
  <2> QED
    BY <1>1 DEF Call
<1>3. (found <=> "R" \in view[g].perm) /\ (found => view[g].frame = Entry(w).to + (g % Size(w.level)))
  BY <1>1, ReadableSeen
<1>4. EptIInv' /\ view' = view
  BY <1>1 DEF EptIInv
<1> HIDE DEF w, c
<1>5. Promise!GetHost(c)
  BY <1>2, <1>3, <1>4 DEF Promise!GetHost
<1> QED
  BY <1>4, <1>5 DEF Promise!Next, Promise!Does, c

LEMMA CreateStep ==
  ASSUME EptIInv, ept_create, view' = ViewOf(ept_mem', pml4')
  PROVE  EptIInv' /\ Promise!Next
<1> DEFINE p == alloc_table(ept_mem)
           q == WithTable(ept_mem, p)
           lvl == [x \in TablePages |-> IF x = p THEN 4 ELSE 0]
<1>1. pml4' = p /\ ept_mem' = q /\ ept_mem.free # {} /\ ept_mem \in TabMem
  BY DEF ept_create, EptIInv
<1>2. p \in ept_mem.free
  BY <1>1 DEF alloc_table
<1>3. p \in TablePages /\ p # 0
  BY <1>1, <1>2, PageTableConstants DEF TabMem
<1> HIDE DEF p
<1>4. BlankTable \in [TabIndex -> TabEntries] /\ \A i \in TabIndex : BlankTable[i] = Absent
  BY DEF BlankTable, Absent, TabEntries
<1>5. q \in TabMem /\ q.free = ept_mem.free \ {p} /\ q.tab[p] = BlankTable
  BY <1>1, <1>3, <1>4 DEF WithTable, TabMem
<1> HIDE DEF q
<1>6. ~IsTable(Absent) /\ ~Absent.large
  BY DEF IsTable, Present, Absent
<1>7. lvl \in [TablePages -> 0 .. 4] /\ lvl[p] = 4 /\ \A x \in TablePages : x # p => lvl[x] = 0
  BY <1>3
<1> HIDE DEF lvl
<1>8. \A x \in TablePages, i \in TabIndex : lvl[x] >= 2 => q.tab[x][i] = Absent
  BY <1>4, <1>5, <1>7
<1>9. \A x \in q.free : lvl[x] = 0
  BY <1>5, <1>7 DEF TabMem
<1>10. Graded(q, p, lvl)
  <2>1. \A x \in TablePages, i \in TabIndex : lvl[x] >= 2 => ~IsTable(q.tab[x][i])
    BY <1>6, <1>8
  <2>2. \A x \in TablePages, i \in TabIndex : lvl[x] = 4 => ~q.tab[x][i].large
    BY <1>6, <1>8
  <2> QED
    BY <1>3, <1>7, <1>9, <2>1, <2>2 DEF Graded
<1>11. TreeIn(q, p)
  BY <1>5, <1>10 DEF TreeIn
<1>12. EptIInv'
  BY <1>1, <1>3, <1>5, <1>11 DEF EptIInv
<1>13. ASSUME NEW x \in Guest PROVE Translation(q, p, x) = Unmapped
  <2>1. x \in Addresses /\ x \in Nat
    BY GuestIn
  <2>2. EntryAt(q, p, x, 4) = Absent
    <3>1. IndexOf(x, 4) \in TabIndex
      BY <2>1, IndexIn
    <3> QED
      BY <1>4, <1>5, <3>1, PathTop DEF EntryAt
  <2>3. \A m \in 1 .. 3 : ~PageAt(q, p, x, m)
    BY <1>6, <2>2 DEF PageAt, Reaches
  <2> QED
    BY <1>11, <2>1, <2>3, TranslationIs
<1>14. Promise!Clear(ept_call')
  <2>1. view' = [x \in Guest |-> Translation(q, p, x)]
    BY <1>1, <1>3 DEF ViewOf, Finding
  <2>2. ept_call'.op = "create"
    BY CallIs DEF ept_create
  <2> QED
    BY <1>13, <2>1, <2>2 DEF Promise!Clear
<1> QED
  BY <1>12, <1>14 DEF Promise!Next, Promise!Does

LEMMA DestroyStep ==
  ASSUME EptIInv, ept_destroy, view' = ViewOf(ept_mem', pml4')
  PROVE  EptIInv' /\ Promise!Next
<1> DEFINE mem == [ept_mem EXCEPT !.free = @ \cup {pml4}]
<1>1. pml4 # 0 /\ pml4' = 0 /\ ept_mem' = Tidy(mem, 0) /\ ept_mem \in TabMem
  BY DEF ept_destroy, EptIInv, NoContext
<1>2. mem \in TabMem
  BY <1>1 DEF TabMem, EptIInv
<1> HIDE DEF mem
<1>3. BlankTable \in [TabIndex -> TabEntries]
  BY DEF BlankTable, Absent, TabEntries
<1>4. Tidy(mem, 0) \in TabMem
  <2>1. Tidy(mem, 0) = [mem EXCEPT !.tab = [p \in TablePages |-> BlankTable]]
    BY DEF Tidy
  <2> QED
    BY <1>2, <1>3, <2>1 DEF TabMem
<1>5. EptIInv'
  BY <1>1, <1>4 DEF EptIInv
<1>6. Promise!Clear(ept_call')
  <2>1. ept_call'.op = "destroy"
    BY CallIs DEF ept_destroy
  <2> QED
    BY <1>1, <2>1 DEF ViewOf, Finding, Promise!Clear
<1> QED
  BY <1>5, <1>6 DEF Promise!Next, Promise!Does

LEMMA EptStarts ==
  ASSUME EptInit
  PROVE  EptIInv /\ Promise!Init
<1>1. BlankTable \in [TabIndex -> TabEntries]
  BY DEF BlankTable, Absent, TabEntries
<1>2. ept_mem \in TabMem
  BY <1>1, EptConstants DEF EptInit, TabMem
<1> QED
  BY <1>2 DEF EptInit, EptIInv, ViewOf, Finding, Promise!Init

LEMMA EptStep ==
  ASSUME EptIInv, [EptNext]_ept_vars
  PROVE  EptIInv' /\ (Promise!Next \/ UNCHANGED <<view, ept_call>>)
<1>1. CASE UNCHANGED ept_vars
  BY <1>1 DEF ept_vars, EptIInv
<1>2. CASE EptNext
  <2>1. view' = ViewOf(ept_mem', pml4') /\ Operation
    BY <1>2 DEF EptNext, ViewOf
  <2>2. CASE ept_create
    BY <2>1, <2>2, CreateStep
  <2>3. CASE ept_destroy
    BY <2>1, <2>3, DestroyStep
  <2>4. ASSUME NEW g \in Guest, NEW h \in HostBases, NEW perm \in Perms, ept_map_page(g, h, perm)
        PROVE  EptIInv' /\ (Promise!Next \/ UNCHANGED <<view, ept_call>>)
    BY <2>1, <2>4, MapPageStep
  <2>5. ASSUME NEW g \in Guest, NEW h \in HostBases, NEW perm \in Perms, NEW k \in 2 .. 3,
               ept_map_page_large(k, g, h, perm)
        PROVE  EptIInv' /\ (Promise!Next \/ UNCHANGED <<view, ept_call>>)
    BY <2>1, <2>5, MapLargeStep
  <2>6. ASSUME NEW g \in Guest, NEW h \in HostBases, NEW perm \in Perms, NEW n \in RunLengths,
               ept_map_range(g, h, n, perm)
        PROVE  EptIInv' /\ (Promise!Next \/ UNCHANGED <<view, ept_call>>)
    BY <2>1, <2>6, MapRangeStep
  <2>7. ASSUME NEW g \in Guest, ept_unmap_page(g)
        PROVE  EptIInv' /\ (Promise!Next \/ UNCHANGED <<view, ept_call>>)
    BY <2>1, <2>7, UnmapStep
  <2>8. ASSUME NEW g \in Guest, NEW perm \in Perms, ept_set_permissions(g, perm)
        PROVE  EptIInv' /\ (Promise!Next \/ UNCHANGED <<view, ept_call>>)
    BY <2>1, <2>8, ProtectStep
  <2>10. ASSUME NEW g \in Guest, ept_get_host_phys(g)
         PROVE  EptIInv' /\ (Promise!Next \/ UNCHANGED <<view, ept_call>>)
    BY <2>1, <2>10, GetStep
  <2>9. 2 \in 2 .. 3 /\ 3 \in 2 .. 3
    OBVIOUS
  <2> QED
    BY <2>1, <2>2, <2>3, <2>4, <2>5, <2>6, <2>7, <2>8, <2>9, <2>10
       DEF Operation, ept_map_page_2m, ept_map_page_1g
<1> QED
  BY <1>1, <1>2


-----------------------------------------------------------------------------
(* Ept: the tables form a tree.  The tables of a level are ranked alike, so  *)
(* those of two levels are different tables, and each is counted once.      *)

Rank(lvl, k) == {p \in TablePages : lvl[p] = k}
TablesUnder(mem, S, k) == UNION {Children(mem, t, k) : t \in S}

SlotStep(e, t, n) == n + Cardinality(TableSlots(e.s, t, e.level))
Slots == INSTANCE ListLemmas WITH step <- SlotStep, pick <- AnyOf

LEMMA RankFinite ==
  ASSUME NEW lvl, NEW k, NEW S \in SUBSET Rank(lvl, k)
  PROVE  IsFiniteSet(S) /\ Cardinality(S) \in Nat
<1>1. S \in SUBSET TablePages
  BY DEF Rank
<1> QED
  BY <1>1, PageTableConstants, FS_Subset, FS_CardinalityType

LEMMA SlotsAre ==
  ASSUME NEW mem, NEW t, NEW k \in 2 .. 4
  PROVE  /\ TableSlots(mem, t, k) = {i \in TabIndex : IsTable(mem.tab[t][i])}
         /\ IsFiniteSet(TableSlots(mem, t, k)) /\ Cardinality(TableSlots(mem, t, k)) \in Nat
<1>1. TableSlots(mem, t, k) = {i \in TabIndex : IsTable(mem.tab[t][i])}
  BY DEF TableSlots, IsTable
<1>2. IsFiniteSet(TabIndex)
  <2>1. 0 \in Int /\ ENTRIES - 1 \in Int
    BY PageTableConstants
  <2> QED
    BY <2>1, FS_Interval DEF TabIndex
<1> QED
  BY <1>1, <1>2, FS_Subset, FS_CardinalityType

LEMMA ChildrenAre ==
  ASSUME NEW mem, NEW root, NEW lvl, Graded(mem, root, lvl), NEW k \in 2 .. 4, NEW t \in Rank(lvl, k)
  PROVE  /\ Children(mem, t, k) \subseteq Rank(lvl, k - 1)
         /\ IsFiniteSet(Children(mem, t, k))
         /\ Cardinality(Children(mem, t, k)) = Cardinality(TableSlots(mem, t, k))
<1> DEFINE T == TableSlots(mem, t, k)
           C == Children(mem, t, k)
           f == [i \in T |-> mem.tab[t][i].to]
<1>1. T = {i \in TabIndex : IsTable(mem.tab[t][i])} /\ IsFiniteSet(T)
  BY SlotsAre
<1>2. t \in TablePages /\ lvl[t] = k /\ lvl[t] >= 2
  BY DEF Rank
<1>3. C = {mem.tab[t][i].to : i \in T}
  BY DEF Children
<1> HIDE DEF T, C
<1>4. \A i \in T : mem.tab[t][i].to \in Rank(lvl, k - 1)
  BY <1>1, <1>2 DEF Graded, Rank
<1>5. \A i, j \in T : mem.tab[t][i].to = mem.tab[t][j].to => i = j
  BY <1>1, <1>2 DEF Graded
<1>6. f \in Bijection(T, C)
  <2>1. f \in [T -> C] /\ \A y \in C : \E i \in T : f[i] = y
    BY <1>3
  <2>2. \A i, j \in T : f[i] = f[j] => i = j
    BY <1>5
  <2> QED
    BY <2>1, <2>2 DEF Bijection, Injection, Surjection, IsInjective
<1>7. ExistsBijection(T, C)
  BY <1>6 DEF ExistsBijection
<1>8. IsFiniteSet(C) /\ Cardinality(C) = Cardinality(T)
  BY <1>1, <1>7, FS_Bijection
<1>9. C \subseteq Rank(lvl, k - 1)
  BY <1>3, <1>4
<1> QED
  BY <1>8, <1>9 DEF T, C

LEMMA ChildrenApart ==
  ASSUME NEW mem, NEW root, NEW lvl, Graded(mem, root, lvl), NEW k \in 2 .. 4,
         NEW t \in Rank(lvl, k), NEW u \in Rank(lvl, k), t # u
  PROVE  Children(mem, t, k) \cap Children(mem, u, k) = {}
<1>1. SUFFICES ASSUME NEW x \in Children(mem, t, k), x \in Children(mem, u, k) PROVE FALSE
  OBVIOUS
<1>2. PICK i \in TableSlots(mem, t, k) : x = mem.tab[t][i].to
  BY DEF Children
<1>3. PICK j \in TableSlots(mem, u, k) : x = mem.tab[u][j].to
  BY <1>1 DEF Children
<1>4. /\ i \in TabIndex /\ IsTable(mem.tab[t][i])
      /\ j \in TabIndex /\ IsTable(mem.tab[u][j])
  BY <1>2, <1>3, SlotsAre
<1>5. t \in TablePages /\ u \in TablePages /\ lvl[t] >= 2 /\ lvl[u] >= 2
  BY DEF Rank
<1> QED
  BY <1>2, <1>3, <1>4, <1>5 DEF Graded

LEMMA BelowAre ==
  ASSUME NEW mem, NEW root, NEW lvl, Graded(mem, root, lvl), NEW k \in 2 .. 4, NEW S \in SUBSET Rank(lvl, k)
  PROVE  /\ TablesUnder(mem, S, k) \in SUBSET Rank(lvl, k - 1)
         /\ IsFiniteSet(TablesUnder(mem, S, k)) /\ Cardinality(TablesUnder(mem, S, k)) \in Nat
<1>1. TablesUnder(mem, S, k) \in SUBSET Rank(lvl, k - 1)
  BY ChildrenAre DEF TablesUnder
<1> QED
  BY <1>1, RankFinite

LEMMA ApartAdd ==
  ASSUME NEW S, NEW T, IsFiniteSet(S), IsFiniteSet(T), S \cap T = {}
  PROVE  IsFiniteSet(S \cup T) /\ Cardinality(S \cup T) = Cardinality(S) + Cardinality(T)
<1>1. Cardinality(S \cap T) = 0
  BY FS_EmptySet
<1>2. Cardinality(S) \in Nat /\ Cardinality(T) \in Nat
  BY FS_CardinalityType
<1>3. /\ IsFiniteSet(S \cup T)
      /\ Cardinality(S \cup T) = Cardinality(S) + Cardinality(T) - Cardinality(S \cap T)
  BY FS_Union
<1> QED
  BY <1>1, <1>2, <1>3

LEMMA BelowOneMore ==
  ASSUME NEW mem, NEW root, NEW lvl, Graded(mem, root, lvl), NEW k \in 2 .. 4,
         NEW S \in SUBSET Rank(lvl, k), NEW t \in Rank(lvl, k), t \notin S
  PROVE  Cardinality(TablesUnder(mem, S \cup {t}, k))
           = Cardinality(TablesUnder(mem, S, k)) + Cardinality(TableSlots(mem, t, k))
<1> DEFINE B == TablesUnder(mem, S, k)
           C == Children(mem, t, k)
<1>1. TablesUnder(mem, S \cup {t}, k) = B \cup C
  BY DEF TablesUnder
<1>2. B \cap C = {}
  BY ChildrenApart DEF TablesUnder
<1>3. IsFiniteSet(B) /\ Cardinality(B) \in Nat
  BY BelowAre
<1>4. IsFiniteSet(C) /\ Cardinality(C) = Cardinality(TableSlots(mem, t, k)) /\ Cardinality(C) \in Nat
  BY ChildrenAre, SlotsAre
<1> HIDE DEF B, C
<1>5. Cardinality(B \cup C) = Cardinality(B) + Cardinality(C)
  BY <1>2, <1>3, <1>4, ApartAdd
<1> QED
  BY <1>1, <1>4, <1>5 DEF B

LEMMA SlotsBelow ==
  ASSUME NEW mem, NEW root, NEW lvl, Graded(mem, root, lvl), NEW k \in 2 .. 4, NEW S \in SUBSET Rank(lvl, k)
  PROVE  FoldSet(LAMBDA t, n : n + Cardinality(TableSlots(mem, t, k)), 0, S) = Cardinality(TablesUnder(mem, S, k))
<1> DEFINE e == [s |-> mem, level |-> k]
           I == [v \in SUBSET S |-> {Cardinality(TablesUnder(mem, v, k))}]
<1>1. FoldSet(LAMBDA t, n : n + Cardinality(TableSlots(mem, t, k)), 0, S) = Slots!Fold(e, 0, S)
  BY DEF FoldSet, MapThenFoldSet, Slots!Fold, SlotStep, AnyOf
<1>2. Slots!IsFiniteSet(S)
  <2>1. IsFiniteSet(S)
    BY RankFinite
  <2> QED
    BY <2>1 DEF IsFiniteSet, Slots!IsFiniteSet
<1>3. Slots!Picks(S)
  BY DEF Slots!Picks, AnyOf
<1>4. 0 \in I[{}]
  <2>1. TablesUnder(mem, {}, k) = {}
    BY DEF TablesUnder
  <2>2. Cardinality({}) = 0
    BY FS_EmptySet
  <2> QED
    BY <2>1, <2>2
<1>5. ASSUME NEW v \in SUBSET S, v # {}, NEW c \in I[v \ {AnyOf(v)}]
      PROVE  SlotStep(e, AnyOf(v), c) \in I[v]
  <2> DEFINE x == AnyOf(v)
             t == v \ {x}
  <2>1. x \in v
    BY <1>5 DEF AnyOf
  <2>2. t \in SUBSET S /\ v = t \cup {x} /\ x \notin t
    BY <2>1
  <2>3. c = Cardinality(TablesUnder(mem, t, k))
    BY <1>5, <2>2
  <2> HIDE DEF x, t
  <2>4. Cardinality(TablesUnder(mem, v, k))
          = Cardinality(TablesUnder(mem, t, k)) + Cardinality(TableSlots(mem, x, k))
    BY <2>1, <2>2, BelowOneMore
  <2>5. SlotStep(e, x, c) = c + Cardinality(TableSlots(mem, x, k))
    BY DEF SlotStep
  <2>6. SlotStep(e, x, c) = Cardinality(TablesUnder(mem, v, k))
    BY <2>3, <2>4, <2>5
  <2> QED
    BY <2>6 DEF x
<1>6. I[S] = {Cardinality(TablesUnder(mem, S, k))}
  OBVIOUS
<1> HIDE DEF I, e
<1>7. Slots!Fold(e, 0, S) \in I[S]
  BY <1>2, <1>3, <1>4, <1>5, Slots!FoldInduction
<1> QED
  BY <1>1, <1>6, <1>7

LEMMA TreeIsSound ==
  ASSUME NEW mem, NEW root, TreeIn(mem, root)
  PROVE  /\ IsTree(mem, root, TabIndex)
         /\ ({root} \cup Reachable(mem, root, TabIndex)) \cap mem.free = {}
         /\ root \notin Reachable(mem, root, TabIndex)
<1>1. PICK lvl : Graded(mem, root, lvl)
  BY DEF TreeIn
<1> DEFINE l3 == Children(mem, root, 4)
           l2 == TablesUnder(mem, l3, 3)
           l1 == TablesUnder(mem, l2, 2)
<1>2. TablesBelow(mem, root, TabIndex) = <<l3, l2, l1>> /\ Reachable(mem, root, TabIndex) = l3 \cup l2 \cup l1
  BY BelowIs DEF TablesUnder
<1>3. root \in Rank(lvl, 4) /\ 4 - 1 = 3 /\ 3 - 1 = 2 /\ 2 - 1 = 1
  BY <1>1 DEF Graded, Rank
<1>4. l3 \in SUBSET Rank(lvl, 3) /\ Cardinality(l3) = Cardinality(TableSlots(mem, root, 4))
  <2>1. 4 \in 2 .. 4
    OBVIOUS
  <2> QED
    BY <1>1, <1>3, <2>1, ChildrenAre
<1>5. l2 \in SUBSET Rank(lvl, 2)
  <2>1. 3 \in 2 .. 4
    OBVIOUS
  <2> QED
    BY <1>1, <1>3, <1>4, <2>1, BelowAre
<1>6. l1 \in SUBSET Rank(lvl, 1)
  <2>1. 2 \in 2 .. 4
    OBVIOUS
  <2> QED
    BY <1>1, <1>3, <1>5, <2>1, BelowAre
<1>7. FoldSet(LAMBDA t, n : n + Cardinality(TableSlots(mem, t, 3)), 0, l3) = Cardinality(l2)
  <2>1. 3 \in 2 .. 4
    OBVIOUS
  <2> QED
    BY <1>1, <1>4, <2>1, SlotsBelow
<1>8. FoldSet(LAMBDA t, n : n + Cardinality(TableSlots(mem, t, 2)), 0, l2) = Cardinality(l1)
  <2>1. 2 \in 2 .. 4
    OBVIOUS
  <2> QED
    BY <1>1, <1>5, <2>1, SlotsBelow
<1> HIDE DEF l3, l2, l1
<1>9. /\ \A p \in l3 : lvl[p] = 3
      /\ \A p \in l2 : lvl[p] = 2
      /\ \A p \in l1 : lvl[p] = 1
      /\ lvl[root] = 4
  BY <1>3, <1>4, <1>5, <1>6 DEF Rank
<1>10. /\ IsFiniteSet(l3) /\ Cardinality(l3) \in Nat
       /\ IsFiniteSet(l2) /\ Cardinality(l2) \in Nat
       /\ IsFiniteSet(l1) /\ Cardinality(l1) \in Nat
  BY <1>4, <1>5, <1>6, RankFinite
<1>11. Cardinality(l3 \cup l2 \cup l1) = Cardinality(l3) + Cardinality(l2) + Cardinality(l1)
  <2>1. l3 \cap l2 = {} /\ (l3 \cup l2) \cap l1 = {}
    BY <1>9
  <2>2. IsFiniteSet(l3 \cup l2) /\ Cardinality(l3 \cup l2) = Cardinality(l3) + Cardinality(l2)
    BY <1>10, <2>1, ApartAdd
  <2>3. Cardinality((l3 \cup l2) \cup l1) = Cardinality(l3 \cup l2) + Cardinality(l1)
    BY <1>10, <2>1, <2>2, ApartAdd
  <2> QED
    BY <1>10, <2>2, <2>3
<1>12. IsTree(mem, root, TabIndex)
  <2>1. TableSlots(mem, root, 4) \cap TabIndex = TableSlots(mem, root, 4)
    BY DEF TableSlots
  <2>2. UNION ToSet(<<l3, l2, l1>>) = l3 \cup l2 \cup l1
    BY <1>2 DEF Reachable
  <2>3. <<l3, l2, l1>>[1] = l3 /\ <<l3, l2, l1>>[2] = l2
    OBVIOUS
  <2> QED
    BY <1>2, <1>4, <1>7, <1>8, <1>11, <2>1, <2>2, <2>3 DEF IsTree
<1>13. \A p \in mem.free : lvl[p] = 0
  BY <1>1 DEF Graded
<1>14. ({root} \cup Reachable(mem, root, TabIndex)) \cap mem.free = {}
  <2>1. \A p \in {root} \cup Reachable(mem, root, TabIndex) : lvl[p] # 0
    BY <1>2, <1>9
  <2> QED
    BY <1>13, <2>1
<1>15. root \notin Reachable(mem, root, TabIndex)
  BY <1>2, <1>9
<1> QED
  BY <1>12, <1>14, <1>15

-----------------------------------------------------------------------------
(* Ept: the theorems. *)

\* A context's tables are graded by level with the free pages outside, and the
\* history variable holds what a walk finds, after any operations of ept.c.
THEOREM EptInvariant == EptSpec => []EptIInv
<1>1. EptInit => EptIInv
  BY EptStarts
<1>2. EptIInv /\ [EptNext]_ept_vars => EptIInv'
  BY EptStep
<1> QED
  BY <1>1, <1>2, PTL DEF EptSpec

\* The tables of a context are a tree, none of them free (ept_alloc_table,
\* ept_walk, ept_destroy), for tables of any number of entries and any pages.
THEOREM TablesAreSound == EptSpec => []TablesSound
<1>1. EptIInv => TablesSound
  BY TreeIsSound DEF EptIInv, TablesSound, NoContext
<1> QED
  BY <1>1, EptInvariant, PTL

\* Walks, large pages, ranges and failed allocations of ept.c together keep the
\* promise of ept.h, a map from guest pages to frames, for every set of guest
\* pages, frames, range lengths and permissions.
THEOREM GuestMapIsImplemented == EptSpec => ImplementsGuestMap
<1>1. EptInit => Promise!Init
  BY EptStarts
<1>2. EptIInv /\ [EptNext]_ept_vars => [Promise!Next]_<<view, ept_call>>
  BY EptStep
<1> QED
  BY <1>1, <1>2, EptInvariant, PTL DEF EptSpec, ImplementsGuestMap, Promise!Spec
=============================================================================
