-------------------------------- MODULE MCRepair --------------------------------
(* Small instances of OfflineFixer for TLC, and of its network fixer, boot    *)
(* fixer and validation suite on their own, as other callers use them with    *)
(* levels, options and checks the offline fixer never gives.                  *)
EXTENDS OfflineFixer

CONSTANTS Ens, Bond, Eth     \* ens192, bond0, eth0

Net_(type, dev, ref, macs, token, dhcp) ==
    [type |-> type, dev |-> dev, ref |-> ref, macs |-> macs, token |-> token,
     broken |-> FALSE, static |-> FALSE, dhcp |-> dhcp]

\* A parent of a vlan and the vlan, a slave and its bond, a driver's name on the
\* DEVICE line, and files of the other fixers.
Configs ==
    {Net_("ifcfg", Ens, None, 2, "none", "odd"), Net_("ifcfg", Bond, Ens, 0, "none", "on"),
     Net_("ifcfg", Ens, Bond, 1, "none", "none"), Net_("ifcfg", Eth, None, 1, "device", "odd"),
     Net_("nm", Ens, None, 1, "option", "absent"), Net_("nm", Bond, Ens, 0, "none", "absent"),
     Net_("netplan", Ens, Ens, 1, "none", "absent"),
     Net_("networkd", Ens, Bond, 0, "none", "none"), Net_("networkd", Bond, Ens, 0, "none", "none"),
     Net_("other", Eth, None, 0, "none", "on"),
     [Net_("ifcfg", Bond, None, 0, "none", "odd") EXCEPT !.static = TRUE]}

Guest(ownBoot, bls, stable, windows, tool) ==
    [ownBoot |-> ownBoot, bls |-> bls, stable |-> stable, windows |-> windows, tool |-> tool]
Linux == Guest(TRUE, TRUE, TRUE, FALSE, "mkinitcpio")

Check(critical, retries, deps, safe) ==
    [critical |-> critical, retries |-> retries, retryCritical |-> FALSE, deps |-> deps, safe |-> safe,
     expensive |-> FALSE, skip |-> FALSE, sub |-> FALSE, timeout |-> FALSE, func |-> TRUE,
     big |-> FALSE, hang |-> FALSE]
Suite_(checks) ==
    [checks |-> checks, parallel |-> FALSE, procs |-> TRUE, stop |-> TRUE, strict |-> FALSE,
     missing |-> FALSE, failFast |-> FALSE, context |-> TRUE, workers |-> 2]

\* fstab, boot files, kernel (critical), initramfs tools.
Default == [Suite_(<<Check(FALSE, 0, {}, FALSE), Check(FALSE, 0, {}, FALSE),
                     Check(TRUE, 0, {}, FALSE), Check(FALSE, 0, {}, FALSE)>>) EXCEPT !.procs = FALSE]

\* Three checks at once with two workers, one of them hanging or answering with
\* too much; a chain of dependencies with a critical check; what cannot be sent
\* to a process; missing tools.
Slow == [Check(FALSE, 1, {}, TRUE) EXCEPT !.hang = TRUE, !.timeout = TRUE]
Large == [Check(FALSE, 0, {}, TRUE) EXCEPT !.big = TRUE]
Local_ == [Check(FALSE, 1, {}, TRUE) EXCEPT !.func = FALSE, !.sub = TRUE]
Parallels ==
    {[Suite_(<<Slow, Check(FALSE, 1, {}, TRUE), Check(FALSE, 1, {}, TRUE)>>) EXCEPT
         !.parallel = TRUE, !.procs = p] : p \in BOOLEAN}
    \cup {[Suite_(<<Check(TRUE, 1, {}, FALSE), Large, Check(FALSE, 0, {1, 2}, TRUE), Local_>>) EXCEPT
         !.parallel = q, !.context = c, !.strict = s] : q, c, s \in BOOLEAN}
Chains ==
    {[Suite_(<<Check(FALSE, 1, {}, FALSE), [Check(TRUE, 1, {1}, FALSE) EXCEPT !.retryCritical = TRUE],
               [Check(TRUE, 2, {}, FALSE) EXCEPT !.sub = TRUE, !.big = TRUE, !.timeout = TRUE],
               [Check(FALSE, 0, {3}, TRUE) EXCEPT !.expensive = TRUE],
               [Check(FALSE, 0, {}, FALSE) EXCEPT !.skip = k]>>) EXCEPT
         !.stop = s, !.missing = m, !.failFast = f] : k, s, m, f \in BOOLEAN}
Callers == Parallels \cup Chains \cup {Suite_(<<>>)}

Job(dry, repair, mode, all, encrypted, guest_, fstab, files) ==
    [dryRun |-> dry, updateGrub |-> TRUE, guest |-> guest_, encrypted |-> encrypted,
     tables |-> [fstab |-> fstab, crypttab |-> "dev"], files |-> files,
     opt |-> [resize |-> all, key |-> encrypted, repair |-> repair, tools |-> all, regen |-> all,
              virtio |-> guest_.windows, recovery |-> repair, mode |-> mode]]

Files_ == <<Net_("ifcfg", Ens, None, 2, "none", "odd")>>
FixerJobs ==
    {Job(FALSE, TRUE, "all", FALSE, TRUE, Linux, "dev", Files_),
     Job(FALSE, FALSE, "bypath", TRUE, FALSE, Linux, "bypath", <<>>),
     Job(TRUE, TRUE, "all", TRUE, FALSE, Linux, "bypath", Files_),
     Job(FALSE, FALSE, "noop", TRUE, FALSE, Guest(FALSE, FALSE, FALSE, TRUE, "other"), "dev", <<>>)}

-----------------------------------------------------------------------------
(* The parts on their own: run is not under way.                           *)

Alone == /\ pc = "off" /\ Idle /\ visible = FALSE
         /\ opt = (CHOOSE j \in Jobs : TRUE).opt /\ tables = (CHOOSE j \in Jobs : TRUE).tables
NoNetwork == dryRun = FALSE /\ level = "moderate" /\ Net!Fixable(<<>>)
NoGuest == guest = Linux /\ updateGrub = TRUE
NoSuite == Suite!Prepared(Checkup, "idle")

Wired ==
    /\ Alone /\ root \in {"rw", "ro", "none"} /\ dryRun \in BOOLEAN /\ level \in Net!Levels
    /\ \E a, b \in Configs : Net!Fixable(<<a, b>>)
    /\ NoSuite /\ Boot!BootUntouched /\ NoGuest

Checked ==
    /\ Alone /\ root = "none" /\ NoNetwork /\ NoGuest /\ Boot!BootUntouched
    /\ \E s \in Suites : Suite!Prepared(s, "start")

\* Regen on a guest that update_grub_root has not seen before.
Booted ==
    /\ Alone /\ root \in {"rw", "ro"} /\ dryRun \in BOOLEAN /\ level = "moderate"
    /\ Net!Fixable(<<>>) /\ NoSuite
    /\ guest \in {Guest(o, b, s, FALSE, t) : o, b, s \in BOOLEAN, t \in Boot!Tools}
    /\ updateGrub \in BOOLEAN /\ bstep = "regen" /\ bootMounted = FALSE /\ astray = {}
    /\ audit = {} /\ boot = [f \in Boot!BootFiles |-> "old"]

AloneNext ==
    /\ pc = "off"
    /\ \/ original # <<>> /\ Net!NetNext /\ UNCHANGED <<Own, suiteWork, bootWork, guest, updateGrub>>
       \/ Suite!SuiteNext /\ UNCHANGED <<Own, netWork, bootWork, root, dryRun, level, guest, updateGrub>>
       \/ Boot!BootNext /\ UNCHANGED <<Own, netWork, suiteWork, level>>

MCInit == Init \/ Wired \/ Checked \/ Booted
MCSpec == /\ MCInit /\ [][Next \/ AloneNext]_fixerVars
          /\ WF_fixerVars(Next) /\ WF_fixerVars(AloneNext)

-----------------------------------------------------------------------------
\* Each part and each run ends, a suite unless one of its checks hangs or waits
\* for its answer to be read with nobody to stop it.
PartsEnd ==
    <>(\/ pc \in {"done", "raised"}
       \/ pc = "off" /\ (bstep = "regenerated" \/ step = "done" \/ phase \in {"done", "raised"}
                           \/ \E i \in Suite!All : Suite!Stuck(i)))
=============================================================================
