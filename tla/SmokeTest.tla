------------------------------ MODULE SmokeTest -----------------------------
(***************************************************************************)
(* Orchestrator._run_tests: LibvirtTest.run                                *)
(* (src/hyper2kvm/testers/libvirt_tester.py) defines a domain for the      *)
(* first image, starts it and waits for it to run; QemuTest.run            *)
(* (qemu_tester.py) lets a bare QEMU run for a while.                      *)
(*                                                                         *)
(* The tests are run again and again under the same vm_name, each time on  *)
(* an image of its own, after runs that kept their domain, failed or were  *)
(* killed.  No other process uses the name meanwhile.  Every virsh may     *)
(* fail, and the guest may stop by itself.                                 *)
(* External: libvirt, QEMU.  Not here: graphics, network, what is in the   *)
(* XML besides the image, Windows profiles.                                *)
(***************************************************************************)
EXTENDS Naturals

CONSTANT MaxRuns    \* bound: how often the tests are run

\* What is assumed of the constants.
SmokeAssumption == MaxRuns \in Nat \ {0}

VARIABLES
    run,        \* which run this is, and which image it tests
    args,       \* uefi, keep_domain, libvirt_test, qemu_test
    pc,
    domain,     \* the image of the domain of that name; 0: there is none
    active,     \* it runs
    nvram,      \* <vm_name>.VARS.fd beside the image: "none", "torn", "whole"
    xml,        \* the domain's XML is in a temporary file
    ovmf,       \* QemuTest's copy of the OVMF variables is there
    qemu,       \* QEMU runs
    sick,       \* a virsh or an unlink of this run's cleaning up has failed
    seen,       \* the image the domain had when it was found running; 0
    result      \* "none", "ok", "failed"

vars == <<run, args, pc, domain, active, nvram, xml, ovmf, qemu, sick, seen, result>>
call == <<run, args>>
virt == <<domain, active>>
bare == <<ovmf, qemu>>

Args == [uefi : BOOLEAN, keep : BOOLEAN, libvirt : BOOLEAN, qemu : BOOLEAN]

Init ==
    /\ run = 1 /\ args \in Args /\ pc = "begin"
    /\ domain = 0 /\ active = FALSE /\ nvram = "none" /\ xml = FALSE
    /\ ovmf = FALSE /\ qemu = FALSE /\ sick = FALSE /\ seen = 0 /\ result = "none"

Ended == {"done", "over", "killed"}
Raise == pc' = "done" /\ result' = "failed"

-----------------------------------------------------------------------------
(* LibvirtTest                                                              *)

\* virsh, the disk and OVMF are there; _prepare_nvram reuses what it finds, or
\* copies, and a copy that fails may leave a part.  All this is before the try.
Prepare ==
    /\ pc = "begin" /\ args.libvirt
    /\ \/ Raise /\ UNCHANGED nvram
       \/ /\ pc' = "xml" /\ UNCHANGED result
          /\ nvram' = IF args.uefi /\ nvram = "none" THEN "whole" ELSE nvram
       \/ args.uefi /\ nvram = "none" /\ nvram' = "torn" /\ Raise
    /\ UNCHANGED <<call, virt, xml, bare, sick, seen>>

Fails == pc' = "finally" /\ result' = "failed"

WriteXml ==
    /\ pc = "xml"
    /\ \/ xml' = TRUE /\ pc' = "sweep" /\ UNCHANGED result
       \/ Fails /\ UNCHANGED xml
    /\ UNCHANGED <<call, virt, nvram, bare, sick, seen>>

\* _cleanup_domain: destroy, undefine --nvram, undefine, and no answer is looked
\* at.  It works, or some of it does not.
Clean ==
    \/ /\ domain' = 0 /\ active' = FALSE /\ UNCHANGED sick
       /\ nvram' \in IF domain # 0 THEN {nvram, "none"} ELSE {nvram}
    \/ /\ domain # 0 /\ active' \in {active, FALSE} /\ sick' = TRUE
       /\ UNCHANGED <<domain, nvram>>

Sweep ==
    /\ pc = "sweep" /\ Clean /\ pc' = "define"
    /\ UNCHANGED <<call, xml, bare, seen, result>>

\* virsh define, whose failure raises.  (Weaker form: it is not looked at.)
Goes == pc' = "start" /\ UNCHANGED result
Undefined == Fails

\* A name that is taken cannot be defined.
Define ==
    /\ pc = "define"
    /\ \/ domain = 0 /\ domain' = run /\ Goes
       \/ Undefined /\ UNCHANGED domain
    /\ UNCHANGED <<call, active, nvram, xml, bare, sick, seen>>

StartDomain ==
    /\ pc = "start"
    /\ \/ /\ domain # 0 /\ ~active /\ active' = TRUE
          /\ pc' = "wait" /\ UNCHANGED result
       \/ Fails /\ UNCHANGED active
    /\ UNCHANGED <<call, domain, nvram, xml, bare, sick, seen>>

\* _wait_running: domstate until it is running, or die in time.
Wait ==
    /\ pc = "wait" /\ pc' = "finally"
    /\ \/ active /\ seen' = domain /\ UNCHANGED result
       \/ result' = "failed" /\ UNCHANGED seen
    /\ UNCHANGED <<call, virt, nvram, xml, bare, sick>>

\* What the finally makes of the variables.
Unlinked(n) == IF args.uefi THEN "none" ELSE n

\* Without keep_domain: _cleanup_domain, and the variables.
Finish ==
    /\ pc = "finally" /\ xml' = FALSE
    /\ \/ /\ ~args.keep /\ domain' = 0 /\ active' = FALSE
          /\ nvram' = Unlinked(nvram) /\ UNCHANGED sick
       \/ /\ ~args.keep /\ sick' = TRUE
          /\ \/ UNCHANGED domain /\ active' \in {active, FALSE}
             \/ domain' = 0 /\ active' = FALSE
          /\ nvram' \in {nvram, Unlinked(nvram)}
       \/ args.keep /\ UNCHANGED <<virt, nvram, sick>>
    /\ pc' = IF result = "failed" THEN "over" ELSE "bare"
    /\ UNCHANGED <<call, bare, seen, result>>

-----------------------------------------------------------------------------
(* QemuTest                                                                 *)

Skip ==
    /\ pc = "begin" /\ ~args.libvirt /\ pc' = "bare"
    /\ UNCHANGED <<call, virt, nvram, xml, bare, sick, seen, result>>

\* The program, the disk and OVMF are there, and the variables are copied: a
\* copy that fails stays.
Copy ==
    /\ pc = "bare"
    /\ \/ ~args.qemu /\ pc' = "done" /\ result' = "ok" /\ UNCHANGED ovmf
       \/ args.qemu /\ pc' = "launch" /\ ovmf' = (ovmf \/ args.uefi) /\ UNCHANGED result
       \/ args.qemu /\ Raise /\ ovmf' \in {ovmf, ovmf \/ args.uefi}
    /\ UNCHANGED <<call, virt, nvram, xml, qemu, sick, seen>>

Launch ==
    /\ pc = "launch"
    /\ \/ qemu' = TRUE /\ pc' = "smoke" /\ UNCHANGED <<ovmf, result>>
       \/ ovmf' = FALSE /\ Raise /\ UNCHANGED qemu
    /\ UNCHANGED <<call, virt, nvram, xml, sick, seen>>

\* QEMU ends by itself, whatever its code, or on SIGTERM or SIGKILL in time; or
\* not even then.
Reap ==
    /\ pc = "smoke" /\ ovmf' = FALSE
    /\ \/ qemu' = FALSE /\ pc' = "done" /\ result' = "ok"
       \/ Raise /\ UNCHANGED qemu
    /\ UNCHANGED <<call, virt, nvram, xml, sick, seen>>

-----------------------------------------------------------------------------

\* The guest shuts down.
GuestStops ==
    /\ active /\ active' = FALSE
    /\ UNCHANGED <<call, pc, domain, nvram, xml, bare, sick, seen, result>>

Kill ==
    /\ pc \notin Ended /\ pc' = "killed"
    /\ UNCHANGED <<call, virt, nvram, xml, bare, sick, seen, result>>

\* The tests are run on the next image; what the last run has left in /tmp is
\* not looked at again.
Again ==
    /\ pc \in Ended /\ run < MaxRuns
    /\ run' = run + 1 /\ args' \in Args /\ pc' = "begin"
    /\ xml' = FALSE /\ ovmf' = FALSE /\ qemu' = FALSE
    /\ sick' = FALSE /\ seen' = 0 /\ result' = "none"
    /\ UNCHANGED <<virt, nvram>>

Advance == Prepare \/ WriteXml \/ Sweep \/ Define \/ StartDomain \/ Wait \/ Finish
           \/ Skip \/ Copy \/ Launch \/ Reap

Next == Advance \/ GuestStops \/ Kill \/ Again

FairSpec == Init /\ [][Next]_vars /\ WF_vars(Advance)

-----------------------------------------------------------------------------
(* Properties                                                               *)

TypeOK ==
    /\ run \in 1..MaxRuns /\ args \in Args
    /\ pc \in {"begin", "xml", "sweep", "define", "start", "wait", "finally", "bare",
               "launch", "smoke"} \cup Ended
    /\ domain \in 0..run /\ active \in BOOLEAN /\ nvram \in {"none", "torn", "whole"}
    /\ xml \in BOOLEAN /\ ovmf \in BOOLEAN /\ qemu \in BOOLEAN /\ sick \in BOOLEAN
    /\ seen \in 0..run /\ result \in {"none", "ok", "failed"}

\* A test that passes has seen its own image run, and not the domain that an
\* earlier run has kept or could not undefine (LibvirtTest.run: define and start
\* are checked, though the cleaning up before them is not).
PassedOnOwn == seen # 0 => seen = run

\* A test that has come to its finally, without keep_domain and with a virsh
\* that answers, leaves no domain of the name, no variables of it and no XML,
\* however far it came (LibvirtTest.run: the finally).
LeftNothing ==
    pc \in {"over", "bare", "launch", "smoke"} /\ args.libvirt /\ ~args.keep /\ ~sick
        => domain = 0 /\ ~xml /\ (args.uefi => nvram = "none")

=============================================================================
