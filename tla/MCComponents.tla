---------------------------- MODULE MCComponents ----------------------------
(* Small instances of the components for TLC.                               *)
EXTENDS Components, MCAzureExport

CONSTANTS Disk, Vmx,                            \* files of a VM
          Top, Sub, Boot, Data, Doc, Src        \* directories and stems of archives

\* A disk that grows, and shrinks.
Capacities == <<3, 4, 2>>

Job(vms, kind, snapshot, action, mode, flag, retries) ==
    [vms |-> vms, kind |-> kind, snapshot |-> snapshot, action |-> action, mode |-> mode,
     clean |-> flag, shutdown |-> flag, retries |-> retries, strict |-> flag]
JobsOfVsphere ==
    {Job(2, "v2v", FALSE, "list_vm_names", "ovf", FALSE, 0),
     Job(1, "v2v", TRUE, "unknown", "ovf", FALSE, 0), Job(0, "v2v", FALSE, "unknown", "ovf", FALSE, 0),
     Job(2, "vddk_download", FALSE, "download_only_vm", "ovf", FALSE, 0),
     Job(1, "download_only", FALSE, "download_only_vm", "ovf", TRUE, 0),
     Job(0, "none", FALSE, "download_datastore_file", "ovf", FALSE, 0)}
    \cup {Job(0, "none", FALSE, "export_vm", m, f, 0) : m \in {"ovf", "ova", "https"}, f \in BOOLEAN}
    \cup {Job(0, "none", FALSE, a, "ovf", FALSE, r) : a \in {"ovftool_export", "ovftool_deploy"},
                                                     r \in 0..1}

\* Two disks of one stem in two directories; a member that may not be extracted;
\* an archive in an archive; a disk that is not in an archive.
Member(place, stem, what, refs) ==
    [path |-> [dir |-> place, stem |-> stem, copy |-> 0], what |-> what, refs |-> refs]
Tar(kind, members, nested, convert) ==
    [kind |-> kind, members |-> members, nested |-> nested, convert |-> convert, plain |-> None,
     overwrite |-> FALSE, rename |-> FALSE, all |-> FALSE, texts |-> TRUE, special |-> TRUE,
     deep |-> TRUE]
Two == <<Member(Top, Boot, "disk", {}), Member(Top, Doc, "text", {}), Member(Sub, Boot, "disk", {})>>
Both == {Two[1].path, Two[3].path}
Blob == Member(Top, Data, "blob", {})
Tapes ==
    {Tar("ova", <<Member(Top, Doc, "ovf", Both), Two[1], Two[3], Member(Top, Src, "special", {})>>,
         <<>>, TRUE),
     Tar("ova", <<Member(Top, Data, "ovf", {})>>, <<>>, FALSE),
     Tar("vhd", Two, <<>>, TRUE),
     [Tar("vhd", <<>>, <<>>, TRUE) EXCEPT !.plain = Member(Src, Boot, "disk", {}).path],
     Tar("raw", Two, <<>>, TRUE), [Tar("raw", Two, <<>>, TRUE) EXCEPT !.rename = TRUE],
     [Tar("raw", <<Two[1], Member(Top, Src, "special", {})>>, <<>>, FALSE) EXCEPT
        !.overwrite = TRUE, !.all = TRUE, !.special = FALSE],
     Tar("ami", <<Member(Top, Doc, "tar", {}), Blob>>, <<Two[3], Member(Sub, Doc, "text", {})>>, TRUE),
     [Tar("ami", <<Blob>>, <<>>, FALSE) EXCEPT !.deep = FALSE]}

\* qcow2 compressed with zstd at a level; raw; qcow2 with threads.
Ask(threads, ctype, level, prealloc, qcow2, compress) ==
    [base |-> [cache |-> TRUE, threads |-> threads, ctype |-> ctype, level |-> level,
               prealloc |-> prealloc], qcow2 |-> qcow2, compress |-> compress]
JobsOfImage ==
    {Ask(FALSE, "zstd", TRUE, FALSE, TRUE, TRUE), Ask(FALSE, "zstd", FALSE, FALSE, FALSE, FALSE),
     Ask(TRUE, "zlib", FALSE, TRUE, TRUE, FALSE)}

Entry(key, opts, device) == [key |-> key, opts |-> opts, root |-> device]
Defaults ==
    {<<>>, <<Entry("other", {}, "none")>>, <<Entry("default", {"quiet"}, "none")>>,
     <<Entry("linux", {"lvm"}, "dev"), Entry("default", {"quiet"}, "none"), Entry("other", {}, "none")>>}
Tables == {<<"bypath", "stable", "bypath">>, <<"other">>}
OptionsOfLive ==
    {[dryRun |-> FALSE, tools |-> t, grub |-> TRUE, initramfs |-> i] : t, i \in BOOLEAN}
    \cup {[dryRun |-> TRUE, tools |-> TRUE, grub |-> TRUE, initramfs |-> TRUE],
          [dryRun |-> FALSE, tools |-> FALSE, grub |-> FALSE, initramfs |-> FALSE]}

\* A Windows guest with a stale Select key, one without, calls that write the
\* same hives and the same script.
GuestsOfWindows == [current : {2}, sets : {{1, 2}, {2}}, readable : BOOLEAN, cards : {1}]
ToDo(kind, dry) == [kind |-> kind, dry |-> dry]
CallsOfWindows ==
    {<<ToDo("drivers", FALSE), ToDo("network", FALSE)>>, <<ToDo("path", FALSE), ToDo("runonce", FALSE)>>,
     <<ToDo("firstboot", FALSE), ToDo("dword", FALSE)>>, <<ToDo("dword", TRUE), ToDo("bcd", FALSE)>>,
     <<ToDo("network", TRUE), ToDo("path", TRUE)>>}

=============================================================================
