------------------------------ MODULE BootTools ------------------------------
(***************************************************************************)
(* The tools that rewrite the boot configuration of one image, in any      *)
(* order and again and again: the image customizer (boot loader, SELinux,  *)
(* verity, LiveOS ISO) and the os modifier.                                *)
(*                                                                         *)
(* A configuration of the customizer is a record: extra and isoExtra       *)
(* (command lines), mode ("default" or an SELinux mode), reset (hard reset *)
(* of the boot loader), os (the OS is customized), verity, and output      *)
(* ("image" or "iso").                                                     *)
(***************************************************************************)
EXTENDS BootConfig

CONSTANTS
    Images,             \* the images that the tools start from
    Configs,            \* the customizer's configurations
    ModifierModes,      \* the modes that the os modifier is asked for
    MaxOps              \* bound: how many times a tool is run on the image

ASSUME MaxOpsAssumption == MaxOps \in Nat

VARIABLES
    disk,               \* the files of the image's root
    iso,                \* the LiveOS ISO made of it, if any
    run,                \* the customizer's configuration and step
    asked,              \* what the tools were asked for so far
    ops                 \* how many tools ran

vars == <<disk, iso, run, asked, ops>>

Steps == {"idle", "boot", "selinux", "verity", "hash", "output", "failed"}

NoConfig == [extra |-> <<>>, isoExtra |-> <<>>, mode |-> "default", reset |-> FALSE,
             os |-> FALSE, verity |-> FALSE, output |-> "image"]

EmptyCfg == [search |-> "", rootdevice |-> "", lines |-> <<>>]

NoIso == [made |-> FALSE, cfg |-> EmptyCfg, pxe |-> EmptyCfg, saved |-> <<>>]

Init ==
    /\ disk \in Images
    /\ iso = NoIso
    /\ run = [step |-> "idle", config |-> NoConfig]
    /\ asked = [mode |-> GetSELinuxMode(disk), extras |-> <<>>, isoExtras |-> <<>>,
                ownSELinux |-> FALSE, verity |-> FALSE, stamped |-> FALSE,
                regenerated |-> FALSE]
    /\ ops = 0

Sets(args, names) == \E i \in DOMAIN args : args[i].name \in names

\* A step of the customizer gives the new files, or the run fails.
Then(new, step) ==
    IF new = Failed
    THEN run' = [run EXCEPT !.step = "failed"] /\ UNCHANGED disk
    ELSE run' = [run EXCEPT !.step = step] /\ disk' = new

Write(d) == IF d = Failed THEN Failed ELSE WriteToFile(disk, d)
-----------------------------------------------------------------------------
(* The image customizer.                                                   *)

\* A verity image is refused, and so is an image made of an ISO.
CustomizeImage(c) ==
    /\ run.step = "idle" /\ ops < MaxOps
    /\ ~asked.verity
    /\ iso.made => c.output = "iso"
    /\ ~c.os => iso.made
    /\ run' = [step |-> IF c.os THEN "boot" ELSE "output", config |-> c]
    /\ ops' = ops + 1
    /\ UNCHANGED <<disk, iso, asked>>

\* The files that a fresh installation gets.
installGrubTemplateFile(mode, extra) ==
    [defaults |-> [linux |-> selinuxModeToArgs(mode) \o <<Arg("lockdown", "integrity")>>,
                   linuxDefault |-> extra \o <<KernelOpts>>,
                   disableUuid |-> "", disableRecovery |-> "", device |-> ""],
     cfg |-> [search |-> "boot", rootdevice |-> "UUID",
              lines |-> <<Line(FALSE, "vmlinuz",
                               selinuxModeToArgs(mode)
                               \o <<VarArg("root"), Arg("lockdown", "integrity")>>
                               \o extra \o <<KernelOpts>>)>>]]

\* Mutant: the current mode is not carried over.
hardResetToDefault(c) ==
    LET mode == IF c.mode = "default" THEN "disabled" ELSE c.mode
        new == installGrubTemplateFile(mode, c.extra)
    IN [disk EXCEPT !.defaults = new.defaults,
                    !.cfg = IF disk.mkconfig THEN CallGrubMkconfig(new.defaults) ELSE new.cfg]

hardResetBootLoader(c) ==
    LET current == GetSELinuxMode(disk)
        mode == IF c.mode = "default" THEN current ELSE c.mode
        new == installGrubTemplateFile(mode, c.extra)
    IN IF current = "error" THEN Failed
       ELSE [disk EXCEPT !.defaults = new.defaults,
                         !.cfg = IF disk.mkconfig THEN CallGrubMkconfig(new.defaults)
                                 ELSE new.cfg]

addKernelCommandLine(c) ==
    IF c.extra = <<>> THEN disk ELSE Write(AddKernelCommandLine(disk, c.extra))

handleBootLoader ==
    LET c == run.config
    IN /\ run.step = "boot"
       /\ Then(IF c.reset THEN hardResetBootLoader(c) ELSE addKernelCommandLine(c), "selinux")
       /\ asked' = [asked EXCEPT !.extras = IF c.reset THEN c.extra ELSE @ \o c.extra,
                                !.ownSELinux = @ \/ Sets(c.extra, selinuxArgNames)]
       /\ UNCHANGED <<iso, ops>>

\* After a hard reset the arguments are right already.
handleSELinux ==
    LET c == run.config
        written == IF c.reset THEN disk ELSE Write(UpdateSELinuxCommandLine(disk, c.mode))
        new == IF c.mode = "default"
               THEN IF GetSELinuxMode(disk) = "error" THEN Failed ELSE disk
               ELSE IF written = Failed THEN Failed
               ELSE UpdateSELinuxModeInConfigFile(written, c.mode)
    IN /\ run.step = "selinux"
       /\ Then(new, IF c.verity THEN "verity" ELSE "output")
       /\ asked' = [asked EXCEPT !.mode = IF c.mode = "default" THEN @ ELSE c.mode]
       /\ UNCHANGED <<iso, ops>>

prepareGrubConfigForVerity ==
    /\ run.step = "verity"
    /\ Then(Write(PrepareForVerity(disk)), "hash")
    /\ UNCHANGED <<iso, asked, ops>>

verityArgNames == {"rd.systemd.verity", "roothash"}

verityArgs == <<Arg("rd.systemd.verity", "1"), Arg("roothash", "hash")>>

\* The hash is known only when the root does not change any more, so that
\* grub.cfg is edited whatever wrote it.
updateGrubConfigForVerity ==
    LET cfg == updateKernelCommandLineArgs(disk.cfg, verityArgNames, verityArgs)
        new == IF cfg = Failed THEN Failed
               ELSE IF disk.mkconfig
               THEN updateKernelCommandLineArgs(cfg, {"root"}, <<Arg("root", "/dev/mapper/root")>>)
               ELSE replaceSetCommandValue(cfg, "/dev/mapper/root")
    IN /\ run.step = "hash"
       /\ Then(IF new = Failed THEN Failed ELSE [disk EXCEPT !.cfg = new], "output")
       /\ asked' = [asked EXCEPT !.verity = TRUE]
       /\ UNCHANGED <<iso, ops>>
-----------------------------------------------------------------------------
(* The LiveOS ISO: a copy of the image's grub.cfg, or of the one of the    *)
(* ISO that was the input if the OS did not change.                        *)

liveosKernelArgs == <<Arg("rd.live.image", ""), Arg("rd.live.overlay", "1")>>

pxeKernelsArgs == <<Arg("ip", "dhcp")>>

\* One of several edits: it is not tried if the one before failed.
After(cfg, Edit(_)) == IF cfg = Failed THEN Failed ELSE Edit(cfg)

\* Mutant: the new arguments take the place of the saved ones.
replaceSavedConfigs(saved, extra) == IF extra = <<>> THEN saved ELSE extra

updateSavedConfigs(saved, extra) == saved \o extra

updateGrubCfg(cfg, saved) ==
    LET search == replaceSearchCommandAll(cfg, "iso")
        paths == After(search, LAMBDA f : setLinuxOrInitrdPathAll(f, disk.mkconfig))
        root == After(paths, LAMBDA f : replaceKernelCommandLineArgValueAll(f, "root", "live:iso", TRUE))
        selinux == After(root, LAMBDA f : updateSELinuxCommandLineHelperAll(f, "disabled", TRUE, FALSE))
    IN After(selinux, LAMBDA f :
           appendKernelCommandLineArgsAll(f, liveosKernelArgs \o saved, TRUE, FALSE))

generatePxeGrubCfg(cfg) ==
    LET root == After(removeCommandAll(cfg), LAMBDA f :
                    replaceKernelCommandLineArgValueAll(f, "root", "live:url", TRUE))
    IN After(root, LAMBDA f : appendKernelCommandLineArgsAll(f, pxeKernelsArgs, TRUE, FALSE))

\* An initrd that cannot boot over PXE leaves the file out.
createIso ==
    LET c == run.config
        saved == updateSavedConfigs(iso.saved, c.isoExtra)
        cfg == updateGrubCfg(IF c.os THEN disk.cfg ELSE iso.cfg, saved)
        pxe == After(cfg, generatePxeGrubCfg)
    IN /\ run.step = "output" /\ c.output = "iso"
       /\ \E new \in {pxe, EmptyCfg} :
              IF cfg = Failed \/ new = Failed
              THEN run' = [run EXCEPT !.step = "failed"] /\ UNCHANGED iso
              ELSE /\ iso' = [made |-> TRUE, cfg |-> cfg, pxe |-> new, saved |-> saved]
                   /\ run' = [step |-> "idle", config |-> NoConfig]
       /\ asked' = [asked EXCEPT !.isoExtras = @ \o c.isoExtra]
       /\ UNCHANGED <<disk, ops>>

convertImageFile ==
    /\ run.step = "output" /\ run.config.output = "image"
    /\ run' = [step |-> "idle", config |-> NoConfig]
    /\ UNCHANGED <<disk, iso, asked, ops>>
-----------------------------------------------------------------------------
(* The os modifier, on the root of a system that was deployed.             *)

grubArgs == {"rd.overlayfs", "root", "selinux", "enforcing"} \cup verityArgNames

\* Mutant: the root hash is not one of them.
extractWithoutVerity(args) ==
    SelectSeq(args, LAMBDA a : a.name \in grubArgs \ ({"root"} \cup verityArgNames)
                               /\ a.value # "")

\* The values that the running system was booted with.
extractValuesFromGrubConfig(args) ==
    SelectSeq(args, LAMBDA a : a.name \in grubArgs \ {"root"} /\ a.value # "")

\* They are stamped into /etc/default/grub, so that they outlive the next
\* grub2-mkconfig.
modifyDefaultGrub(d) ==
    LET lines == FindNonRecoveryLinuxLine(d.cfg)
        args == lines[1].args
        roots == SelectSeq(args, LAMBDA a : a.name = "root" /\ a.value # "")
        rootDevice == IF roots = <<>> THEN "" ELSE Last(roots).value
        new == UpdateKernelCommandLineArgs(d, grubArgs, extractValuesFromGrubConfig(args))
    IN IF Len(lines) # 1 \/ new = Failed THEN Failed
       ELSE WriteToFile(d, SetRootDevice(new, rootDevice))

ModifyDefaultGrub ==
    /\ run.step = "idle" /\ ops < MaxOps /\ ~iso.made
    /\ Then(modifyDefaultGrub(disk), "idle")
    /\ asked' = [asked EXCEPT !.stamped = asked.verity]
    /\ ops' = ops + 1
    /\ UNCHANGED iso

updateGrubConfigForOverlay(d) ==
    UpdateKernelCommandLineArgs(d, {"rd.overlayfs"}, <<Arg("rd.overlayfs", "dirs")>>)

\* Nothing to do if the mode is the current one; the boot loader's files are
\* written all the same.
handleModifierSELinux(d, mode) ==
    LET current == GetSELinuxMode(d)
        new == UpdateSELinuxCommandLine(d, mode)
        configured == UpdateSELinuxModeInConfigFile(d, mode)
    IN IF current = "error" THEN Failed
       ELSE IF mode = current THEN WriteToFile(d, d)
       ELSE IF new = Failed \/ configured = Failed THEN Failed
       ELSE WriteToFile(configured, new)

doModifications(overlays, mode) ==
    LET overlaid == IF overlays THEN Write(updateGrubConfigForOverlay(disk)) ELSE disk
        new == IF overlaid = Failed THEN Failed
               ELSE IF mode = "default" THEN overlaid
               ELSE handleModifierSELinux(overlaid, mode)
    IN /\ run.step = "idle" /\ ops < MaxOps /\ ~iso.made
       /\ Then(new, "idle")
       /\ asked' = [asked EXCEPT
              !.mode = IF mode = "default" THEN @ ELSE mode,
              !.regenerated = @ \/ (asked.verity /\ ~asked.stamped /\ new # disk)]
       /\ ops' = ops + 1
       /\ UNCHANGED iso

Done == (run.step = "failed" \/ (run.step = "idle" /\ ops = MaxOps)) /\ UNCHANGED vars

Next ==
    \/ \E c \in Configs : CustomizeImage(c)
    \/ handleBootLoader \/ handleSELinux
    \/ prepareGrubConfigForVerity \/ updateGrubConfigForVerity
    \/ createIso \/ convertImageFile
    \/ ModifyDefaultGrub
    \/ \E overlays \in BOOLEAN, mode \in ModifierModes : doModifications(overlays, mode)
    \/ Done

Spec == Init /\ [][Next]_vars
-----------------------------------------------------------------------------
(* Properties.  They are about the files that the tools leave behind.      *)

Idle == run.step = "idle"

\* The SELinux mode of the image is the one that was asked for last, through
\* hard resets, grub2-mkconfig, verity and the os modifier; and the arguments
\* that the kernel sees say the same as the ones that GetSELinuxMode reads.
\* An extra command line that ever set SELinux itself is the user's business.
SELinuxAsAsked ==
    Idle /\ ~asked.ownSELinux =>
        /\ GetSELinuxMode(disk) = asked.mode
        /\ \A i \in DOMAIN disk.cfg.lines :
               getSELinuxModeFromLinuxArgs(disk.cfg.lines[i].args) = getSELinuxModeFromGrub(disk)

\* Every extra argument since the last hard reset is on the kernel's command
\* line once for each time it was asked for, in order: AddKernelCommandLine
\* puts it there and no other edit or regeneration drops or repeats it.
ExtrasReachKernel ==
    LET extra(args) == SelectSeq(args, LAMBDA a : a.name = "quiet")
        lines == FindNonRecoveryLinuxLine(disk.cfg)
    IN Idle => \A i \in DOMAIN lines : extra(lines[i].args) = extra(asked.extras)

\* A verity image boots its hashed root: one entry, one root hash, the mapped
\* device as root (updateGrubConfigForVerity) - and the os modifier keeps that
\* once it has stamped the values into /etc/default/grub.
VerityRootBoots ==
    LET lines == disk.cfg.lines
        named(name) == findMatchingCommandLineArgs(lines[1].args, {name})
    IN Idle /\ asked.verity /\ ~(disk.mkconfig /\ asked.regenerated) =>
        /\ Len(lines) = 1
        /\ named("roothash") = <<Arg("roothash", "hash")>>
        /\ IF disk.mkconfig THEN named("root") = <<Arg("root", "/dev/mapper/root")>>
           ELSE disk.cfg.rootdevice = "/dev/mapper/root"

\* Every entry of an ISO, the recovery one too, starts the ISO's kernel with
\* the live root and SELinux off, and has all the arguments that were asked
\* for the ISO in this and in earlier runs (updateGrubCfg, updateSavedConfigs).
IsoBootsLive ==
    LET named(args, name) == findMatchingCommandLineArgs(args, {name})
        has(args, s) == \E i \in 1..(Len(args) - Len(s) + 1) : SubSeq(args, i, i + Len(s) - 1) = s
        live(cfg, root) ==
            \A i \in DOMAIN cfg.lines :
                LET line == cfg.lines[i]
                IN /\ line.kernel = "iso kernel" /\ line.initrd = "iso initrd"
                   /\ named(line.args, "root") = <<Arg("root", root)>>
                   /\ has(line.args, asked.isoExtras)
                   /\ Sets(asked.isoExtras, selinuxArgNames)
                      \/ getSELinuxModeFromLinuxArgs(line.args) = "disabled"
    IN Idle /\ iso.made =>
        /\ iso.cfg.lines # <<>> /\ live(iso.cfg, "live:iso")
        /\ live(iso.pxe, "live:url")

\* Stamping the booted values into /etc/default/grub a second time changes
\* nothing, unless GRUB_CMDLINE_LINUX_DEFAULT holds such values as well
\* (modifyDefaultGrub takes them from grub.cfg, where both lists are).
StampingIsIdempotent ==
    LET once == modifyDefaultGrub(disk)
    IN /\ Idle /\ disk.mkconfig
       /\ ~Sets(disk.defaults.linuxDefault, grubArgs)
       /\ once # Failed
       => modifyDefaultGrub(once) = once
=============================================================================
