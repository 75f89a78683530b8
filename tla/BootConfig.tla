----------------------------- MODULE BootConfig -----------------------------
(***************************************************************************)
(* The boot configuration of an image: grub.cfg, /etc/default/grub and     *)
(* /etc/selinux/config, as the image customizer (imagecustomizerlib:       *)
(* grubcfgutils, defaultgrubutils, bootcustomizer, customizeselinux,       *)
(* customizeverity), the LiveOS ISO builder and the os modifier rewrite    *)
(* them one after the other.                                               *)
(*                                                                         *)
(* An image either has a grub.cfg that grub2-mkconfig generates from       *)
(* /etc/default/grub, or one that is edited in place.  The kernel takes    *)
(* the last of several arguments with the same name.  A file is what its   *)
(* tokens say: quoting and the characters between them are left out.       *)
(***************************************************************************)
EXTENDS Integers, Sequences, FiniteSets, SequencesExt

-----------------------------------------------------------------------------
(* Arguments of the kernel.                                                *)

\* name=value, and name=$variable, whose value is not known.
Arg(name, value) == [name |-> name, value |-> value, var |-> FALSE]

VarArg(name) == [name |-> name, value |-> "", var |-> TRUE]

\* The word $kernelopts, which is no argument with a name.
KernelOpts == [name |-> "", value |-> "kernelopts", var |-> TRUE]

\* The arguments with one of the names, in order.
findMatchingCommandLineArgs(args, names) ==
    SelectSeq(args, LAMBDA a : a.name \in names)

\* The value that counts: "" if there is none, "error" if it is a variable.
findKernelCommandLineArgValue(args, name) ==
    LET found == findMatchingCommandLineArgs(args, {name})
    IN IF found = <<>> THEN ""
       ELSE IF Last(found).var THEN "error" ELSE Last(found).value

\* Where new arguments go: before $kernelopts, or else at the end if that is
\* good enough.  0 is an error.
findCommandLineInsertAt(args, requireKernelOpts) ==
    LET at == {i \in DOMAIN args : args[i] = KernelOpts}
    IN IF Cardinality(at) = 1 THEN CHOOSE i \in at : TRUE
       ELSE IF at = {} /\ ~requireKernelOpts /\ args # <<>> THEN Len(args) + 1
       ELSE 0

InsertArgs(args, at, new) ==
    SubSeq(args, 1, at - 1) \o new \o SubSeq(args, at, Len(args))

\* Mutant: what stands before the last old argument goes with it.
updateFromTheLast(args, insertAt, argsToRemove, newArgs) ==
    LET found == {i \in DOMAIN args : args[i].name \in argsToRemove}
        last == CHOOSE i \in found : \A j \in found : j <= i
    IN IF found = {} THEN InsertArgs(args, insertAt, newArgs)
       ELSE newArgs \o SubSeq(args, last + 1, Len(args))

\* The old arguments go; the new ones take the place of the last of them.
updateKernelCommandLineArgsHelper(args, insertAt, argsToRemove, newArgs) ==
    LET found == {i \in DOMAIN args : args[i].name \in argsToRemove}
        last == CHOOSE i \in found : \A j \in found : j <= i
        kept(s) == SelectSeq(s, LAMBDA a : a.name \notin argsToRemove)
    IN IF found = {} THEN InsertArgs(args, insertAt, newArgs)
       ELSE kept(SubSeq(args, 1, last)) \o newArgs \o SubSeq(args, last + 1, Len(args))
-----------------------------------------------------------------------------
(* grub.cfg: its linux lines, each with the initrd line that follows it, a *)
(* search command and the rootdevice variable.  An operation that finds    *)
(* what it needs gives the new file, else Failed.                          *)

Failed == [failed |-> TRUE]

Line(recovery, kernel, args) ==
    [recovery |-> recovery, kernel |-> kernel, initrd |-> "initrd", args |-> args]

\* The linux lines, if there are any and no more than the caller expects.
findLinuxOrInitrdLineAll(cfg, allowMultiple) ==
    IF cfg.lines = <<>> \/ (Len(cfg.lines) > 1 /\ ~allowMultiple) THEN <<>> ELSE cfg.lines

\* A change of the arguments of each line; new is applied where it can be.
EachLine(cfg, allowMultiple, Can(_), New(_)) ==
    LET lines == findLinuxOrInitrdLineAll(cfg, allowMultiple)
    IN IF lines = <<>> \/ \E i \in DOMAIN lines : ~Can(lines[i].args) THEN Failed
       ELSE [cfg EXCEPT !.lines = [i \in DOMAIN lines |->
                [lines[i] EXCEPT !.args = New(lines[i].args)]]]

appendKernelCommandLineArgsAll(cfg, extra, allowMultiple, requireKernelOpts) ==
    LET at(args) == findCommandLineInsertAt(args, requireKernelOpts)
    IN EachLine(cfg, allowMultiple, LAMBDA args : at(args) # 0,
                LAMBDA args : InsertArgs(args, at(args), extra))

updateKernelCommandLineArgsAll(cfg, argsToRemove, newArgs, allowMultiple, requireKernelOpts) ==
    LET at(args) == findCommandLineInsertAt(args, requireKernelOpts)
    IN EachLine(cfg, allowMultiple, LAMBDA args : at(args) # 0,
                LAMBDA args : updateKernelCommandLineArgsHelper(args, at(args),
                                                                argsToRemove, newArgs))

updateKernelCommandLineArgs(cfg, argsToRemove, newArgs) ==
    updateKernelCommandLineArgsAll(cfg, argsToRemove, newArgs, FALSE, TRUE)

\* There must be exactly one argument of that name.
replaceKernelCommandLineArgValueAll(cfg, name, value, allowMultiple) ==
    EachLine(cfg, allowMultiple,
             LAMBDA args : Len(findMatchingCommandLineArgs(args, {name})) = 1,
             LAMBDA args : [i \in DOMAIN args |->
                 IF args[i].name = name THEN Arg(name, value) ELSE args[i]])

replaceSearchCommandAll(cfg, command) ==
    IF cfg.search = "" THEN Failed ELSE [cfg EXCEPT !.search = command]

removeCommandAll(cfg) == replaceSearchCommandAll(cfg, "")

\* setLinuxPath and setInitrdPath, with replaceToken for the old path, which
\* no other line holds.
setLinuxOrInitrdPathAll(cfg, allowMultiple) ==
    IF findLinuxOrInitrdLineAll(cfg, allowMultiple) = <<>> THEN Failed
    ELSE [cfg EXCEPT !.lines = [i \in DOMAIN cfg.lines |->
              [cfg.lines[i] EXCEPT !.kernel = "iso kernel", !.initrd = "iso initrd"]]]

replaceSetCommandValue(cfg, value) ==
    IF cfg.rootdevice = "" THEN Failed ELSE [cfg EXCEPT !.rootdevice = value]

FindNonRecoveryLinuxLine(cfg) == SelectSeq(cfg.lines, LAMBDA l : ~l.recovery)
-----------------------------------------------------------------------------
(* SELinux.                                                                *)

Modes == {"disabled", "permissive", "enforcing", "force-enforcing"}

selinuxArgNames == {"security", "selinux", "enforcing"}

selinuxModeToArgs(mode) ==
    IF mode = "disabled" THEN <<Arg("selinux", "0")>>
    ELSE <<Arg("security", "selinux"), Arg("selinux", "1")>>
         \o (IF mode = "force-enforcing" THEN <<Arg("enforcing", "1")>> ELSE <<>>)

\* "default": the configuration file decides.
getSELinuxModeFromLinuxArgs(args) ==
    LET value(name) == findKernelCommandLineArgValue(args, name)
    IN IF "error" \in {value(name) : name \in selinuxArgNames} THEN "error"
       ELSE IF value("security") # "selinux" \/ value("selinux") # "1" THEN "disabled"
       ELSE IF value("enforcing") = "1" THEN "force-enforcing"
       ELSE "default"

getSELinuxModeFromConfigFile(d) == IF d.selinux = "missing" THEN "error" ELSE d.selinux

\* From /etc/default/grub it reads GRUB_CMDLINE_LINUX alone.
getSELinuxModeFromGrub(d) ==
    IF d.mkconfig THEN getSELinuxModeFromLinuxArgs(d.defaults.linux)
    ELSE IF \/ Len(d.cfg.lines) # 1
            \/ findCommandLineInsertAt(d.cfg.lines[1].args, TRUE) = 0 THEN "error"
    ELSE getSELinuxModeFromLinuxArgs(d.cfg.lines[1].args)

GetSELinuxMode(d) ==
    LET mode == getSELinuxModeFromGrub(d)
    IN IF mode = "default" THEN getSELinuxModeFromConfigFile(d) ELSE mode

\* The file has no word for force-enforcing.
SELinuxUpdateConfig(mode) == IF mode = "force-enforcing" THEN "enforcing" ELSE mode

UpdateSELinuxModeInConfigFile(d, mode) ==
    IF d.selinux = "missing" THEN (IF mode = "disabled" THEN d ELSE Failed)
    ELSE [d EXCEPT !.selinux = SELinuxUpdateConfig(mode)]

updateSELinuxCommandLineHelperAll(cfg, mode, allowMultiple, requireKernelOpts) ==
    updateKernelCommandLineArgsAll(cfg, selinuxArgNames, selinuxModeToArgs(mode),
                                   allowMultiple, requireKernelOpts)
-----------------------------------------------------------------------------
(* /etc/default/grub and grub2-mkconfig.                                   *)

\* GRUB_CMDLINE_LINUX is appended to, _DEFAULT has its $kernelopts.
GetDefaultGrubFileLinuxArgs(defaults, varName) ==
    IF varName = "linux" THEN Len(defaults.linux) + 1
    ELSE findCommandLineInsertAt(defaults.linuxDefault, TRUE)

addExtraCommandLineToDefaultGrubFile(defaults, extra) ==
    LET at == GetDefaultGrubFileLinuxArgs(defaults, "linuxDefault")
    IN IF at = 0 THEN Failed
       ELSE [defaults EXCEPT !.linuxDefault = InsertArgs(@, at, extra)]

\* Mutant: the old arguments are not looked for.
appendDefaultGrubFileArgs(defaults, argsToRemove, newArgs) ==
    [defaults EXCEPT !.linux =
        InsertArgs(@, GetDefaultGrubFileLinuxArgs(defaults, "linux"), newArgs)]

updateDefaultGrubFileKernelCommandLineArgs(defaults, argsToRemove, newArgs) ==
    [defaults EXCEPT !.linux =
        updateKernelCommandLineArgsHelper(@, GetDefaultGrubFileLinuxArgs(defaults, "linux"),
                                          argsToRemove, newArgs)]

UpdateDefaultGrubFileVariable(defaults, name, value) == [defaults EXCEPT ![name] = value]

\* What grub2-mkconfig writes: a normal entry, and a recovery entry without
\* the default arguments unless that is disabled.
CallGrubMkconfig(defaults) ==
    LET device == IF defaults.device = "" THEN "/dev/sda2" ELSE defaults.device
        root == Arg("root", IF defaults.disableUuid = "true" THEN device ELSE "UUID")
    IN [search |-> "boot", rootdevice |-> "",
        lines |-> <<Line(FALSE, "vmlinuz", <<root>> \o defaults.linux \o defaults.linuxDefault)>>
                  \o (IF defaults.disableRecovery = "true" THEN <<>>
                      ELSE <<Line(TRUE, "vmlinuz", <<root>> \o defaults.linux)>>)]
-----------------------------------------------------------------------------
(* The customizer of the boot configuration: it holds the contents of the  *)
(* files and writes the one that counts.                                   *)

AddKernelCommandLine(d, extra) ==
    LET new == IF d.mkconfig THEN addExtraCommandLineToDefaultGrubFile(d.defaults, extra)
               ELSE appendKernelCommandLineArgsAll(d.cfg, extra, FALSE, TRUE)
    IN IF new = Failed THEN Failed
       ELSE IF d.mkconfig THEN [d EXCEPT !.defaults = new] ELSE [d EXCEPT !.cfg = new]

UpdateKernelCommandLineArgs(d, argsToRemove, newArgs) ==
    LET new == updateKernelCommandLineArgs(d.cfg, argsToRemove, newArgs)
    IN IF d.mkconfig
       THEN [d EXCEPT !.defaults =
                updateDefaultGrubFileKernelCommandLineArgs(@, argsToRemove, newArgs)]
       ELSE IF new = Failed THEN Failed ELSE [d EXCEPT !.cfg = new]

UpdateSELinuxCommandLine(d, mode) ==
    UpdateKernelCommandLineArgs(d, selinuxArgNames, selinuxModeToArgs(mode))

SetRootDevice(d, device) ==
    [d EXCEPT !.defaults = UpdateDefaultGrubFileVariable(@, "device", device)]

\* The root will be /dev/mapper/root; one linux line is left.
PrepareForVerity(d) ==
    IF ~d.mkconfig THEN d
    ELSE [d EXCEPT !.defaults = UpdateDefaultGrubFileVariable(
             UpdateDefaultGrubFileVariable(
                 UpdateDefaultGrubFileVariable(@, "disableUuid", "true"),
                 "disableRecovery", "true"),
             "device", "/dev/mapper/root")]

\* files is the image, d the contents that were read from it and changed.
WriteToFile(files, d) ==
    IF d.mkconfig
    THEN [files EXCEPT !.defaults = d.defaults, !.cfg = CallGrubMkconfig(d.defaults)]
    ELSE [files EXCEPT !.cfg = d.cfg]
=============================================================================
