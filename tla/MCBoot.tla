------------------------------- MODULE MCBoot -------------------------------
(***************************************************************************)
(* Instances of BootTools for TLC: images whose grub.cfg is generated or   *)
(* edited in place, with and without SELinux, a policy or $kernelopts.     *)
(***************************************************************************)
EXTENDS BootTools

Template(mkconfig, mode, selinux) ==
    LET new == installGrubTemplateFile(mode, <<>>)
    IN [mkconfig |-> mkconfig, selinux |-> selinux, defaults |-> new.defaults,
        cfg |-> IF mkconfig THEN CallGrubMkconfig(new.defaults) ELSE new.cfg]

\* An image on which no arguments can be inserted.
WithoutKernelOpts ==
    [Template(TRUE, "disabled", "disabled") EXCEPT !.defaults.linuxDefault = <<>>]

MCImages ==
    {Template(mkconfig, mode, "enforcing") :
        mkconfig \in BOOLEAN, mode \in {"disabled", "enforcing", "force-enforcing"}}
    \cup {Template(mkconfig, "disabled", "missing") : mkconfig \in BOOLEAN}
    \cup {WithoutKernelOpts}

MCExtras == {<<>>, <<Arg("quiet", "")>>, <<Arg("selinux", "0")>>}

MCConfigs ==
    {c \in [extra : MCExtras, isoExtra : {<<>>, <<Arg("quiet", "")>>},
            mode : {"default", "disabled", "permissive", "force-enforcing"},
            reset : BOOLEAN, os : BOOLEAN, verity : BOOLEAN, output : {"image", "iso"}] :
        /\ c.verity => c.output = "image"
        /\ c.output = "image" => c.os /\ c.isoExtra = <<>>
        /\ ~c.os => c.extra = <<>> /\ c.mode = "default" /\ ~c.reset}

MCModifierModes == {"default", "disabled", "enforcing"}
=============================================================================
