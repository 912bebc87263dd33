----------------------------- MODULE MCRedeploy ------------------------------
EXTENDS Redeploy

OneDisk(dev, serial, model, size) ==
    [dev |-> dev, serial |-> serial, model |-> model, pad |-> "", size |-> size, rotational |-> FALSE]

\* Two disks; the same after a boot that swapped their names; one disk reported under two
\* names beside another; none reported yet.
Small(dev) == OneDisk(dev, "s1", "m", 2)
Large(dev) == OneDisk(dev, "s2", "m", 4)
MCInventories ==
    {None, <<Small("sda"), Large("sdb")>>, <<Large("sda"), Small("sdb")>>,
     <<Small("sda"), Small("sdb"), Large("sdc")>>}

OnDisk1 == [serial |-> "s1"]
Spec0 == [os |-> "os", hints |-> OnDisk1, data |-> <<>>, hooks |-> <<>>, params |-> {},
          selector |-> <<[model |-> "m"], [min |-> 1]>>]
MCClaims ==
    {Spec0,
     [Spec0 EXCEPT !.hints = [max |-> 1], !.data = <<[image |-> "data", hints |-> [min |-> 2]]>>,
                   !.selector = <<[model |-> "m"], [min |-> 2]>>],
     [Spec0 EXCEPT !.hints = [dev |-> "sda"], !.selector = <<[min |-> 2], [min |-> 2]>>,
                   !.data = <<[image |-> "data", hints |-> [dev |-> "sdb"]]>>],
     [Spec0 EXCEPT !.os = None, !.data = <<[image |-> "data", hints |-> OnDisk1]>>,
                   !.selector = <<[rotational |-> TRUE]>>],
     [Spec0 EXCEPT !.hooks = <<"script">>, !.params = {"p"}]}

Slot(n, role, content) == [number |-> n, role |-> role, content |-> content]
Builtin(kind) == [kind |-> kind, family |-> "linux", source |-> "inline", needs |-> {}, part |-> FALSE]
MCWorld ==
    [claim |-> Spec0, hardware |-> <<Small("sda"), Large("sdb")>>,
     images |-> [os |-> [state |-> "ready", hooks |-> <<>>, params |-> {}, family |-> "linux",
                         slots |-> <<Slot(1, "esp", TRUE), Slot(2, "swap", FALSE)>>],
                 data |-> [state |-> "ready", hooks |-> <<>>, params |-> {}, family |-> "linux",
                           slots |-> <<Slot(1, "data", FALSE)>>]],
     content |-> "ready", site |-> "serving",
     hooks |-> [default |-> [state |-> "valid", defaults |-> {},
                             steps |-> <<Builtin("mkswap"), Builtin("install-removable-fallback"),
                                         Builtin("efibootmgr")>>],
                script |-> [state |-> "valid", defaults |-> {},
                            steps |-> <<[kind |-> "script", family |-> "any", source |-> "inline",
                                         needs |-> {"p"}, part |-> FALSE]>>]]]

\* Plain; a seeder not placed yet under an Image without an ESP.
MCWorlds ==
    {MCWorld,
     [MCWorld EXCEPT !.images["os"].slots = <<Slot(1, "root", TRUE)>>, !.site = "unseeded"]}
==============================================================================
