--------------------------- MODULE MCAgentDeploy ---------------------------
(* Plans for module AgentDeploy: a whole machine of two disks, a data disk  *)
(* without torrents, and plans that must be turned down: by Validate, by    *)
(* the plan's own contradiction, and by the machine it does not fit.        *)
EXTENDS AgentDeploy

Slot(disk, n, kind) == [number |-> n, kinds |-> {kind}, device |-> <<disk, n>>]

Data(disk, slots) == [targetDisk |-> disk, slots |-> slots, needs |-> 1]

Whole ==
    [schemaVersion |-> TRUE, targetDisk |-> "sda", needs |-> 2,
     slots |-> <<Slot("sda", 1, "mkfs"), Slot("sda", 2, "torrent")>>,
     dataImages |-> <<Data("sdb", <<Slot("sdb", 1, "torrent")>>)>>,
     hooks |-> <<"builtin", "script">>]

DataOnly ==
    [Whole EXCEPT !.targetDisk = "", !.slots = <<>>, !.hooks = <<>>,
                  !.dataImages = <<Data("sdb", <<Slot("sdb", 1, "swap")>>)>>]

TwiceTheSlot == [Whole EXCEPT !.slots = <<Slot("sda", 1, "mkfs"), Slot("sda", 1, "swap")>>]

ForeignDevice == [Whole EXCEPT !.slots = <<Slot("sdb", 1, "mkfs")>>]

SameDisk == [Whole EXCEPT !.dataImages = <<Data("sda", <<Slot("sda", 3, "swap")>>)>>]

TooSmall == [Whole EXCEPT !.dataImages = <<[Data("sdb", <<Slot("sdb", 1, "swap")>>)
                                            EXCEPT !.needs = 5]>>]

NoSuchDisk == [Whole EXCEPT !.dataImages = <<Data("sdc", <<Slot("sdc", 1, "swap")>>)>>]

MCPlans == {Whole, DataOnly, TwiceTheSlot, ForeignDevice, SameDisk, TooSmall, NoSuchDisk}

MCDevDisks == {"sda", "sdb", "sdc"}

MCSizeOf == [d \in {"sda", "sdb"} |-> 3]
=============================================================================
