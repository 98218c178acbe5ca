----------------------------- MODULE MCRegistry -----------------------------
(***************************************************************************)
(* A house whose registry has three states: a lamp on a hub in the hall    *)
(* and a lock in the yard; the hub moved to the yard and the lock gone;    *)
(* the lamp on a device of its own and in the hall by itself, the lock on  *)
(* the hub.                                                                *)
(***************************************************************************)
EXTENDS RegistryCache

CONSTANTS lamp, lock, light, other, hall, yard, hub, plug, lovelace, gps,
          noArea, noDevice, noDashboard

mcEntities == {lamp, lock}
mcDomainOf == [e \in mcEntities |-> IF e = lamp THEN light ELSE other]

WorldOf(known, ownArea, deviceOf, hubArea) ==
    [known |-> known, own |-> ownArea, device |-> deviceOf,
     device_area |-> [d \in {hub, plug} |-> IF d = hub THEN hubArea ELSE noArea]]

PerEntity(ofLamp, ofLock) == [e \in mcEntities |-> IF e = lamp THEN ofLamp ELSE ofLock]

mcWorlds ==
    {WorldOf({lamp, lock}, PerEntity(noArea, yard), PerEntity(hub, noDevice), hall),
     WorldOf({lamp}, PerEntity(noArea, noArea), PerEntity(hub, noDevice), yard),
     WorldOf({lamp, lock}, PerEntity(hall, noArea), PerEntity(plug, hub), yard)}
=============================================================================
