------------------------------ MODULE Services ------------------------------
(***************************************************************************)
(* What runs beside the indexers and the ledger calls: the cached reads of *)
(* the dataset tables, Sign-In With Stellar, and the two jobs that         *)
(* operators run, the seed and the backup.  None of them depends on what   *)
(* another one does: a nonce and a cached answer never share a key, and to *)
(* the reads a row of the seed is a row that was inserted, like any other. *)
(* A behaviour therefore has one of them, and the others stay in one of    *)
(* their initial states.                                                   *)
(***************************************************************************)
EXTENDS DatasetListing, SiwsAuth, Seed, Backup

VARIABLE part  \* what runs in this behaviour

Parts == {"listing", "siws", "seed", "backup"}

servicesVars == <<listingVars, siwsVars, seedVars, backupVars, part>>

OneOf(S) == CHOOSE x \in S : TRUE

Init ==
    /\ part \in Parts
    /\ ListingInit /\ SiwsInit /\ SeedInit /\ BackupInit
    /\ part # "listing" =>
        redisClient = OneOf(RedisClients) /\ use = OneOf(Uses) /\ rows = {}
    /\ part # "siws" => store = OneOf(Stores)
    /\ part # "seed" => \A r \in Rows : tables[r] = "absent"

Next ==
    \/ /\ part = "listing" /\ ListingNext
       /\ UNCHANGED <<siwsVars, seedVars, backupVars, part>>
    \/ /\ part = "siws" /\ SiwsNext
       /\ UNCHANGED <<listingVars, seedVars, backupVars, part>>
    \/ /\ part = "seed" /\ SeedNext
       /\ UNCHANGED <<listingVars, siwsVars, backupVars, part>>
    \/ /\ part = "backup" /\ BackupNext
       /\ UNCHANGED <<listingVars, siwsVars, seedVars, part>>

Spec == Init /\ [][Next]_servicesVars
=============================================================================
