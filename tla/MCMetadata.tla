----------------------------- MODULE MCMetadata -----------------------------
(* What the metadata store promises: codes, listings, keys and single reads; *)
(* and what the settings of a request come to. They share nothing: a         *)
(* behaviour is one of them, and the others stand still.                     *)
EXTENDS Codes, Listing, Keys, Lookups, Redaction, TLC

VARIABLE part

\* There is something of every kind, and a row may be without labels: gone.
ASSUME PartsAssumption ==
    {} \notin {Code, Image, Profile, Queries} /\ {} \in Labelling

MCScope     == [h \in Holder |-> Value]
MCLabelling == {{}, {"t"} \X Value, {<<"t", "x">>, <<"u", "y">>}}
MCQueries   == {[holder |-> Operator, values |-> {"x"}], [holder |-> "t", values |-> {}]}
MCForeign   == {[id |-> 1, key_sha |-> s] : s \in Secret}

Alike == Permutations(Job) \union Permutations(Image) \union Permutations(Profile)

metadataVars ==
    <<part, vars, listingVars, keysVars, lookupsVars, redactionVars>>

\* Where a part does not run, it has one initial state of the many.
NoCodes ==
    /\ codes = [c \in Code |-> Unbound] /\ stale = {}
    /\ artifacts = [i \in Image |-> [p \in Profile |-> "none"]]
    /\ jobs = [j \in Job |-> CHOOSE s \in Submission : s.pc = "new" /\ s.found = None]

NoWalk ==
    /\ rows = [r \in RowId |->
                 [there |-> FALSE, key |-> CHOOSE k \in SortKey : TRUE, labels |-> {}]]
    /\ walk = [pc |-> "idle", query |-> CHOOSE q \in Queries : TRUE, desc |-> TRUE,
               total |-> 0, key |-> CHOOSE k \in SortKey : TRUE,
               id |-> CHOOSE r \in RowId : TRUE, first |-> TRUE, capped |-> FALSE]
    /\ listed = [r \in RowId |-> 0] /\ steady = {} /\ changes = 0

NoSettings ==
    /\ config = Plain /\ request = Plain /\ allowed = Mode
    /\ box = NoBox /\ expand = CHOOSE e \in Expands : TRUE

MetadataInit ==
    /\ part \in {"codes", "listing", "keys", "reads", "settings"}
    /\ IF part = "codes"    THEN Init          ELSE NoCodes
    /\ IF part = "listing"  THEN ListingInit   ELSE NoWalk
    /\ IF part = "settings" THEN RedactionInit ELSE NoSettings
    /\ KeysInit /\ (part # "keys" => sqlKeys /\ file = {})
    /\ LookupsInit

MetadataNext ==
    /\ \/ /\ part = "codes" /\ Next
          /\ UNCHANGED <<listingVars, keysVars, lookupsVars>>
       \/ /\ part = "listing" /\ ListingNext
          /\ UNCHANGED <<vars, keysVars, lookupsVars>>
       \/ /\ part = "keys" /\ KeysNext
          /\ UNCHANGED <<vars, listingVars, lookupsVars>>
       \/ /\ part = "reads" /\ LookupsNext
          /\ UNCHANGED <<vars, listingVars, keysVars>>
    /\ UNCHANGED <<part, redactionVars>>

Metadata == MetadataInit /\ [][MetadataNext]_metadataVars

\* The variables of every part keep their types.
MetadataTypeOK ==
    TypeOK /\ ListingTypeOK /\ KeysTypeOK /\ LookupsTypeOK /\ RedactionTypeOK
=============================================================================
