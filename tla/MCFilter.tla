------------------------------ MODULE MCFilter ------------------------------
(* Constants for the runs of Filter and BindingLookup.  The "filter" run     *)
(* covers both uses of filters: a caller that builds one freely, and         *)
(* bindings that are made and looked up with the filters built for that.     *)
EXTENDS BindingLookup

MCLower ==
    [t \in {" ", "@", "ni", "nik", "unicity", "NIK", "UNICITY"} |->
        CASE t = "NIK" -> "nik" [] t = "UNICITY" -> "unicity" [] OTHER -> t]
MCCharCount ==
    [t \in DOMAIN MCLower |-> CASE t \in {" ", "@"} -> 1 [] t = "ni" -> 2 [] t \in {"nik", "NIK"} -> 3 [] OTHER -> 7]

MCAuthors   == {<<0, 0>>, <<0, 1>>}
MCStrangers == {<<1, 1>>}
MCNames     == {<<"nik">>, <<" ", "NIK", "@", "UNICITY">>, <<"@", "nik">>, <<"ni">>,
                <<"@", "unicity", "@", "unicity">>}
MCAddresses == {<<"nik">>, <<"ni">>}
MCIdentitySets == {{}, {"public_key", "l1_address"}}

EitherInit == Init /\ LookupInit
EitherNext ==
    \/ Next /\ made = {} /\ others = {} /\ book = {} /\ reply = Nothing /\ UNCHANGED lookupVars
    \/ LookupNext /\ sets = 0 /\ ~built /\ UNCHANGED vars
EitherSpec == EitherInit /\ [][EitherNext]_<<vars, lookupVars>>
=============================================================================
