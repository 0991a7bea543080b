---------------------------- MODULE MCClientBuilder ----------------------------
(* ClientBuilder with URLs, lists and headers that take every branch.         *)
EXTENDS ClientBuilder

CONSTANTS k1, k2
FreshKeysAlike == Permutations({k1, k2})

\* No port, one of its own, the default of the scheme and that of the other; no host.
MCUrls ==
    {[secure |-> FALSE, host |-> "h", written |-> NoPort],
     [secure |-> FALSE, host |-> "h", written |-> 443],
     [secure |-> TRUE, host |-> "h", written |-> 443],
     [secure |-> TRUE, host |-> "h", written |-> 80],
     [secure |-> TRUE, host |-> "h", written |-> 8080],
     [secure |-> FALSE, host |-> "", written |-> NoPort]}

\* A name with a comma and a blank in it.
MCProtocolNames == {<< <<"", "super">> >>}
MCExtensionLists ==
    {<< [name |-> "deflate", params |-> <<[name |-> <<"bits">>, value |-> <<"8">>]>>],
        [name |-> "", params |-> <<>>] >>}

MCCustomHeaders ==
    {"connection" :> <<{"keep-alive"}>> @@ "upgrade" :> <<{"h2c"}>>
        @@ "host" :> <<[name |-> "x", port |-> 1]>> @@ "protocol" :> << <<"other", "">> >>,
     "key" :> <<Malformed>> @@ "version" :> <<Opaque>> @@ "origin" :> <<"another">>
        @@ "extensions" :> << << << <<"deflate">>, <<"bits", "9">> >>, Blank >> >>}
MCCleared == {"key", "version"}
MCAppHeaders ==
    {<<>>,
     "accept" :> <<"custom">> @@ "upgrade" :> <<{"h2c"}>> @@ "protocol" :> << <<"other">> >>}

=============================================================================
