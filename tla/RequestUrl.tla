----------------------------- MODULE RequestUrl -----------------------------
(***************************************************************************)
(* The variable url of DealPacket (EdoyunServer.cpp): the TParseUrl from   *)
(* which the server reads the method of a request and the parameters of a  *)
(* login.  DealPacket makes one for each request; SetUrl, of the same      *)
(* class, may give it another URL.  Its properties have names here that    *)
(* stand beside those of the server itself, module EdoyunServer.           *)
(***************************************************************************)
EXTENDS Sequences

CONSTANTS Chars, Urls, LaterUrls, Params

VARIABLES url, v_param, thrown

Url == INSTANCE TParseUrl

(* The names DealPacket asks for, "time", "salt", "user" and "sign", hold  *)
(* neither mark.                                                           *)
ASSUME UrlsAssumption == Urls \subseteq Seq(Chars) /\ LaterUrls \subseteq Urls
ASSUME ParamsAssumption ==
    /\ Params \subseteq Seq(Chars) \ {<<>>}
    /\ \A p \in Params : Url!Range(p) \cap {"&", "="} = {}

UrlSpec == Url!Spec

(* The method DealPacket decides by and the parameters UserLogin works     *)
(* with are those of the URL that came, see module TParseUrl.              *)
RequestExact == Url!RequestExact

(* The constructor of url throws only at a colon behind the domain, and    *)
(* host and port are the domain's, see module TParseUrl.                   *)
ColonExact == Url!ColonExact
=============================================================================
