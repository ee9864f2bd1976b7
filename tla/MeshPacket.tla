----------------------------- MODULE MeshPacket -----------------------------
(***************************************************************************)
(* The packets of MeshCore as the gateway builds and reads them: client.rs *)
(* in muninn-mesh-meshcore-lib (requests, adverts, responses) and          *)
(* packet.rs in muninn-mesh-radio (what the radio notes of every frame).   *)
(*                                                                         *)
(* A key is the node it belongs to.  A sealed text opens with the secret   *)
(* it was closed with.  A received frame may end early: parts counts what  *)
(* of it there is, 1 the header byte, 2 the codes of a transport route,    *)
(* 3 the path byte, 4 the path, 5 a first byte of the body.                *)
(***************************************************************************)
EXTENDS Naturals, Sequences

CONSTANTS
    Gateway,     \* the gateway, as a node
    Route,       \* Route[n]: first byte of node n's public key
    PublicText,  \* PublicText[n]: n's public key as it is configured
    PrivateText, \* the gateway's private key as it is configured
    None

\* Hex text: its length, whether it is hex at all, and whose key it is.
ASSUME KeyTextAssumption ==
    /\ Gateway \in DOMAIN PublicText
    /\ \A n \in DOMAIN PublicText :
           PublicText[n] \in [digits : Nat, hex : BOOLEAN, owner : DOMAIN PublicText]
    /\ PrivateText \in [digits : Nat, hex : BOOLEAN, owner : DOMAIN PublicText]
    /\ DOMAIN PublicText \subseteq DOMAIN Route

-----------------------------------------------------------------------------
(* Key material.                                                            *)

PublicKeyBytes == 32
ExpandedKeyBytes == 64

\* parse_hex_bytes: the number of bytes, if the text is hex that fits.
ParseHexBytes(text, capacity) ==
    IF text.digits % 2 = 0 /\ text.digits \div 2 <= capacity /\ text.hex
    THEN text.digits \div 2 ELSE None

\* parse_hex_32
IsKey(text) == ParseHexBytes(text, PublicKeyBytes) = PublicKeyBytes

\* MeshcoreIdentity::from_hex: a seed or an expanded key, which must derive the
\* public key beside it.
IdentityIsValid ==
    /\ IsKey(PublicText[Gateway])
    /\ ParseHexBytes(PrivateText, ExpandedKeyBytes) \in {PublicKeyBytes, ExpandedKeyBytes}
    /\ PrivateText.owner = PublicText[Gateway].owner

\* MeshcoreContact::from_hex
ContactIsValid(n) == IsKey(PublicText[n])

\* MeshcoreIdentity::shared_secret
SharedSecret(n) == {Gateway, n}

\* MeshcorePathHash::from_public_key: a direct route takes one byte of the key.
PathHash(n) == Route[n]

-----------------------------------------------------------------------------
(* Sealed texts.                                                            *)

\* encrypt_then_mac
EncryptThenMac(secret, plain) == [secret |-> secret, plain |-> plain]

\* decrypt_mac_then_decrypt; None stands for a text of the wrong length.
OpenSealed(secret, sealed) ==
    CASE sealed = None -> [error |-> "Decode"]
      [] sealed # None /\ sealed.secret # secret -> [error |-> "Mac"]
      [] OTHER -> [error |-> "none", plain |-> sealed.plain]

-----------------------------------------------------------------------------
(* Packets the gateway builds.                                              *)

\* build_wire_frame: a direct route and an empty path.
WireFrame(kind, body) ==
    [kind |-> kind, transport |-> FALSE, segment |-> 0, hops |-> <<>>, parts |-> 5, body |-> body]

\* build_login_request: the gateway's whole key is in the clear.
LoginRequest(n, tag) ==
    WireFrame("anon", [dst |-> PathHash(n), key |-> Gateway,
                       sealed |-> EncryptThenMac(SharedSecret(n), [tag |-> tag])])

\* build_telemetry_request: the inverse mask of zero asks for everything.
TelemetryRequest(n, tag, nonce) ==
    WireFrame("request", [dst |-> PathHash(n), src |-> PathHash(Gateway),
                          sealed |-> EncryptThenMac(SharedSecret(n),
                                         [tag |-> tag, mask |-> 0, nonce |-> nonce])])

\* build_gateway_advert with push_advert_name
GatewayAdvert(name) ==
    WireFrame("advert", [key |-> Gateway, name |-> name, place |-> "none", whole |-> TRUE])

-----------------------------------------------------------------------------
(* Packets the gateway reads.                                               *)

\* path_byte_len: hashes of up to three bytes, as the top bits of the byte say.
PathIsSupported(segment) == segment + 1 <= 3

\* parse_wire_packet
ParseWire(f) ==
    CASE f.parts < 3 -> [error |-> "Decode"]
      [] f.parts >= 3 /\ ~PathIsSupported(f.segment) -> [error |-> "UnsupportedRoute"]
      [] f.parts \in 3..4 /\ PathIsSupported(f.segment) -> [error |-> "Decode"]
      [] OTHER -> [error |-> "none", kind |-> f.kind, body |-> f.body]

\* decrypt_datagram_payload: to the gateway's hash and from the contact's.
DecryptDatagram(n, body) ==
    CASE body = None -> [error |-> "Decode"]
      [] body # None /\ body.dst # PathHash(Gateway) -> [error |-> "NotForGateway"]
      [] body # None /\ body.dst = PathHash(Gateway) /\ body.src # PathHash(n) ->
             [error |-> "WrongSource"]
      [] OTHER -> OpenSealed(SharedSecret(n), body.sealed)

\* decrypt_path_response: the response behind a returned path.
DecryptPath(n, body) ==
    LET opened == DecryptDatagram(n, body) IN
    CASE opened.error # "none" -> opened
      [] opened.error = "none" /\ ~PathIsSupported(opened.plain.segment) ->
             [error |-> "UnsupportedRoute"]
      [] opened.error = "none" /\ PathIsSupported(opened.plain.segment)
         /\ opened.plain.extra # "response" -> [error |-> "Decode"]
      [] OTHER -> [error |-> "none", plain |-> opened.plain.behind]

\* decrypt_response
DecryptResponse(n, f) ==
    LET wire == ParseWire(f) IN
    CASE wire.error # "none" -> wire
      [] wire.error = "none" /\ wire.kind = "response" -> DecryptDatagram(n, wire.body)
      [] wire.error = "none" /\ wire.kind = "path"     -> DecryptPath(n, wire.body)
      [] OTHER -> [error |-> "Decode"]

\* is_response_frame
IsResponseFrame(f) ==
    LET wire == ParseWire(f) IN wire.error = "none" /\ wire.kind \in {"response", "path"}

\* response_is_login_success: "ok" is the status 0 or the text OK behind the tag.
LooksLikeLogin(plain) == plain.look = "ok"

\* login_response_is_success
LoginVerdict(plain) ==
    CASE plain.look = "unreadable" -> "Decode"
      [] LooksLikeLogin(plain)     -> "accepted"
      [] OTHER                     -> "AuthFailed"

-----------------------------------------------------------------------------
(* What the radio notes of a frame.                                         *)

NoAdvert == [key |-> None, name |-> None]

\* parse_advert_meta: nothing of an advert whose fixed part or position is cut.
AdvertMeta(body) ==
    IF ~body.whole \/ body.place = "cut" THEN NoAdvert
    ELSE [key |-> body.key, name |-> body.name]

NamedHops(hops) == SelectSeq(hops, LAMBDA hop : hop # 0)

\* decode_packet_meta: it reads paths with hashes of one byte only.
PacketMeta(f) ==
    LET read == f.parts >= 4 /\ f.segment = 0
        named == NamedHops(f.hops)
    IN  [kind     |-> IF f.parts = 0 THEN "request" ELSE f.kind,
         hops     |-> IF f.parts >= 3 /\ f.segment = 0 THEN Len(f.hops) ELSE 0,
         repeater |-> IF read /\ named # <<>> THEN named[Len(named)] ELSE 0,
         advert   |-> IF read /\ f.parts = 5 /\ f.kind = "advert" THEN AdvertMeta(f.body)
                      ELSE NoAdvert]
=============================================================================
