-------------------------------- MODULE Crypto --------------------------------
(***************************************************************************)
(* Who owns the OpenSSL objects of util.crypto and util.hashes.  A         *)
(* function of these libraries is a sequence of calls, nearly all of which *)
(* may fail: OpenSSL's by their result, Lua's by an error that leaves the  *)
(* C function there and then.  An object is either freed by the function   *)
(* or handed to the Lua garbage collector (managed_pointer.h, push_pkey).  *)
(*                                                                         *)
(* Each function is given as its steps; runs of calls on the same objects  *)
(* with the same failure path are one step.  Lua running out of memory is  *)
(* left out.  OpenSSL is modelled from its use here: a call that makes or  *)
(* frees an object, or initialises one, may be given NULL for an object    *)
(* that could not be made (and does nothing, or fails); no other call may. *)
(***************************************************************************)
EXTENDS Naturals, Sequences

(* The kinds of steps: on are the objects a step makes, frees or hands over, by
   those its calls are given; to is the step a failure goes to, 0 when it cannot
   fail or nobody looks. *)
Step(op, on, by, to) == [op |-> op, on |-> on, by |-> by, to |-> to]
Check         == Step("check", {}, {}, 0)       \* luaL_check*: may raise
Managed(o)    == Step("managed", {o}, {}, 0)    \* MANAGED_POINTER_ALLOCATOR
New(o, S, to) == Step("new", {o}, S, to)
Init(o, to)   == Step("init", {}, {o}, to)
Call(S, to)   == Step("call", {}, S, to)
Free(o)       == Step("free", {o}, {}, 0)       \* also if (o) ..._free(o)
push_pkey(o)  == Step("give", {o}, {}, 0)
Return        == Step("return", {}, {}, 0)
ReturnNil     == Step("nil", {}, {}, 0)
luaL_error    == Step("raise", {}, {}, 0)

(* hashes.c *)
Levp_hash == <<Check, New("ctx", {}, 6), Call({"ctx"}, 6), Free("ctx"), Return, Free("ctx"), luaL_error>>
Levp_hmac == <<Check, Call({}, 4), Return, luaL_error>>
Levp_pbkdf2 == <<Check, Call({}, 4), Return, luaL_error>>
Levp_hkdf == <<Check, New("pctx", {}, 0), Init("pctx", 6), Call({"pctx"}, 6), Return, luaL_error>>

(* crypto.c: the methods of a key *)
Lpkey_meth_derive ==
  <<Check, Managed("bio"), New("ctx", {"key"}, 7), Call({"ctx", "key", "bio"}, 7), Free("ctx"), Return,
    Free("ctx"), luaL_error>>
Lpkey_meth_public_raw ==
  <<Check, Call({"key"}, 6), New("params", {"key"}, 6), Free("params"), Return, ReturnNil>>
Lpkey_meth_public_pem == <<Check, Managed("bio"), Call({"bio", "key"}, 5), Return, ReturnNil>>
Lpkey_meth_private_pem == <<Check, Managed("bio"), Call({"bio", "key"}, 5), Return, ReturnNil>>
base_evp_sign == <<Check, Managed("md_ctx"), Call({"md_ctx", "key"}, 5), Return, ReturnNil>>
base_evp_verify == <<Check, New("md_ctx", {}, 0), Call({"md_ctx", "key"}, 6), Free("md_ctx"), Return,
                     Free("md_ctx"), ReturnNil>>

(* keys: made and read in *)
Lgenerate_ed25519_keypair ==
  <<New("pctx", {}, 0), Init("pctx", 0), Call({"pctx"}, 0), New("pkey", {"pctx"}, 0), Free("pctx"),
    push_pkey("pkey"), Return>>
Lgenerate_p256_keypair ==
  <<New("pctx", {}, 0), Init("pctx", 8), Call({"pctx"}, 8), New("pkey", {"pctx"}, 8), Free("pctx"),
    push_pkey("pkey"), Return, Free("pctx"), ReturnNil>>
Limport_private_pem ==
  <<Managed("bio"), Check, New("pkey", {"bio"}, 6), push_pkey("pkey"), Return, ReturnNil>>
Limport_public_pem ==
  <<Managed("bio"), Check, New("pkey", {"bio"}, 6), push_pkey("pkey"), Return, ReturnNil>>
(* Mutant: the failure path forgets the parameters. *)
Limport_public_ec_raw_leak ==
  <<Check, New("param_bld", {}, 13), Call({"param_bld"}, 13), New("params", {"param_bld"}, 13),
    New("ctx", {}, 13), Call({"ctx"}, 13), New("pkey", {"ctx", "params"}, 13), push_pkey("pkey"),
    Free("ctx"), Free("params"), Free("param_bld"), Return,
    Free("ctx"), Free("param_bld"), ReturnNil>>
Limport_public_ec_raw ==
  <<Check, New("param_bld", {}, 13), Call({"param_bld"}, 13), New("params", {"param_bld"}, 13),
    New("ctx", {}, 13), Call({"ctx"}, 13), New("pkey", {"ctx", "params"}, 13), push_pkey("pkey"),
    Free("ctx"), Free("params"), Free("param_bld"), Return,
    Free("ctx"), Free("params"), Free("param_bld"), ReturnNil>>

(* AES.  In GCM there is one call more than in CTR, to get or set the tag; its
   failure path is that of the calls before. *)
Levp_encrypt == <<Check, Managed("ctx"), Call({"ctx"}, 5), Return, luaL_error>>
Levp_decrypt == <<Check, Managed("ctx"), Call({"ctx"}, 6), Call({"ctx"}, 7), Return, luaL_error, ReturnNil>>

(* ECDSA signatures *)
Lparse_ecdsa_signature ==
  <<Check, New("sig", {}, 8), Call({"sig"}, 6), Free("sig"), Return, Free("sig"), luaL_error, ReturnNil>>
Lbuild_ecdsa_signature == <<New("sig", {}, 0), Check, Call({"sig"}, 0), Free("sig"), Return>>

Function ==
  [hash |-> Levp_hash, hmac |-> Levp_hmac, pbkdf2 |-> Levp_pbkdf2, hkdf |-> Levp_hkdf,
   derive |-> Lpkey_meth_derive, public_raw |-> Lpkey_meth_public_raw,
   public_pem |-> Lpkey_meth_public_pem, private_pem |-> Lpkey_meth_private_pem,
   sign |-> base_evp_sign, verify |-> base_evp_verify,
   generate_ed25519 |-> Lgenerate_ed25519_keypair, generate_p256 |-> Lgenerate_p256_keypair,
   import_private_pem |-> Limport_private_pem, import_public_pem |-> Limport_public_pem,
   import_public_ec_raw |-> Limport_public_ec_raw, encrypt |-> Levp_encrypt,
   decrypt |-> Levp_decrypt, parse_ecdsa |-> Lparse_ecdsa_signature,
   build_ecdsa |-> Lbuild_ecdsa_signature]

VARIABLES fn,        \* the function that runs
          at_step,   \* where it is; 0 once it has returned
          result,    \* "", "value", "nil" or "error"
          mine,      \* live objects that the function is to free
          collected, \* live objects that the garbage collector is to free
          gone,      \* what the function has freed
          null,      \* what the function holds NULL for because it could not be made
          hollow,    \* a key was handed to Lua that has no EVP_PKEY
          misuse     \* "freed": freed twice or not its to free; "used": given to a call, not there

cryptoVars == <<fn, at_step, result, mine, collected, gone, null, hollow, misuse>>

(* The key a function is called with, if any: one that Lua was given. *)
TakesKey(f) == \E n \in DOMAIN Function[f] : "key" \in Function[f][n].by

CryptoInit ==
  /\ fn \in DOMAIN Function /\ at_step = 1 /\ result = ""
  /\ mine = {} /\ gone = {} /\ null = {} /\ hollow = FALSE /\ misuse = {}
  /\ collected = IF TakesKey(fn) THEN {"key"} ELSE {}

Now == Function[fn][at_step]
Live == mine \cup collected
On(op) == at_step # 0 /\ Now.op \in op

Leave(r) == at_step' = 0 /\ result' = r
Onward == at_step' = at_step + 1 /\ UNCHANGED result
Fails == at_step' = (IF Now.to = 0 THEN at_step + 1 ELSE Now.to) /\ UNCHANGED result

CheckStep ==
  /\ On({"check"})
  /\ Onward \/ Leave("error")
  /\ UNCHANGED <<fn, mine, collected, gone, null, hollow, misuse>>

(* What is made of objects that are not there is not made.  A failure nobody
   looks at leaves NULL behind, and the function goes on. *)
AllocStep ==
  /\ On({"managed", "new"})
  /\ \/ /\ Now.by \subseteq Live /\ Onward /\ UNCHANGED null
        /\ IF Now.op = "new" THEN mine' = mine \cup Now.on /\ UNCHANGED collected
                             ELSE collected' = collected \cup Now.on /\ UNCHANGED mine
     \/ Now.op = "managed" /\ Leave("error") /\ UNCHANGED <<mine, collected, null>>
     \/ Now.op = "new" /\ Fails /\ null' = null \cup Now.on /\ UNCHANGED <<mine, collected>>
  /\ UNCHANGED <<fn, gone, hollow, misuse>>

(* Calls that work with objects; after one that was given NULL the process may
   be gone, and the model goes on as if it had failed. *)
CallStep ==
  /\ On({"init", "call"})
  /\ (Now.by \subseteq Live /\ Onward) \/ Fails
  /\ misuse' = misuse \cup IF Now.op = "call" /\ ~(Now.by \subseteq Live) THEN {"used"} ELSE {}
  /\ UNCHANGED <<fn, mine, collected, gone, null, hollow>>

(* Freeing NULL, or a variable that was never set to anything else, is nothing. *)
FreeStep ==
  /\ On({"free"}) /\ Onward
  /\ mine' = mine \ Now.on /\ gone' = gone \cup (Now.on \cap mine)
  /\ misuse' = misuse \cup IF Now.on \cap (collected \cup gone) # {} THEN {"freed"} ELSE {}
  /\ UNCHANGED <<fn, collected, null, hollow>>

GiveStep ==
  /\ On({"give"}) /\ Onward
  /\ mine' = mine \ Now.on
  /\ IF Now.on \subseteq mine THEN collected' = collected \cup Now.on /\ UNCHANGED hollow
                              ELSE hollow' = TRUE /\ UNCHANGED collected
  /\ UNCHANGED <<fn, gone, null, misuse>>

LeaveStep ==
  /\ On({"return", "nil", "raise"})
  /\ Leave(CASE Now.op = "return" -> "value" [] Now.op = "nil" -> "nil" [] Now.op = "raise" -> "error")
  /\ UNCHANGED <<fn, mine, collected, gone, null, hollow, misuse>>

(* The function has returned, the collector runs the finalizers, and another
   function is called. *)
NextCall ==
  /\ at_step = 0 /\ UNCHANGED hollow
  /\ fn' \in DOMAIN Function /\ at_step' = 1 /\ result' = ""
  /\ mine' = {} /\ gone' = {} /\ misuse' = {}
  /\ \/ collected' = (IF TakesKey(fn') THEN {"key"} ELSE {}) /\ null' = {}
     \/ hollow /\ TakesKey(fn') /\ collected' = {} /\ null' = {"key"}

CryptoNext == CheckStep \/ AllocStep \/ CallStep \/ FreeStep \/ GiveStep \/ LeaveStep \/ NextCall

CryptoSpec == CryptoInit /\ [][CryptoNext]_cryptoVars

-----------------------------------------------------------------------------
(* The functions that are known to leave an object behind: hkdf never frees its
   context, build_ecdsa allocates before it checks its arguments. *)
Leaking == {"hkdf", "build_ecdsa"}

(* The functions that do not look whether an allocation succeeded before they
   give its result to the next call. *)
Unlooked == {"generate_ed25519", "verify", "build_ecdsa"}

(* Whichever call fails, by a result or by a Lua error, a function leaves no
   object that nobody will free, and frees none twice and none the collector
   owns.  It uses no object that is not there, but for the functions that do
   not look, and for any function that is called with a key without EVP_PKEY,
   which one of those alone hands out. *)
ReleasedOnce ==
  /\ at_step = 0 /\ fn \notin Leaking => mine = {}
  /\ "freed" \notin misuse
  /\ "used" \in misuse => fn \in Unlooked \/ "key" \in null
  /\ result = "value" /\ "pkey" \in null => fn = "generate_ed25519"
=============================================================================
