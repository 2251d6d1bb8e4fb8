----------------------------- MODULE DnsService -----------------------------
(***************************************************************************)
(* What the clients of internal/provider/dns can meet when they send one   *)
(* request to a DNS service, and how they read the answer.  The services   *)
(* themselves are outside the repository and are modelled by what the      *)
(* clients ask of them and by the answers the clients provide for.         *)
(***************************************************************************)

(* dns/client.go: the kinds of provider a configuration can name.          *)
Providers == {"CLOUDFLARE", "TECHNITIUM", "DESEC", "HOOK"}

(***************************************************************************)
(* The fates of a request: done and answered; refused with an HTTP status  *)
(* outside 200-299 (or a hook that exits non-zero); lost before the        *)
(* service saw it; done but the answer lost (the client's timeout); and,   *)
(* for Technitium, refused behind HTTP 200 with "status": "error".         *)
(***************************************************************************)
Outcomes(p) == {"done", "refused", "lost", "unanswered"}
               \cup (IF p = "TECHNITIUM" THEN {"excused"} ELSE {})

Applied(o)  == o \in {"done", "unanswered"}     (* the service did it       *)
Answered(o) == o \notin {"lost", "unanswered"}  (* Client.Do returns no error *)
Status2xx(o) == o \in {"done", "excused"}       (* 200 <= StatusCode < 300  *)
=============================================================================
