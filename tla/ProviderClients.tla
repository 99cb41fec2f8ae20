--------------------------- MODULE ProviderClients ---------------------------
(***************************************************************************)
(* chat() of the three clients under providers/: what becomes of what the  *)
(* backend of a client does.                                               *)
(***************************************************************************)

(* no_client: the SDK's client, or httpx's, cannot be set up.  rejected:   *)
(* any 4xx but 401 and 403.  broken: the connection is lost in mid-answer. *)
(* unreadable: a 2xx without what the client reads from it.  cancelled:    *)
(* the caller gives up.                                                    *)
Event == {"no_client", "answered", "timeout", "unreachable", "broken", "overloaded", "rejected",
          "unauthorized", "forbidden", "unreadable", "cancelled"}

(* provider_error: any ProviderError but ProviderAuthError.  unclassified: *)
(* an exception that is no ProviderError.                                  *)
Result == {"response", "provider_error", "auth_error", "unclassified"}

(* httpx.TimeoutException and ConnectError are the only transport errors   *)
(* that are caught.                                                        *)
LocalChat(event) ==
    CASE event = "answered" -> "response"
      [] event \in {"unauthorized", "forbidden"} -> "auth_error"
      [] event \in {"no_client", "broken", "unreadable", "cancelled"} -> "unclassified"
      [] OTHER -> "provider_error"

(* Every exception of the call is caught, but none of setting up its       *)
(* client or of reading its answer.  A refusal is unauthorized or          *)
(* forbidden only with a code of _AUTH_ERROR_CODES, or else rejected.      *)
BedrockChat(event) ==
    CASE event = "answered" -> "response"
      [] event \in {"unauthorized", "forbidden"} -> "auth_error"
      [] event \in {"no_client", "unreadable", "cancelled"} -> "unclassified"
      [] OTHER -> "provider_error"

(* As bedrock's, but only 401 is an openai.AuthenticationError.            *)
FoundryChat(event) ==
    CASE event = "answered" -> "response"
      [] event = "unauthorized" -> "auth_error"
      [] event \in {"no_client", "unreadable", "cancelled"} -> "unclassified"
      [] OTHER -> "provider_error"

Chat(client, event) ==
    CASE client = "local" -> LocalChat(event)
      [] client = "bedrock" -> BedrockChat(event)
      [] client = "foundry" -> FoundryChat(event)

=============================================================================
