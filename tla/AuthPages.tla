------------------------------ MODULE AuthPages ------------------------------
(***************************************************************************)
(* fill_auth_pages of src/remoteid/remoteid/auth.c: how a signature is cut *)
(* into the pages of authentication messages, and, as OpenDroneID has it,  *)
(* which pages can be encoded and where a receiver looks for a byte.       *)
(***************************************************************************)
EXTENDS Naturals

CONSTANT SignatureSize  \* 64 bytes

PageZeroSize == 17      \* ODID_AUTH_PAGE_ZERO_DATA_SIZE
PageNonzeroSize == 23   \* ODID_AUTH_PAGE_NONZERO_DATA_SIZE
MaxPages == 16          \* ODID_AUTH_MAX_PAGES

ASSUME AuthPagesAssumption ==
    /\ SignatureSize \in Nat
    /\ SignatureSize >= PageZeroSize
    /\ SignatureSize <= PageZeroSize + (MaxPages - 1) * PageNonzeroSize

-----------------------------------------------------------------------------
(* mutant: the division is not rounded up *)
LastPageIndex_RoundsDown == (SignatureSize - PageZeroSize) \div PageNonzeroSize

LastPageIndex ==
    (SignatureSize - PageZeroSize + (PageNonzeroSize - 1)) \div PageNonzeroSize

PagesFilled == 0 .. LastPageIndex

(* Where the data of a page begins in the signature, and how much there is. *)
Offset(page) ==
    IF page = 0 THEN 0 ELSE PageZeroSize + (page - 1) * PageNonzeroSize

CopyLen(page) ==
    LET size == IF page = 0 THEN PageZeroSize ELSE PageNonzeroSize
        remaining == SignatureSize - Offset(page)
    IN  IF remaining < size THEN remaining ELSE size

(* The byte of the signature at a place of a page. *)
ByteAt(page, place) == Offset(page) + place

-----------------------------------------------------------------------------
(* encodeAuthMessage, of AuthType, DataPage, LastPageIndex and Length *)
Encodable(page) ==
    /\ page < MaxPages
    /\ page = 0 =>
          /\ LastPageIndex < MaxPages
          /\ SignatureSize <= PageZeroSize + LastPageIndex * PageNonzeroSize

(* Where a receiver looks for byte i of the signature. *)
PageOf(i) == IF i < PageZeroSize THEN 0
             ELSE 1 + ((i - PageZeroSize) \div PageNonzeroSize)

PlaceOf(i) == IF i < PageZeroSize THEN i
              ELSE (i - PageZeroSize) % PageNonzeroSize

-----------------------------------------------------------------------------
(* Each byte a receiver needs has been sent to the page and the place it   *)
(* looks at (auth.c:105-126).                                              *)
ByteArrives(i) ==
    /\ PageOf(i) \in PagesFilled
    /\ PlaceOf(i) < CopyLen(PageOf(i))
    /\ ByteAt(PageOf(i), PlaceOf(i)) = i

(* A receiver waits for no page that is not sent, and none without a byte  *)
(* of the signature is sent (auth.c:95-103); no page fails to be encoded,  *)
(* which would leave pages of two signatures in the bundle                 *)
(* (auth.c:205-212).                                                       *)
PageArrives(page) == Encodable(page) /\ CopyLen(page) > 0

=============================================================================
